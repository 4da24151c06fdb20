------------------------------- MODULE Session -------------------------------
(***************************************************************************)
(* The life of one AMQPConnection: connectToHost, loginAsUser with the     *)
(* handshake and the tuning of amqp_login, disconnectError and dealloc,    *)
(* against a broker that offers limits, refuses, pushes frames, or goes    *)
(* away.  The program may connect the same object again after a login or a *)
(* connection failed: frames read from the earlier connection are then     *)
(* still in the socket buffer and in the queue.                            *)
(*                                                                         *)
(* Bytes and half-read frames are FrameReader's concern.                   *)
(***************************************************************************)
EXTENDS Integers, Sequences, SequencesExt, FiniteSetsExt

CONSTANTS
  ClientLimits,    \* what loginAsUser passes: channel_max, frame_max, heartbeat
  ServerLimits,    \* the limits brokers offer; 0 is no limit
  InitialFrameMax, \* INITIAL_FRAME_POOL_PAGE_SIZE
  MethodSize,      \* the size of a method frame of the handshake
  MayFail,         \* what may fail: subset of {"memory", "write"}
  MaxConnects,     \* bound: sockets the program opens
  MaxPushes,       \* bound: frames a broker pushes on a connection
  MaxCloses        \* bound: disconnects while the broker reads nothing

Limits == [channel_max : Nat, frame_max : Nat, heartbeat : Nat]

ASSUME SessionAssumption ==
  /\ ClientLimits \in Limits /\ ServerLimits \subseteq Limits
  /\ ClientLimits.frame_max # 0
  /\ InitialFrameMax \in Nat /\ MethodSize \in Nat
  /\ MayFail \subseteq {"memory", "write"}
  /\ MaxConnects \in Nat /\ MaxPushes \in Nat /\ MaxCloses \in Nat

Least(a, b) == IF a < b THEN a ELSE b
NoLimits == [channel_max |-> 0, frame_max |-> 0, heartbeat |-> 0]

(* A frame of the broker: its kind, the limits a tune carries, and the     *)
(* connection it was sent on (a ghost).                                    *)
BrokerKind == {"protocol", "start", "otherStart", "tune", "open_ok", "close_ok", "close", "pushed"}
BrokerFrame == [kind : BrokerKind, limits : Limits, on : Nat \ {0}]
NoFrame == [kind |-> "none", limits |-> NoLimits, on |-> 0]

(* A frame of the client, with its size; "cut" is one of which only a part *)
(* was written.                                                            *)
ClientFrame(kind, size, data) == [kind |-> kind, size |-> size, data |-> data]
Method(kind, data) == ClientFrame(kind, MethodSize, data)
Cut == ClientFrame("cut", 0, NoLimits)

VARIABLES
  at,          \* where the program is ("publishing", "astray": see Publish)
  limits,      \* channel_max, frame_max and heartbeat of the connection state
  freed,       \* the state was freed
  sockfd,      \* of the state; a descriptor is the number of its connection
  socketFD,    \* of the AMQPConnection; 0 if its last connect failed
  open,        \* the descriptors the program has open for the library
  taken,       \* closed ones whose number another part of the program got
  foreign,     \* history: the connections on whose behalf a descriptor of
               \* another part was written or closed
  connects,    \* how many sockets were opened
  buffer,      \* frames in sock_inbound_buffer
  queued,      \* frames set aside by a call
  unexpected,  \* history: the frame on which a login aborted
  kernel,      \* frames that reached the socket and are not received
  wire,        \* frames sent that the broker has not read
  line,        \* the current socket is "up" or "down"
  broker,      \* what the broker waits for
  offered,     \* the limits of its tune
  told,        \* the limits of the tune_ok it got
  pushes       \* how many frames it pushed

state == <<limits, freed, sockfd>>
held == <<socketFD, open, taken>>
descriptors == <<held, foreign>>
received == <<buffer, queued, unexpected>>
brokerVars == <<broker, offered, told, pushes>>
sessionVars == <<at, state, descriptors, connects, received, kernel, wire, line, brokerVars>>

SessionInit ==
  /\ at = "new"
  /\ limits = [NoLimits EXCEPT !.frame_max = InitialFrameMax]
  /\ freed = FALSE /\ sockfd = 0 /\ socketFD = 0
  /\ open = {} /\ taken = {} /\ foreign = {} /\ connects = 0
  /\ buffer = <<>> /\ queued = <<>>
  /\ unexpected = NoFrame
  /\ kernel = <<>> /\ wire = <<>> /\ line = "down"
  /\ broker = "gone" /\ offered = NoLimits /\ told = NoLimits /\ pushes = 0

-----------------------------------------------------------------------------
(* Sockets.                                                                *)

(* The program has no connection that works: it never had one, or the last *)
(* one failed or was disconnected.                                         *)
Unconnected == at \in {"new", "failed", "closed"}

(* Mutant: the state keeps the descriptor it has.                          *)
ConnectToHostKeeps ==
  /\ Unconnected /\ ~freed /\ connects < MaxConnects
  /\ connects' = connects + 1
  /\ sockfd' = IF sockfd = 0 THEN connects' ELSE sockfd
  /\ socketFD' = connects' /\ open' = open \union {connects'}
  /\ kernel' = <<>> /\ wire' = <<>> /\ line' = "up"
  /\ broker' = "header" /\ offered' = NoLimits /\ told' = NoLimits /\ pushes' = 0
  /\ at' = "connected"
  /\ UNCHANGED <<limits, freed, taken, foreign, received>>

(* amqp_set_sockfd changes the descriptor and nothing else.                *)
ConnectToHost ==
  /\ Unconnected /\ ~freed /\ connects < MaxConnects
  /\ connects' = connects + 1
  /\ sockfd' = connects' /\ socketFD' = connects' /\ open' = open \union {connects'}
  /\ kernel' = <<>> /\ wire' = <<>> /\ line' = "up"
  /\ broker' = "header" /\ offered' = NoLimits /\ told' = NoLimits /\ pushes' = 0
  /\ at' = "connected"
  /\ UNCHANGED <<limits, freed, taken, foreign, received>>

ConnectFails ==
  /\ Unconnected
  /\ socketFD' = 0
  /\ UNCHANGED <<at, state, open, taken, foreign, connects, received, kernel, wire, line, brokerVars>>

(* Another part of the program opens a file or a socket, and gets the      *)
(* lowest free number.                                                     *)
OtherOpens ==
  /\ \E d \in (1 .. connects) \ (open \union taken) : taken' = taken \union {d}
  /\ UNCHANGED <<at, state, socketFD, open, foreign, connects, received, kernel, wire, line, brokerVars>>

(* A method or header has to fit into outbound_buffer; a body is written   *)
(* from where it is.                                                       *)
Fits(f) == f.kind = "body" \/ f.size <= limits.frame_max

(* Nothing that follows a cut frame can be read.                           *)
Broken == wire # <<>> /\ Last(wire) = Cut

(* A write or a close on descriptor d, wherever its number went.           *)
Touches(d) == foreign' = IF d \in taken THEN foreign \union {connects} ELSE foreign

(* amqp_send_frame: what it returns, and what it writes.  A write that was *)
(* cut short is none that failed.                                          *)
Sends(f, ok) ==
  LET written == {f} \union (IF "write" \in MayFail THEN {Cut} ELSE {})
  IN /\ IF Fits(f) /\ sockfd \in open /\ line = "up"
        THEN ok /\ \E g \in written : wire' = IF Broken THEN wire ELSE Append(wire, g)
        ELSE /\ wire' = wire
             /\ ok => Fits(f) /\ (sockfd \in open \/ sockfd \in taken)
     /\ IF ok THEN Touches(sockfd) ELSE UNCHANGED foreign

(* amqp_simple_wait_frame: the queue comes first.                          *)
Readable == ToSet(queued \o buffer)
Reads(f) ==
  \/ queued # <<>> /\ f = Head(queued) /\ queued' = Tail(queued) /\ buffer' = buffer
  \/ queued = <<>> /\ buffer # <<>> /\ f = Head(buffer)
     /\ buffer' = Tail(buffer) /\ queued' = queued

(* recv takes what has arrived, or a part of it.                           *)
Waiting == at \in {"start", "tune", "opening", "closing", "dying"}
Recv ==
  /\ Waiting /\ buffer = <<>> /\ kernel # <<>>
  /\ at \in {"start", "tune"} => queued = <<>>
  /\ \E n \in 1 .. Len(kernel) :
       buffer' = SubSeq(kernel, 1, n) /\ kernel' = SubSeq(kernel, n + 1, Len(kernel))
  /\ UNCHANGED <<at, state, descriptors, connects, queued, unexpected, wire, line, brokerVars>>

-----------------------------------------------------------------------------
(* amqp_login.  What amqp_send_header returns is not looked at.            *)
SendHeader ==
  /\ at = "connected"
  /\ \E ok \in BOOLEAN : Sends(ClientFrame("header", 0, NoLimits), ok)
  /\ at' = "start"
  /\ UNCHANGED <<state, held, connects, received, kernel, line, brokerVars>>

(* amqp_release_buffers aborts the program if frames are queued.           *)
Released(next) == IF queued' = <<>> THEN next ELSE "aborted"

(* Mutant: the start frame stays where it was.                             *)
StartOkUnread ==
  /\ at = "start"
  /\ \E f \in Readable : f.kind = "start" /\ UNCHANGED <<buffer, queued>>
  /\ \E ok \in BOOLEAN :
       Sends(Method("start_ok", NoLimits), ok) /\ at' = IF ok THEN Released("tune") ELSE "failed"
  /\ UNCHANGED <<unexpected, state, held, connects, kernel, line, brokerVars>>

StartOk ==
  /\ at = "start"
  /\ \E f \in Readable :
       /\ Reads(f) /\ f.kind = "start"
       /\ \E ok \in BOOLEAN :
            /\ Sends(Method("start_ok", NoLimits), ok)
            /\ at' = IF ok THEN Released("tune") ELSE "failed"
  /\ UNCHANGED <<unexpected, state, held, connects, kernel, line, brokerVars>>

(* Another protocol version, or no memory for the response.                *)
StartRefused ==
  /\ at = "start"
  /\ \E f \in Readable :
       /\ Reads(f)
       /\ f.kind = "otherStart" \/ (f.kind = "start" /\ "memory" \in MayFail)
  /\ at' = "failed"
  /\ UNCHANGED <<unexpected, state, descriptors, connects, kernel, wire, line, brokerVars>>

(* amqp_simple_wait_method aborts the program on any other frame.          *)
Expected == IF at = "start" THEN {"start", "otherStart"} ELSE {"tune"}
WaitMethodAborts ==
  /\ at \in {"start", "tune"}
  /\ \E f \in Readable : Reads(f) /\ f.kind \notin Expected /\ unexpected' = f
  /\ at' = "aborted"
  /\ UNCHANGED <<state, descriptors, connects, kernel, wire, line, brokerVars>>

(* It waits without a timer; only the end of the connection ends the wait. *)
WaitMethodFails ==
  /\ at \in {"start", "tune"}
  /\ queued = <<>> /\ buffer = <<>> /\ kernel = <<>> /\ line = "down"
  /\ at' = "failed"
  /\ UNCHANGED <<state, descriptors, connects, received, kernel, wire, line, brokerVars>>

(* The smaller of the two limits, where the server's 0 is none.            *)
Negotiated(client, server) == IF server # 0 /\ server < client THEN server ELSE client

(* The tune arrives, and amqp_tune_connection resizes outbound_buffer.     *)
Tune ==
  /\ at = "tune"
  /\ \E f \in Readable :
       /\ Reads(f) /\ f.kind = "tune"
       /\ limits' = [x \in DOMAIN limits |-> Negotiated(ClientLimits[x], f.limits[x])]
  /\ at' = "tuned"
  /\ UNCHANGED <<unexpected, freed, sockfd, descriptors, connects, kernel, wire, line, brokerVars>>

(* realloc fails: amqp_tune_connection destroys the connection, which      *)
(* closes the socket, and the AMQPConnection keeps pointing to it.         *)
TuneNoMemory ==
  /\ at = "tune" /\ "memory" \in MayFail
  /\ \E f \in Readable :
       /\ Reads(f) /\ f.kind = "tune"
       /\ limits' = [x \in DOMAIN limits |-> Negotiated(ClientLimits[x], f.limits[x])]
  /\ freed' = TRUE /\ open' = open \ {sockfd} /\ line' = "down"
  /\ at' = "failed"
  /\ UNCHANGED <<unexpected, sockfd, socketFD, taken, foreign, connects, kernel, wire, brokerVars>>

(* Mutant: the tune_ok repeats what the client asked for.                  *)
SendTuneOkUntuned ==
  /\ at = "tuned"
  /\ \E ok \in BOOLEAN :
       /\ Sends(Method("tune_ok", ClientLimits), ok)
       /\ at' = IF ok THEN IF queued = <<>> THEN "open" ELSE "aborted" ELSE "failed"
  /\ UNCHANGED <<state, held, connects, received, kernel, line, brokerVars>>

SendTuneOk ==
  /\ at = "tuned"
  /\ \E ok \in BOOLEAN :
       /\ Sends(Method("tune_ok", limits), ok)
       /\ at' = IF ok THEN IF queued = <<>> THEN "open" ELSE "aborted" ELSE "failed"
  /\ UNCHANGED <<state, held, connects, received, kernel, line, brokerVars>>

-----------------------------------------------------------------------------
(* Calls on channel 0 (amqp_simple_rpc, in detail in ConnectionRpc):       *)
(* connection.open of the login, connection.close of disconnectError.      *)

SendOpen ==
  /\ at = "open"
  /\ \E ok \in BOOLEAN :
       /\ Sends(Method("open", NoLimits), ok)
       /\ at' = IF ok THEN "opening" ELSE "failed"
  /\ UNCHANGED <<state, held, connects, received, kernel, line, brokerVars>>

InCall == at \in {"opening", "closing", "dying"}
Reply == IF at = "opening" THEN "open_ok" ELSE "close_ok"

(* An error of disconnectError in dealloc leaves the state behind.         *)
CallFails == at' = IF at = "dying" THEN "leaked" ELSE "failed"

(* The frames amqp_simple_rpc takes come from the buffer, never from the   *)
(* queue.                                                                  *)
CallTakes(f) ==
  /\ InCall /\ buffer # <<>> /\ f = Head(buffer)
  /\ buffer' = Tail(buffer)

CallRefused ==
  /\ \E f \in ToSet(buffer) : CallTakes(f) /\ f.kind = "close"
  /\ CallFails
  /\ UNCHANGED <<unexpected, state, descriptors, connects, queued, kernel, wire, line, brokerVars>>

CallSetsAside ==
  /\ \E f \in ToSet(buffer) :
       CallTakes(f) /\ f.kind \notin {"close", Reply} /\ queued' = Append(queued, f)
  /\ UNCHANGED <<unexpected, at, state, descriptors, connects, kernel, wire, line, brokerVars>>

CallNoMemory ==
  /\ "memory" \in MayFail
  /\ \E f \in ToSet(buffer) : CallTakes(f) /\ f.kind \notin {"close", Reply}
  /\ CallFails
  /\ UNCHANGED <<unexpected, state, descriptors, connects, queued, kernel, wire, line, brokerVars>>

(* The connection is lost, or the timer goes off, which does not run while *)
(* a frame is queued.                                                      *)
CallGetsNothing ==
  /\ InCall /\ buffer = <<>> /\ kernel = <<>>
  /\ line = "down" \/ queued = <<>>
  /\ CallFails
  /\ UNCHANGED <<state, descriptors, connects, received, kernel, wire, line, brokerVars>>

LoginDone ==
  /\ at = "opening"
  /\ \E f \in ToSet(buffer) : CallTakes(f) /\ f.kind = "open_ok"
  /\ at' = "ready"
  /\ UNCHANGED <<unexpected, state, descriptors, connects, queued, kernel, wire, line, brokerVars>>

(* close.                                                                  *)
Closes(d) ==
  /\ open' = open \ {d}
  /\ Touches(d)
  /\ line' = IF d = sockfd THEN "down" ELSE line
  /\ kernel' = IF d = sockfd THEN <<>> ELSE kernel

(* connection.close goes out, from disconnectError or from dealloc, which  *)
(* do not ask whether there is a connection.                               *)
SendClose(next) ==
  /\ ~freed
  /\ \E ok \in BOOLEAN :
       /\ Sends(Method("close", NoLimits), ok)
       /\ IF ok THEN at' = next
          ELSE at' = IF next = "dying" THEN "leaked" ELSE "failed"
  /\ UNCHANGED <<state, held, connects, received, kernel, line, brokerVars>>

Idle == at \in {"new", "connected", "ready", "failed", "closed"}
Unread(kind) == Cardinality({i \in DOMAIN wire : wire[i].kind = kind})
Disconnect == Idle /\ Unread("close") < MaxCloses /\ SendClose("closing")
Dealloc == Idle /\ SendClose("dying")

(* close(socketFD) of disconnectError.                                     *)
DisconnectDone ==
  /\ at \in {"closing", "dying"}
  /\ \E f \in ToSet(buffer) : CallTakes(f) /\ f.kind = "close_ok"
  /\ Closes(socketFD)
  /\ at' = IF at = "dying" THEN "destroying" ELSE "closed"
  /\ UNCHANGED <<unexpected, state, socketFD, taken, connects, queued, wire, brokerVars>>

(* amqp_destroy_connection frees the state and closes its descriptor.      *)
Destroy ==
  /\ at = "destroying"
  /\ Closes(sockfd)
  /\ freed' = TRUE
  /\ at' = "gone"
  /\ UNCHANGED <<limits, sockfd, socketFD, taken, connects, received, wire, brokerVars>>

(* Whatever the program does next with a freed state is undefined.         *)
UseAfterFree ==
  /\ freed /\ Idle
  /\ at' = "undefined"
  /\ UNCHANGED <<state, descriptors, connects, received, kernel, wire, line, brokerVars>>

-----------------------------------------------------------------------------
(* The broker (external).  It answers what it waits for; it may refuse at  *)
(* any time with a connection.close, whose close_ok never comes.           *)
ToClient(kind, l) ==
  kernel' = Append(kernel, [kind |-> kind, limits |-> l, on |-> connects])

BrokerReads(kind, next) ==
  /\ line = "up" /\ wire # <<>> /\ Head(wire).kind = kind
  /\ wire' = Tail(wire)
  /\ broker' = next
  /\ UNCHANGED <<at, state, descriptors, connects, received, line, pushes>>

BrokerStarts ==
  /\ broker = "header" /\ BrokerReads("header", "start_ok")
  /\ ToClient("start", NoLimits) \/ ToClient("otherStart", NoLimits)
  /\ UNCHANGED <<offered, told>>

(* It does not speak the client's version: it answers with a protocol      *)
(* header of its own, and hangs up.                                        *)
BrokerRefusesVersion ==
  /\ broker = "header" /\ BrokerReads("header", "closed")
  /\ ToClient("protocol", NoLimits)
  /\ UNCHANGED <<offered, told>>

BrokerTunes ==
  /\ broker = "start_ok" /\ BrokerReads("start_ok", "tune_ok")
  /\ offered' \in ServerLimits
  /\ ToClient("tune", offered')
  /\ UNCHANGED told

BrokerIsTuned ==
  /\ broker = "tune_ok"
  /\ BrokerReads("tune_ok", "open")
  /\ told' = Head(wire).data
  /\ UNCHANGED <<kernel, offered>>

BrokerOpens ==
  /\ broker = "open" /\ BrokerReads("open", "opened")
  /\ ToClient("open_ok", NoLimits)
  /\ UNCHANGED <<offered, told>>

BrokerIsClosed ==
  /\ broker \notin {"header", "closed"} /\ BrokerReads("close", "closed")
  /\ ToClient("close_ok", NoLimits)
  /\ UNCHANGED <<offered, told>>

BrokerIgnores ==
  /\ broker = "closed"
  /\ \E f \in ToSet(wire) : f.kind # "cut" /\ BrokerReads(f.kind, "closed")
  /\ UNCHANGED <<kernel, offered, told>>

BrokerRefuses ==
  /\ line = "up" /\ broker \notin {"header", "closed"}
  /\ broker' = "closed"
  /\ ToClient("close", NoLimits)
  /\ UNCHANGED <<at, state, descriptors, connects, received, wire, line, offered, told, pushes>>

(* Deliveries, once the connection is open; heartbeats from the tune on.   *)
BrokerPushes ==
  /\ line = "up" /\ broker \in {"tune_ok", "open", "opened"} /\ pushes < MaxPushes
  /\ pushes' = pushes + 1
  /\ ToClient("pushed", NoLimits)
  /\ UNCHANGED <<at, state, descriptors, connects, received, wire, line, broker, offered, told>>

(* The line fails, or the broker hangs up: on a client that does not keep  *)
(* to the protocol, for one.  What arrived before can still be read.       *)
LineFails ==
  /\ line = "up"
  /\ line' = "down" /\ wire' = <<>>
  /\ UNCHANGED <<at, state, descriptors, connects, received, kernel, brokerVars>>

-----------------------------------------------------------------------------
Login ==
  \/ SendHeader \/ StartOk \/ StartRefused \/ WaitMethodAborts \/ WaitMethodFails
  \/ Tune \/ TuneNoMemory \/ SendTuneOk \/ SendOpen \/ LoginDone

Call == CallRefused \/ CallSetsAside \/ CallNoMemory \/ CallGetsNothing

Ends == Disconnect \/ Dealloc \/ DisconnectDone \/ Destroy \/ UseAfterFree

Broker ==
  \/ BrokerStarts \/ BrokerRefusesVersion \/ BrokerTunes \/ BrokerIsTuned \/ BrokerOpens
  \/ BrokerIsClosed \/ BrokerIgnores \/ BrokerRefuses \/ BrokerPushes

(* Once the program is through with the object, or is aborted, nothing     *)
(* follows that the model is about.                                        *)
Over == at \in {"aborted", "gone", "leaked", "undefined"}

SessionNext ==
  /\ ~Over
  /\ \/ ConnectToHost \/ ConnectFails \/ OtherOpens \/ Recv
     \/ Login \/ Call \/ Ends \/ Broker \/ LineFails

SessionSpec == SessionInit /\ [][SessionNext]_sessionVars

-----------------------------------------------------------------------------
Phase == {"new", "connected", "start", "tune", "tuned", "open", "opening", "ready",
          "publishing", "astray", "failed", "aborted", "closing", "closed", "dying", "destroying", "gone",
          "leaked", "undefined"}

SessionTypeOK ==
  /\ at \in Phase
  /\ limits \in Limits /\ offered \in Limits /\ told \in Limits
  /\ freed \in BOOLEAN
  /\ connects \in 0 .. MaxConnects
  /\ sockfd \in 0 .. connects /\ socketFD \in {0, sockfd}
  /\ open \subseteq 1 .. connects /\ taken \subseteq (1 .. connects) \ open
  /\ foreign \subseteq 1 .. connects
  /\ buffer \in Seq(BrokerFrame) /\ queued \in Seq(BrokerFrame) /\ unexpected \in BrokerFrame \union {NoFrame}
  /\ kernel \in Seq(BrokerFrame)
  /\ line \in {"up", "down"}
  /\ broker \in {"gone", "header", "start_ok", "tune_ok", "open", "opened", "closed"}
  /\ pushes \in 0 .. MaxPushes

(* The smaller of two limits, of which 0 is none.                          *)
SmallerLimit(a, b) == IF a = 0 THEN b ELSE IF b = 0 THEN a ELSE Least(a, b)

(* A login that succeeds leaves both sides of this connection with the     *)
(* same limits, for each the smaller of what loginAsUser passes and what   *)
(* this broker offers, where the server's 0 is none and the client's 0     *)
(* stays 0 whatever is offered (amqp_socket.c:421, :429); and the broker   *)
(* past connection.open: also when an earlier connection of the object     *)
(* failed midway.                                                          *)
LoginAgrees ==
  at = "ready" =>
    /\ told = limits
    /\ \A x \in DOMAIN limits :
         limits[x] = IF ClientLimits[x] = 0 THEN 0 ELSE SmallerLimit(ClientLimits[x], offered[x])
    /\ broker \in {"opened", "closed"}

(* The program is aborted in a login only if the broker sent a protocol    *)
(* header or a connection.close instead of the method the login waits for, *)
(* or if a frame of an earlier connection was left in the buffer or the    *)
(* queue.                                                                  *)
AbortsForCause ==
  at = "aborted" =>
    /\ unexpected # NoFrame
    /\ unexpected.kind \in {"protocol", "close"} \/ unexpected.on # connects

(* The object writes to or closes a descriptor of another part of the      *)
(* program only on behalf of a connection that it closed itself before: in *)
(* a second disconnectError, a publish after one, or its release, and      *)
(* never on behalf of a connection that is open, whatever happened to the  *)
(* ones before it.                                                         *)
ForeignOnlyOnceClosed == foreign \intersect open = {}
=============================================================================
