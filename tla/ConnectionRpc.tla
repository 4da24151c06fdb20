---------------------------- MODULE ConnectionRpc ----------------------------
(***************************************************************************)
(* How one client thread shares one AMQP connection between synchronous    *)
(* calls and waits for pushed frames: wait_frame_inner,                    *)
(* amqp_simple_wait_frame and amqp_simple_rpc of amqp_socket.c, against a  *)
(* broker that answers late, pushes deliveries, closes channels and        *)
(* connections, sends bytes nobody can decode, and goes away.              *)
(*                                                                         *)
(* A frame is a serial number, a channel, a kind and the request it        *)
(* answers (a ghost: AMQP 0-8 replies carry no request number).  Bytes are *)
(* FrameReader's concern: here inbound is the sequence of whole frames the *)
(* socket and the inbound buffer hold.                                     *)
(***************************************************************************)
EXTENDS Integers, Sequences, SequencesExt

CONSTANTS
  Channel,            \* the numbers of the channels the program opens, not 0
  Rpc,                \* the calls made on a channel (channel.open, queue.declare...)
  ConnectionCall,     \* the calls made on channel 0 (connection.open, connection.close)
  Replies,            \* Replies[op]: the reply kinds call op expects
  AllocMayFail,       \* whether amqp_pool_alloc may return NULL
  ReuseAfterFailure,  \* whether a channel is used again after a call on it failed
  MaxFrames,          \* bound: frames the broker sends
  MaxCalls            \* bound: RPCs the client makes

Op == Rpc \union ConnectionCall
ReplyKind == UNION {Replies[op] : op \in Op}

(* The kinds amqp_simple_rpc takes besides the expected replies.           *)
CloseKind == {"channel.close", "connection.close"}

(* Kinds no call waits for: a delivery's method, the header and body       *)
(* frames that follow it (not method frames), and heartbeats.              *)
PushedKind == {"basic.deliver", "content", "heartbeat"}

ASSUME RpcAssumption ==
  /\ 0 \notin Channel
  /\ Rpc \intersect ConnectionCall = {}
  /\ DOMAIN Replies = Op
  /\ ReplyKind \intersect (CloseKind \union PushedKind) = {}
  /\ AllocMayFail \in BOOLEAN
  /\ ReuseAfterFailure \in BOOLEAN
  /\ MaxFrames \in Nat
  /\ MaxCalls \in Nat

Kind == ReplyKind \union CloseKind \union PushedKind
Request == [n : Nat \ {0}, op : Op, ch : Channel \union {0}]
NoRequest == [n |-> 0, op |-> "none", ch |-> 0]
Frame == [n : Nat \ {0}, ch : Channel \union {0}, kind : Kind,
          for : Request \union {NoRequest}]

(* reply_type and reply of an amqp_rpc_reply_t, with the request it was    *)
(* returned for.                                                           *)
ReplyType == {"NORMAL", "SERVER_EXCEPTION", "LIBRARY_EXCEPTION"}
NoResult == [type |-> "NONE", req |-> NoRequest, for |-> NoRequest]

VARIABLES
  inbound,     \* frames that reached the socket and are not decoded yet
  line,        \* what follows them: "up" (nothing yet), "garbled" or "closed"
  queued,      \* first_queued_frame ... last_queued_frame
  pc,          \* where the thread is: "idle", "rpc" or "wait"
  timed,       \* in "wait": whether timeOut > 0
  req,         \* in "rpc": the request that was sent
  result,      \* what the last amqp_simple_rpc returned
  calls,       \* how many requests were made
  unanswered,  \* history: requests whose call returned without their own answer
  sent, handed, taken, dropped,  \* history: see FrameMailbox
  pending,     \* requests the broker has received and not answered
  closed,      \* channels the broker closed; it ignores what comes on them
  midContent   \* channels with a delivery whose content is not sent yet

client == <<pc, timed, req, result, calls, unanswered>>
broker == <<sent, pending, closed, midContent>>
vars == <<inbound, line, queued, client, handed, taken, dropped, broker>>

Init ==
  /\ inbound = <<>> /\ line = "up" /\ queued = <<>>
  /\ pc = "idle" /\ timed = FALSE
  /\ req = NoRequest /\ result = NoResult
  /\ calls = 0 /\ unanswered = {}
  /\ sent = 0 /\ handed = <<>> /\ taken = {} /\ dropped = {}
  /\ pending = {} /\ closed = {} /\ midContent = {}

-----------------------------------------------------------------------------
(* amqp_simple_rpc.                                                        *)

(* The channels a call is made on.                                         *)
ChannelsOf(op) == IF op \in ConnectionCall THEN {0} ELSE Channel

(* Mutants: the channel test forgotten, and replies on channel 0           *)
(* forgotten.                                                              *)
AffectsOnAnyChannel(f, r) ==
  f.kind \in Replies[r.op] \union CloseKind
AffectsNotOnZero(f, r) ==
  \/ f.ch = r.ch /\ f.ch # 0 /\ f.kind \in Replies[r.op] \union {"channel.close"}
  \/ f.ch = 0 /\ f.kind = "connection.close"

(* The frames that "directly affect us here".                              *)
Affects(f, r) ==
  \/ f.ch = r.ch /\ f.kind \in Replies[r.op] \union {"channel.close"}
  \/ f.ch = 0 /\ f.kind = "connection.close"

Ignored(r) == r.ch \in closed \/ 0 \in closed

(* The request goes out; the broker gets it unless it is gone.             *)
StartRpc(op, ch) ==
  LET r == [n |-> calls + 1, op |-> op, ch |-> ch]
  IN /\ pc = "idle" /\ calls < MaxCalls
     /\ ReuseAfterFailure \/ \A u \in unanswered : u.ch # ch
     /\ pc' = "rpc" /\ req' = r /\ calls' = r.n
     /\ pending' = IF line = "up" /\ ~Ignored(r) THEN pending \union {r} ELSE pending
     /\ UNCHANGED <<inbound, line, queued, timed, result, unanswered,
                    handed, taken, dropped, sent, closed, midContent>>

(* amqp_send_method fails: the broker never sees the request.              *)
RpcSendFails(op, ch) ==
  LET r == [n |-> calls + 1, op |-> op, ch |-> ch]
  IN /\ pc = "idle" /\ calls < MaxCalls
     /\ ReuseAfterFailure \/ \A u \in unanswered : u.ch # ch
     /\ calls' = r.n
     /\ result' = [type |-> "LIBRARY_EXCEPTION", req |-> r, for |-> NoRequest]
     /\ unanswered' = unanswered \union {r}
     /\ UNCHANGED <<inbound, line, queued, pc, timed, req,
                    handed, taken, dropped, broker>>

(* Mutant: the request outlives its call.                                  *)
RpcReturnsKeepingRequest(type, for) ==
  /\ pc' = "idle" /\ req' = req
  /\ result' = [type |-> type, req |-> req, for |-> for]
  /\ unanswered' = IF for = req THEN unanswered ELSE unanswered \union {req}
  /\ UNCHANGED <<line, timed, calls, handed, broker>>

(* The call returns; it is a failed one unless the frame was its answer.   *)
RpcReturns(type, for) ==
  /\ pc' = "idle"
  /\ req' = NoRequest
  /\ result' = [type |-> type, req |-> req, for |-> for]
  /\ unanswered' = IF for = req THEN unanswered ELSE unanswered \union {req}
  /\ UNCHANGED <<line, timed, calls, handed, broker>>

RpcTakesFrame ==
  /\ pc = "rpc" /\ inbound # <<>>
  /\ LET f == Head(inbound)
     IN /\ Affects(f, req)
        /\ RpcReturns(IF f.kind \in Replies[req.op] THEN "NORMAL"
                      ELSE "SERVER_EXCEPTION", f.for)
        /\ taken' = taken \union {f.n}
  /\ inbound' = Tail(inbound)
  /\ UNCHANGED <<queued, dropped>>

(* Mutant: the frame goes to the front of the queue.                       *)
RpcSetsAsideInFront ==
  /\ pc = "rpc" /\ inbound # <<>>
  /\ ~Affects(Head(inbound), req)
  /\ queued' = <<Head(inbound)>> \o queued
  /\ inbound' = Tail(inbound)
  /\ UNCHANGED <<line, client, handed, taken, dropped, broker>>

(* Any other frame is copied to the end of the queue, and the call waits   *)
(* on.                                                                     *)
RpcSetsAside ==
  /\ pc = "rpc" /\ inbound # <<>>
  /\ ~Affects(Head(inbound), req)
  /\ queued' = Append(queued, Head(inbound))
  /\ inbound' = Tail(inbound)
  /\ UNCHANGED <<line, client, handed, taken, dropped, broker>>

(* ... unless there is no memory for the copy: the frame is gone.          *)
RpcNoMemory ==
  /\ AllocMayFail
  /\ pc = "rpc" /\ inbound # <<>>
  /\ ~Affects(Head(inbound), req)
  /\ RpcReturns("LIBRARY_EXCEPTION", NoRequest)
  /\ dropped' = dropped \union {Head(inbound).n}
  /\ inbound' = Tail(inbound)
  /\ UNCHANGED <<queued, taken>>

(* Mutant: the timer condition inverted.                                   *)
TimerRunsInverted == queued # <<>>

(* select runs only while no frame is queued.                              *)
TimerRuns == queued = <<>>

RpcTimeout ==
  /\ pc = "rpc" /\ inbound = <<>> /\ line = "up" /\ TimerRuns
  /\ RpcReturns("LIBRARY_EXCEPTION", NoRequest)
  /\ UNCHANGED <<inbound, queued, taken, dropped>>

(* recv returned 0 or less, or amqp_handle_input rejected the bytes, which *)
(* stay where they are, or it had no memory for a frame buffer.            *)
ReadFails ==
  \/ inbound = <<>> /\ line # "up"
  \/ inbound # <<>> /\ AllocMayFail

RpcReadFails ==
  /\ pc = "rpc" /\ ReadFails
  /\ RpcReturns("LIBRARY_EXCEPTION", NoRequest)
  /\ UNCHANGED <<inbound, queued, taken, dropped>>

-----------------------------------------------------------------------------
(* amqp_simple_wait_frame.                                                 *)

WaitFromQueue ==
  /\ pc = "idle" /\ queued # <<>>
  /\ handed' = Append(handed, Head(queued).n)
  /\ queued' = Tail(queued)
  /\ UNCHANGED <<inbound, line, client, taken, dropped, broker>>

StartWait(withTimer) ==
  /\ pc = "idle" /\ queued = <<>>
  /\ pc' = "wait" /\ timed' = withTimer
  /\ UNCHANGED <<inbound, line, queued, req, result, calls, unanswered,
                 handed, taken, dropped, broker>>

WaitReturns ==
  /\ pc' = "idle" /\ timed' = FALSE
  /\ UNCHANGED <<line, queued, req, result, calls, unanswered,
                 taken, dropped, broker>>

WaitFromSocket ==
  /\ pc = "wait" /\ inbound # <<>>
  /\ handed' = Append(handed, Head(inbound).n)
  /\ inbound' = Tail(inbound)
  /\ WaitReturns

WaitTimeout ==
  /\ pc = "wait" /\ timed /\ inbound = <<>> /\ line = "up" /\ TimerRuns
  /\ WaitReturns
  /\ UNCHANGED <<inbound, handed>>

WaitReadFails ==
  /\ pc = "wait" /\ ReadFails
  /\ WaitReturns
  /\ UNCHANGED <<inbound, handed>>

-----------------------------------------------------------------------------
(* The broker and the network (external).                                  *)

BrokerSends(kind, ch, for) ==
  /\ line = "up" /\ 0 \notin closed /\ sent < MaxFrames
  /\ sent' = sent + 1
  /\ inbound' = Append(inbound, [n |-> sent + 1, ch |-> ch, kind |-> kind, for |-> for])
  /\ UNCHANGED <<line, queued, client, handed, taken, dropped>>

(* Requests of one channel are answered in the order they came.            *)
BrokerAnswers(r) ==
  /\ \A p \in pending : p.ch = r.ch => r.n <= p.n
  /\ r.ch \notin midContent
  /\ \E kind \in Replies[r.op] : BrokerSends(kind, r.ch, r)
  /\ pending' = pending \ {r}
  /\ UNCHANGED <<closed, midContent>>

(* A delivery is a method frame and then its content.                      *)
BrokerDelivers(ch) ==
  /\ ch \notin closed \union midContent
  /\ BrokerSends("basic.deliver", ch, NoRequest)
  /\ midContent' = midContent \union {ch}
  /\ UNCHANGED <<pending, closed>>

BrokerSendsContent(ch) ==
  /\ BrokerSends("content", ch, NoRequest)
  /\ midContent' = midContent \ {ch}
  /\ UNCHANGED <<pending, closed>>

BrokerHeartbeat ==
  /\ BrokerSends("heartbeat", 0, NoRequest)
  /\ UNCHANGED <<pending, closed, midContent>>

BrokerClosesChannel(ch) ==
  /\ ch \notin closed
  /\ BrokerSends("channel.close", ch, NoRequest)
  /\ closed' = closed \union {ch}
  /\ pending' = {p \in pending : p.ch # ch}
  /\ midContent' = midContent \ {ch}

BrokerClosesConnection ==
  /\ BrokerSends("connection.close", 0, NoRequest)
  /\ closed' = closed \union {0}
  /\ pending' = {}
  /\ midContent' = {}

(* The stream behind the frames in inbound ends, or turns to garbage.      *)
LineFails(how) ==
  /\ line = "up"
  /\ line' = how
  /\ pending' = {}
  /\ UNCHANGED <<inbound, queued, client, handed, taken, dropped,
                 sent, closed, midContent>>

-----------------------------------------------------------------------------
ClientCalls ==
  \/ \E op \in Op : \E ch \in ChannelsOf(op) : StartRpc(op, ch) \/ RpcSendFails(op, ch)
  \/ \E withTimer \in BOOLEAN : StartWait(withTimer)
  \/ WaitFromQueue

ClientRuns ==
  \/ RpcTakesFrame \/ RpcSetsAside \/ RpcNoMemory \/ RpcTimeout \/ RpcReadFails
  \/ WaitFromSocket \/ WaitTimeout \/ WaitReadFails

Broker ==
  \/ \E r \in pending : BrokerAnswers(r)
  \/ \E ch \in Channel : BrokerDelivers(ch) \/ BrokerClosesChannel(ch)
  \/ \E ch \in midContent : BrokerSendsContent(ch)
  \/ BrokerHeartbeat
  \/ BrokerClosesConnection
  \/ \E how \in {"garbled", "closed"} : LineFails(how)

Next == ClientCalls \/ ClientRuns \/ Broker

Spec == Init /\ [][Next]_vars

(* A thread inside a call keeps running, and select's timer goes off; the  *)
(* broker owes nothing.                                                    *)
FairSpec == Spec /\ WF_vars(ClientRuns)

-----------------------------------------------------------------------------
TypeOK ==
  /\ inbound \in Seq(Frame) /\ queued \in Seq(Frame)
  /\ line \in {"up", "garbled", "closed"}
  /\ pc \in {"idle", "rpc", "wait"} /\ timed \in BOOLEAN
  /\ req \in IF pc = "rpc" THEN Request ELSE {NoRequest}
  /\ result \in [type : ReplyType, req : Request, for : Request \union {NoRequest}]
                \union {NoResult}
  /\ calls \in Nat /\ sent \in Nat
  /\ unanswered \subseteq Request /\ pending \subseteq Request
  /\ handed \in Seq(Nat) /\ taken \subseteq Nat /\ dropped \subseteq Nat
  /\ closed \subseteq Channel \union {0} /\ midContent \subseteq Channel

(* The socket, the buffer and the queue together are one mailbox: frames   *)
(* are neither lost, duplicated nor reordered by the RPCs that read past   *)
(* them.                                                                   *)
Serials(frames) == [i \in DOMAIN frames |-> frames[i].n]
Mailbox == INSTANCE FrameMailbox WITH
             box <- Serials(queued \o inbound), MayDrop <- AllocMayFail
MailboxSpec == Mailbox!Spec

(* A reply that is not the answer to the request it is returned for is the *)
(* late answer to an earlier request on the same channel whose call gave   *)
(* up, and whose reply kinds overlap: nothing else is mistaken for a reply *)
(* by amqp_simple_rpc's matching of channel and method id.                 *)
StaleReplyWasAbandoned ==
  result.type = "NORMAL" /\ result.for # result.req =>
    /\ result.for \in unanswered
    /\ result.for.n < result.req.n
    /\ result.for.ch = result.req.ch
    /\ Replies[result.for.op] \intersect Replies[result.req.op] # {}

(* With a program that leaves a channel alone once a call on it failed, a  *)
(* call that reports success got the answer to its own request.            *)
ReplyIsOurs ==
  ~ReuseAfterFailure /\ result.type = "NORMAL" => result.for = result.req

(* An answer is never put aside by the call it answers, so that it always  *)
(* waits where that call will still look.                                  *)
AnswerNotSetAside ==
  pc = "rpc" => \A i \in DOMAIN queued : queued[i].for # req

(* An RPC comes back, or has put frames aside: the "Timer for C Library"   *)
(* (amqp_socket.c:305) covers every wait but those.                        *)
RpcReturnsOrQueued == (pc = "rpc") ~> (pc = "idle" \/ queued # <<>>)

(* Once its answer is on the socket, an RPC returns, timer or not.         *)
AnswerReachesCaller ==
  (pc = "rpc" /\ \E i \in DOMAIN inbound : inbound[i].for = req) ~> (pc = "idle")
=============================================================================
