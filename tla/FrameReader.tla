----------------------------- MODULE FrameReader -----------------------------
(***************************************************************************)
(* How bytes become frames: amqp_handle_input of amqp_connection.c, called *)
(* by the loop of wait_frame_inner (amqp_socket.c) on whatever recv put in *)
(* the socket buffer, and the frame buffers that amqp_maybe_release_buffers*)
(* recycles.  TCP may cut the stream anywhere, so that a frame, or a       *)
(* frame's header, can come in several pieces or share one with others.    *)
(*                                                                         *)
(* A byte is the pair <<n, i>>: byte i of the n-th frame the broker sent.  *)
(***************************************************************************)
EXTENDS Integers, Sequences, FiniteSets

CONSTANTS
  HEADER_SIZE,   \* 7 in the code: type, channel, payload size
  FOOTER_SIZE,   \* 1 in the code: the frame end marker
  FrameMax,      \* frame_max: the size of every frame buffer
  SizeModulus,   \* 2^32 in the code: the size field and the sum made of it
  SockBuffer,    \* INITIAL_INBOUND_SOCK_BUFFER_SIZE: the most recv returns
  PayloadSize,   \* the payload sizes of the frames the broker sends
  AllocMayFail,  \* whether amqp_pool_alloc may return NULL
  MaxFrames      \* bound: frames the broker sends

ASSUME ReaderAssumption ==
  /\ HEADER_SIZE \in Nat \ {0} /\ FOOTER_SIZE = 1
  /\ FrameMax \in Nat /\ FrameMax > HEADER_SIZE
  /\ SizeModulus \in Nat /\ SizeModulus > FrameMax
  /\ SockBuffer \in Nat \ {0}
  /\ PayloadSize \subseteq 0 .. SizeModulus - 1
  /\ AllocMayFail \in BOOLEAN
  /\ MaxFrames \in Nat

(* "method" stands for the frames whose payload is decoded into the        *)
(* decoding pool (METHOD, HEADER), "body" for those that are not (BODY,    *)
(* HEARTBEAT), "unknown" for the frame types that are ignored.  A frame is *)
(* good if its end marker is there and its payload can be decoded; a       *)
(* protocol header, if its fourth octet is the 'P' of "AMQP".              *)
FrameKind == {"method", "body", "unknown"}

(* The octets the broker sends of a frame.                                 *)
FrameLen(f) ==
  IF f.kind = "protocol" THEN HEADER_SIZE + 1
  ELSE HEADER_SIZE + f.size + FOOTER_SIZE

(* The target_size made of its header: the sum is one of uint32_t.         *)
TargetSize(f) == FrameLen(f) % SizeModulus
Wraps(f) == FrameLen(f) >= SizeModulus

(* Where the sum wraps to HEADER_SIZE, the octet taken for the end marker  *)
(* is the last one of the size, 255: never a good frame.                   *)
Frame ==
  {f \in [kind : FrameKind, size : PayloadSize, good : BOOLEAN] : f.good => ~Wraps(f)}
    \union [kind : {"protocol"}, size : {0}, good : BOOLEAN]

BytesOf(n, f) == [i \in 1 .. FrameLen(f) |-> <<n, i>>]

VARIABLES
  wire,       \* the frames the broker sent
  inflight,   \* the bytes of them that recv has not returned yet
  unread,     \* sock_inbound_buffer from sock_inbound_offset to the limit
  reader,     \* state, inbound_buffer up to inbound_offset, target_size
              \* and the frame pool page the buffer lies in
  next_page,  \* frame_pool.next_page: a frame buffer takes a page
  queued,     \* the frames put in the queue: serial and page
  decoded,    \* history: the serials of the frames returned, in order
  result,     \* what the last amqp_handle_input call did, and its return value
  rejected,   \* history: a call failed on the bytes themselves
  starved     \* history: a decoder ran out of memory

socket == <<wire, inflight>>
vars == <<socket, unread, reader, next_page, queued, decoded, result, rejected, starved>>

(* return_to_idle.                                                         *)
Idle == [state |-> "IDLE", inbound |-> <<>>, target |-> HEADER_SIZE, page |-> -1]

Init ==
  /\ wire = <<>> /\ inflight = <<>> /\ unread = <<>>
  /\ reader = Idle /\ next_page = 0 /\ queued = <<>>
  /\ decoded = <<>> /\ result = [what |-> "none", used |-> 0]
  /\ rejected = FALSE /\ starved = FALSE

-----------------------------------------------------------------------------
(* One pass of amqp_handle_input copies what is missing of the target.  A  *)
(* target that is behind already makes the difference negative, which the  *)
(* comparison with the unsigned length takes for a huge one.               *)
Missing(r, data) ==
  IF r.target < Len(r.inbound) \/ Len(data) < r.target - Len(r.inbound) THEN Len(data)
  ELSE r.target - Len(r.inbound)

Filled(r, data) ==
  [r EXCEPT !.inbound = @ \o SubSeq(data, 1, Missing(r, data))]

(* Mutant: one byte too many is passed over.                               *)
RestButOne(r, data) == SubSeq(data, Missing(r, data) + 2, Len(data))

Rest(r, data) == SubSeq(data, Missing(r, data) + 1, Len(data))

Full(r) == Len(r.inbound) = r.target
Short(r) == Len(r.inbound) < r.target

(* The frame whose header the buffer starts with, if it starts with one.   *)
Aligned(r) == \A i \in 1 .. HEADER_SIZE : r.inbound[i] = <<r.inbound[1][1], i>>
Serial(r) == r.inbound[1][1]
FrameIn(r) == wire[Serial(r)]

(* A complete header says what to wait for.  Bytes of some other place     *)
(* read as a header could say anything: the model stops there.             *)
Parsed(r) ==
  IF ~Aligned(r) THEN [r EXCEPT !.state = "MISREAD"]
  ELSE [r EXCEPT !.state = IF FrameIn(r).kind = "protocol" THEN "PROTOCOL" ELSE "BODY",
                 !.target = TargetSize(FrameIn(r))]

(* The call up to the point where a header is complete...                  *)
Headed ==
  LET r == IF reader.state = "IDLE"
           THEN [reader EXCEPT !.state = "HEADER", !.page = next_page]
           ELSE reader
  IN IF r.state # "HEADER" THEN [r |-> r, rest |-> unread]
     ELSE [r |-> IF Full(Filled(r, unread)) THEN Parsed(Filled(r, unread))
                 ELSE Filled(r, unread),
           rest |-> Rest(r, unread)]

(* ... and on to the body, with the bytes that are left.                   *)
Bodied == Filled(Headed.r, Headed.rest)
(* Mutant of CHECK_LIMIT: off by one.                                      *)
BodyFitsStrictly == Len(Bodied.inbound) < FrameMax

BodyFits == Len(Bodied.inbound) <= FrameMax
InBody == Headed.rest # <<>> /\ Headed.r.state \in {"BODY", "PROTOCOL"}
Complete == InBody /\ BodyFits /\ Full(Bodied)

(* A call that returns a number of bytes: the loop moves on by it.  A call *)
(* that returns an error leaves sock_inbound_offset where it is.           *)
Returns(what, rest) ==
  /\ unread' = rest
  /\ result' = [what |-> what, used |-> Len(unread) - Len(rest)]
  /\ UNCHANGED <<socket, rejected, starved>>

Fails(what) ==
  /\ result' = [what |-> what, used |-> 0]
  /\ UNCHANGED <<socket, unread, queued, decoded>>

(* The frame buffer is allocated by the call that finds the reader idle.   *)
BufferTaken == next_page' = IF reader.state = "IDLE" THEN next_page + 1 ELSE next_page

(* A failed assertion ends the process.                                    *)
Running == result.what # "aborted"
CanRead == Running /\ unread # <<>> /\ reader.state # "MISREAD"

InputNoBuffer ==
  /\ CanRead /\ AllocMayFail /\ reader.state = "IDLE"
  /\ Fails("no_memory")
  /\ UNCHANGED <<reader, next_page, rejected, starved>>

(* Mutant: a partial frame is kept, but no byte is counted as consumed.    *)
InputPartialStays ==
  /\ CanRead
  /\ \/ ~InBody /\ reader' = Headed.r
     \/ InBody /\ BodyFits /\ Short(Bodied) /\ reader' = Bodied
  /\ BufferTaken
  /\ Returns("partial", unread)
  /\ UNCHANGED <<queued, decoded>>

InputPartial ==
  /\ CanRead
  /\ \/ ~InBody /\ reader' = Headed.r
     \/ InBody /\ BodyFits /\ Short(Bodied) /\ reader' = Bodied
  /\ BufferTaken
  /\ Returns("partial", <<>>)
  /\ UNCHANGED <<queued, decoded>>

(* E_BYTES: the piece does not fit in the buffer.                          *)
InputTooLarge ==
  /\ CanRead /\ InBody /\ ~BodyFits
  /\ reader' = Headed.r
  /\ BufferTaken
  /\ Fails("bad_data") /\ rejected' = TRUE
  /\ UNCHANGED starved

InputBad ==
  /\ CanRead /\ Complete /\ ~FrameIn(Bodied).good /\ FrameIn(Bodied).kind # "protocol"
  /\ reader' = Bodied
  /\ BufferTaken
  /\ Fails("bad_data") /\ rejected' = TRUE
  /\ UNCHANGED starved

(* The assertions of the function: bytes were copied beyond the target, or *)
(* a protocol header is none.                                              *)
InputAborts ==
  /\ CanRead /\ InBody /\ BodyFits
  /\ \/ Len(Bodied.inbound) > Bodied.target
     \/ Full(Bodied) /\ ~FrameIn(Bodied).good /\ FrameIn(Bodied).kind = "protocol"
  /\ reader' = Bodied
  /\ BufferTaken
  /\ Fails("aborted") /\ rejected' = TRUE
  /\ UNCHANGED starved

(* The decoder needs memory of the decoding pool: the frame stays complete *)
(* in the buffer, and its bytes stay in the socket buffer.  (Bound: this   *)
(* happens once.)                                                          *)
InputNoMemory ==
  /\ CanRead /\ Complete /\ FrameIn(Bodied).good
  /\ AllocMayFail /\ ~starved /\ FrameIn(Bodied).kind = "method"
  /\ reader' = Bodied
  /\ BufferTaken
  /\ Fails("no_memory") /\ starved' = TRUE
  /\ UNCHANGED rejected

(* Mutant: frames without a decoded payload are ignored with the unknown.  *)
InputIgnoresBodies ==
  /\ CanRead /\ Complete /\ FrameIn(Bodied).good
  /\ FrameIn(Bodied).kind \in {"unknown", "body"}
  /\ reader' = Idle
  /\ BufferTaken
  /\ Returns("ignored", Rest(Headed.r, Headed.rest))
  /\ UNCHANGED <<queued, decoded>>

InputIgnored ==
  /\ CanRead /\ Complete /\ FrameIn(Bodied).good /\ FrameIn(Bodied).kind = "unknown"
  /\ reader' = Idle
  /\ BufferTaken
  /\ Returns("ignored", Rest(Headed.r, Headed.rest))
  /\ UNCHANGED <<queued, decoded>>

(* A frame: the caller uses it and lets go, or amqp_simple_rpc queues it.  *)
InputFrame(queueIt) ==
  /\ CanRead /\ Complete /\ FrameIn(Bodied).good /\ FrameIn(Bodied).kind # "unknown"
  /\ reader' = Idle
  /\ BufferTaken
  /\ Returns("frame", Rest(Headed.r, Headed.rest))
  /\ decoded' = Append(decoded, Serial(Bodied))
  /\ queued' = IF queueIt THEN Append(queued, [n |-> Serial(Bodied), page |-> Bodied.page])
               ELSE queued

InputWithBuffer ==
  \/ InputPartial \/ InputTooLarge \/ InputBad \/ InputAborts
  \/ InputNoMemory \/ InputIgnored
  \/ \E queueIt \in BOOLEAN : InputFrame(queueIt)

HandleInput == InputNoBuffer \/ InputWithBuffer

-----------------------------------------------------------------------------
(* recv, once the socket buffer is used up.                                *)
Recv ==
  /\ unread = <<>> /\ inflight # <<>>
  /\ \E k \in 1 .. SockBuffer :
       /\ k <= Len(inflight)
       /\ unread' = SubSeq(inflight, 1, k)
       /\ inflight' = SubSeq(inflight, k + 1, Len(inflight))
  /\ UNCHANGED <<wire, reader, next_page, queued, decoded, result, rejected, starved>>

(* amqp_simple_wait_frame serves the queue first.                          *)
WaitFromQueue ==
  /\ Running /\ queued # <<>>
  /\ queued' = Tail(queued)
  /\ UNCHANGED <<socket, unread, reader, next_page, decoded, result, rejected, starved>>

(* Mutant: the queued frames forgotten.                                    *)
ReleaseWhenIdle == reader.state = "IDLE"

(* amqp_maybe_release_buffers, from amqp_login and popWithTimer.           *)
ReleaseBuffersOk == reader.state = "IDLE" /\ queued = <<>>

MaybeReleaseBuffers ==
  /\ ReleaseBuffersOk
  /\ next_page' = 0
  /\ UNCHANGED <<socket, unread, reader, queued, decoded, result, rejected, starved>>

BrokerSends ==
  /\ Len(wire) < MaxFrames
  /\ \E f \in Frame :
       /\ wire' = Append(wire, f)
       /\ inflight' = inflight \o BytesOf(Len(wire) + 1, f)
  /\ UNCHANGED <<unread, reader, next_page, queued, decoded, result, rejected, starved>>

Next == HandleInput \/ Recv \/ WaitFromQueue \/ MaybeReleaseBuffers \/ BrokerSends

Spec == Init /\ [][Next]_vars

(* The program goes on waiting for frames, and memory for a frame buffer   *)
(* does not stay out for ever.                                             *)
FairSpec == Spec /\ WF_vars(InputWithBuffer) /\ WF_vars(Recv)

-----------------------------------------------------------------------------
Byte == (1 .. Len(wire)) \X (Nat \ {0})

TypeOK ==
  /\ wire \in Seq(Frame) /\ inflight \in Seq(Byte) /\ unread \in Seq(Byte)
  /\ reader \in [state : {"IDLE", "HEADER", "BODY", "PROTOCOL", "MISREAD"},
                 inbound : Seq(Byte), target : Nat, page : Nat \union {-1}]
  /\ next_page \in Nat
  /\ queued \in Seq([n : 1 .. Len(wire), page : Nat])
  /\ decoded \in Seq(1 .. Len(wire))
  /\ result \in [what : {"none", "no_memory", "bad_data", "aborted",
                         "partial", "ignored", "frame"},
                 used : Nat]
  /\ rejected \in BOOLEAN /\ starved \in BOOLEAN

(* The serials of the first n frames that are not ignored ones.            *)
Visible(n) == {k \in 1 .. n : wire[k].kind # "unknown"}
LastRead == IF decoded = <<>> THEN 0 ELSE decoded[Len(decoded)]

(* Unless a decoder ran out of memory, the frames come out once each, in   *)
(* the order they were sent, however TCP cut the stream; only unknown ones *)
(* are skipped.                                                            *)
DecodedInOrder ==
  ~starved =>
    /\ \A i, j \in DOMAIN decoded : i < j => decoded[i] < decoded[j]
    /\ {decoded[i] : i \in DOMAIN decoded} = Visible(LastRead)

(* What no error has touched is accounted for to the byte: the partial     *)
(* frame, the socket buffer and the network hold, in order, the bytes from *)
(* the start of the first frame that is not done with.                     *)
StreamOfFrom(n) ==
  LET tail[k \in 1 .. Len(wire) + 1] ==
        IF k > Len(wire) THEN <<>> ELSE BytesOf(k, wire[k]) \o tail[k + 1]
  IN tail[n]
NoByteLostOrReread ==
  ~rejected /\ ~starved =>
    \E n \in LastRead + 1 .. Len(wire) + 1 :
      /\ reader.inbound \o unread \o inflight = StreamOfFrom(n)
      /\ \A k \in LastRead + 1 .. n - 1 : wire[k].kind = "unknown"

(* Bytes are rejected only for a frame that is bad or larger than          *)
(* frame_max, and no such frame is ever returned.                          *)
Unreadable(f) == ~f.good \/ FrameLen(f) > FrameMax
RejectedForCause ==
  ~starved =>
    /\ rejected => Unreadable(wire[Serial(reader)])
    /\ \A i \in DOMAIN decoded : ~Unreadable(wire[decoded[i]])

(* An assertion of the reader ends the process only on a header that asks  *)
(* for it: one whose size is so large that target_size wraps               *)
(* (amqp_connection.c:189, :175), or a protocol header that is none        *)
(* (:274); never because of how the bytes were cut, of what was read       *)
(* before or of an error in between.  The buffer is never overrun, and a   *)
(* call that returned no frame used up some input (amqp_socket.c:155), so  *)
(* that the loop around it cannot spin.                                    *)
AbortCaused(f) == Wraps(f) \/ (f.kind = "protocol" /\ ~f.good)
AbortsOnHeaderOnly ==
  /\ result.what = "aborted" => AbortCaused(FrameIn(reader))
  /\ Len(reader.inbound) > reader.target => Wraps(FrameIn(reader))
  /\ Len(reader.inbound) <= FrameMax
  /\ result.what \in {"partial", "ignored"} => result.used > 0

(* A frame in the queue and the frame being read never share a buffer,     *)
(* whatever was recycled before them.                                      *)
BuffersDisjoint ==
  /\ \A i, j \in DOMAIN queued : i # j => queued[i].page # queued[j].page
  /\ \A i \in DOMAIN queued : queued[i].page < next_page /\ queued[i].page # reader.page
  /\ reader.state # "IDLE" => reader.page < next_page

(* Every readable frame that no unreadable one precedes gets read.         *)
EveryFrameRead ==
  \A n \in 1 .. MaxFrames :
    (n <= Len(wire) /\ ~starved /\ \A k \in 1 .. n : ~Unreadable(wire[k]))
      ~> (\/ starved
          \/ n <= Len(wire) /\ wire[n].kind = "unknown"
          \/ \E i \in DOMAIN decoded : decoded[i] = n)

(* "Complete frame was read. Return it." (amqp_socket.c:151): what is      *)
(* returned is a frame that was read since the last one.                   *)
FrameReadOnce ==
  \A i, j \in DOMAIN decoded : i # j => decoded[i] # decoded[j]
=============================================================================
