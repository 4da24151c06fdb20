# A verification project for AMQProtocol

AMQProtocol is an Objective-C client for AMQP 0-8 brokers: a C library derived
from librabbitmq (`src/AMQProtocol/AMQPWrapper/libRabbitMQ-C`) under a layer of
Objective-C classes (`src/AMQProtocol/AMQPWrapper`).  This directory holds TLA+
modules that model the library and the wrapper, the TLC configurations that
check them, and theorems with proofs that TLAPS checks.  `PROJECT.json` lists
the runs, the mutants each property catches, the source lines behind each
definition, the hazards of the code and the theorems.

In this document `amqp_socket.c:186` is line 186 of that file of the repository.

## 1. The system

| Component | State it keeps | Operations |
|---|---|---|
| Inbound byte stream (`amqp_connection.c`, `amqp_socket.c`) | reader state, `inbound_buffer`, offset, `target_size`; `sock_inbound_buffer` with offset and limit; the frame pool | `amqp_handle_input`, the loop of `wait_frame_inner`, `amqp_maybe_release_buffers` |
| Frame queue and synchronous calls (`amqp_socket.c`) | `first_queued_frame` ... `last_queued_frame` | `amqp_simple_wait_frame`, `amqp_simple_rpc`, `amqp_simple_wait_method` |
| Memory pools (`amqp_mem.c`) | pages, large blocks, the page being carved | `amqp_pool_alloc`, `recycle_amqp_pool`, `empty_amqp_pool` |
| Session (`amqp_socket.c`, `amqp_connection.c`, `AMQPConnection.m`) | socket, tuned limits, buffers | open, `amqp_login` with handshake and tuning, connection close, destroy |
| Synchronous API (`amqp_api.c`) | `most_recent_api_result` | channel, exchange, queue, basic and tx calls |
| Publishing (`amqp_api.c`, `amqp_connection.c`) | `outbound_buffer` | `amqp_basic_publish`, `amqp_send_frame` |
| Channel, exchange, queue (`AMQPChannel.m`, `AMQPExchange.m`, `AMQPQueue.m`) | channel number, `isOpen`, names | open, close, declare, bind, unbind, purge, publish; reopening after a failure |
| Consumer (`AMQPConsumer.m`) | channel, queue, consumer tag | start with retries, `popWithTimer:`, `closeConsumer` |
| Consumer thread (`AMQPConsumerThread.m`) | `isLoopMode`, `countTry`, cancellation | `main` |
| RPC call (`AMQPRPCCall.m`) | reply queue, consumer, correlation id | `callWithBody:` |
| Codec (`amqp_framing.c`, generated; `amqp_table.c`) | none | encode and decode methods, properties, field tables |
| Messages, object base class, utilities | copies of decoded data | constructors |

How they interact.  Every operation that reads goes through one socket and one
`amqp_connection_state_t`.  `wait_frame_inner` feeds the bytes of the socket
buffer to `amqp_handle_input` until a frame is complete, and reads the socket
when the buffer is used up.  `amqp_simple_rpc` sends a request and reads frames
until one is its reply (or closes the channel or the connection); every other
frame goes to the end of the queue.  `amqp_simple_wait_frame` takes the head of
the queue before it reads.  `popWithTimer:` builds a message out of what
`amqp_simple_wait_frame` hands it, after recycling the pools if nothing is kept
in them.  The consumer thread calls `popWithTimer:` in a loop, or once.  The
calls store their reply in `most_recent_api_result`, which the wrapper reads
with `checkLastOperation:` afterwards.

What is hard in this code: replies carry no request number, so that a late
answer looks like an answer; frames that one operation reads past belong to
another; TCP cuts the stream anywhere and a timeout may strike in the middle of
a frame; buffers are recycled in bulk while parts of them are in use; a failure
in the middle of an operation leaves state behind; the timers do not cover
every wait; nothing is locked.

What makes each component correct, in a sentence:

* byte stream: each frame comes out once, in order, whatever the pieces;
* queue and calls: a call gets the answer to its request, and every other frame
  is handed out later, once, in order;
* pools: live allocations do not overlap and are not freed;
* consumer: a message is made of the frames of one delivery (true as long as no
  other channel of the connection carries contents), and only a returned message
  is acknowledged;
* consumer thread: what was sent is handed over, and the thread ends when it
  should;
* session: the login ends in a tuned connection or in an error; once tuned, both
  sides have the same limits, each the smaller of what the two asked for, except
  that a limit for which the client passes 0 (`loginAsUser:` does for
  `channel_max` and `heartbeat`) stays 0 whatever the broker offers; an object
  with an open connection writes to and closes no descriptor but its own;
* wrapper: an operation reports a success only if the broker did it, and a
  channel marked open is open;
* publishing: the broker gets each message whole, each frame within `frame_max`,
  or its publish reports an error, and each at most once and in the order of
  the publishes, whatever connections they go over;
* RPC call: the message returned answers the call;
* codec: decoding undoes encoding.

## 2. The modules

| Module | What it is | Theorems in |
|---|---|---|
| `FrameMailbox` | abstract specification: frames arrive, are handed out in order, taken out of order by a call, or dropped for want of memory | `ConnectionRpcProofs` |
| `ConnectionRpc` | calls and waits of a thread on a connection; implements `FrameMailbox` | `ConnectionRpcProofs` |
| `MCConnectionRpc` | instances of it for TLC | |
| `FrameReader` | bytes to frames | `FrameReaderProofs` |
| `AmqpPool` | the memory pool | `AmqpPoolProofs` |
| `ConsumerPop` | frames to messages, over what `FrameMailbox` promises | `ConsumerProofs` |
| `ConsumerThread` | the thread over `ConsumerPop` (EXTENDS it) | `ConsumerProofs` |
| `Session` | one `AMQPConnection`: connect, login, tuning, disconnect, dealloc, against a broker | `PublishProofs` |
| `Publish` | `amqp_basic_publish` over `Session` (EXTENDS it), and what the broker makes of the frames; implements `MessageQueue` | `PublishProofs` |
| `MessageQueue` | abstract specification: the program publishes one message after another, the broker keeps some of those published without an error, in that order and once | `PublishProofs` |
| `MCPublish` | the limits and messages TLC checks them with | |
| `Wrapper` | channels, exchanges, queues and consumers, `isOpen`, the last result | |
| `RpcCall` | a program over `Wrapper` (EXTENDS it), or an `AMQPRPCCall` | `RpcCallProofs` |
| `MethodLayouts` | the fields of every method and of every class of properties, for the decoder and for the encoder | |
| `FieldTable` | octets, numbers, strings, and the field values of every kind | `CodecProofs` |
| `Codec` | encoding and decoding of structs with their nested tables, over the two | `CodecProofs` |
| `MCCodec` | the structs TLC checks it with | |
| `SequenceLemmas` | facts about Append, Tail, RemoveAt and `\o` used by the proofs | itself |

### ConnectionRpc

State: `inbound` (whole frames that reached the socket or its buffer), `line`
(what follows them: nothing yet, undecodable bytes, or the end of the stream),
`queued` (the linked list), `pc` and the locals of the operation in progress,
and the broker's side.  A frame is a serial number, a channel, a kind and, as a
ghost, the request it answers; the code sees only channel and kind.

| Action | Code |
|---|---|
| `StartRpc`, `RpcSendFails` | `amqp_send_method` in `amqp_simple_rpc` (`amqp_socket.c:294-299`) |
| `RpcTakesFrame` | the frame "directly affects us" (`:313-327`, `:352-357`) |
| `RpcSetsAside`, `RpcNoMemory` | the copy to the queue, or its failure (`:328-350`) |
| `RpcTimeout`, `WaitTimeout` | `select` says no input (`:186-201`); `TimerRuns` is the test before it |
| `RpcReadFails`, `WaitReadFails` | `recv` fails or returns 0, the bytes are rejected, or there is no memory for a frame buffer |
| `WaitFromQueue`, `StartWait`, `WaitFromSocket` | `amqp_simple_wait_frame` (`:218-231`) |
| `Broker*`, `LineFails` | external: a broker that answers requests of a channel in order, pushes deliveries, closes channels and the connection; a network that fails |

The kind "heartbeat" stands for any frame of channel 0 that no call waits for.
Not in this module: a decoder that runs out of memory in the middle of a frame.
That breaks the very promise that frames come once; it is in `FrameReader`, and
run `reader_retry` shows what it does.  `select` failing with EINTR is treated
by the code as "readable" and is left out.

### FrameReader

State: `wire` (the frames sent), `inflight` (bytes not received), `unread` (the
socket buffer from its offset to its limit), `reader` (the state of
`amqp_handle_input`), the frame pool's page count, the queue, and what was
decoded.  A byte is a pair of a frame's serial and a position, so that a
property can say which byte is where.  One call of `amqp_handle_input` is one
action, with one action for each way it returns; `Headed` is the pass that
completes the header, `Bodied` the pass after `goto read_more`.  Reading the
size out of a complete header is modelled by the header's frame; if the seven
bytes are not a header (possible after an error), the model stops at "MISREAD".

`TargetSize` is the sum of size, header and footer as the code makes it, in
32 bits (`SizeModulus`, which a run scales down with the rest): a size close to
2^32 gives a target that is smaller than what was read already (`Wraps`).
`InputAborts` is the call in which one of the two assertions then fails, that
no more was copied than the target (`amqp_connection.c:175`), or that the
fourth octet of a protocol header is a 'P' (`:274`).  The process is gone, and
nothing follows it (`Running`).

### AmqpPool

Blocks are numbers, a region is a block with an interval, and `live` is the
history of what was handed out since the last recycling.  One action for each
path through `amqp_pool_alloc`, failures of `calloc` and of
`record_pool_block` included.  A request of 0 returns NULL at once and changes
nothing.

### ConsumerPop and ConsumerThread

`box` is the mailbox of the connection (queue followed by socket), which
`ConnectionRpc` is proved to implement; the pop takes its head, and a call made
between two pops takes a reply out of its middle.  The actions follow the three
stages of `popWithTimer:` (`AMQPConsumer.m:98-141`).  The body buffer is
modelled byte by byte, each byte as its delivery and offset, because the copy
into it is one of the findings.  Failures of the allocator are left out here.

Two kinds of contents reach the box: deliveries, and messages the program
published as mandatory or immediate (`AMQPExchange.m:113`, `:145`) that the
broker sends back with a basic.return (`ReturnChannel`).  Their header and body
frames look the same.  `OtherFrame` is any frame that is part of no content.

`ConsumerThread` adds the loop of `main` with `countTry`, the single-shot mode,
cancellation by another thread at any moment, and the loss of the connection.
`closeConsumer`, which the single-shot mode calls between the pop and the
delegate, is an RPC; `SingleShot` takes it as one that returns.  When an RPC
returns is what `rpc_live` says, what `closeConsumer` does what `Wrapper` says.

### Session and Publish

`Session` follows one `AMQPConnection` from `init` to `dealloc`, with the C
state it owns.  `at` is where the program is; `limits` are `channel_max`,
`frame_max` and `heartbeat` of the state, `sockfd` its descriptor and `socketFD`
the wrapper's copy of it.  A descriptor is known by the connection it was opened
for; `taken` are the closed ones whose number another part of the program was
given, and `foreign`, a history, the connections on whose behalf such a number
was written to or closed.  Frames are whole: `kernel` are those that reached
the socket, `buffer` those in `sock_inbound_buffer`, `queued` the linked list.

| Action | Code |
|---|---|
| `ConnectToHost`, `ConnectFails` | `connectToHost:onPort:error:` (`AMQPConnection.m:38-50`); `amqp_set_sockfd` changes the descriptor and nothing else |
| `SendHeader` ... `LoginDone` | `amqp_login` (`amqp_socket.c:361-498`), a send or a wait at a time |
| `WaitMethodAborts` | `amqp_simple_wait_method` meets another frame (`:241-255`): a connection.close, the protocol header of a broker that speaks another version (`BrokerRefusesVersion`), or a frame of an earlier connection |
| `Tune`, `TuneNoMemory` | the minimum of the limits, `amqp_tune_connection`, and its `realloc` that fails: the state is destroyed |
| `CallSetsAside`, `CallRefused`, `CallNoMemory`, `CallGetsNothing` | `amqp_simple_rpc` on channel 0, in detail in `ConnectionRpc` |
| `Disconnect`, `Dealloc`, `DisconnectDone`, `Destroy` | `disconnectError:`, which closes the socket, and `dealloc`, which calls it and then closes the same number again; neither asks whether there is a connection, so both may come at any time the program is not inside another method (`Idle`), a second time included |
| `OtherOpens` | another part of the program gets a descriptor number that is free again |

A program uses the object as its methods allow: it may connect it again after
`connectToHost:`, the login or the connection failed.  What an earlier
connection left in `buffer` and `queued` is still there.  `Sends` is
`amqp_send_frame`: it fails if the frame does not fit into `outbound_buffer`
(`Fits`; the pieces of a body are not copied there) or the write fails, and a
write that stopped short counts as one that did not ("cut").

`Publish` sends a method, a header and the pieces of a body, each a step, on a
connection that is ready, or on one that was closed under a channel that is
still marked open (`Stranded`, the program is "astray").  The broker takes them
from `wire` and either stores the message or meets a method in the middle of a
content, which is a connection error in AMQP.  A frame carries, as a ghost, the
message and the interval of the body it holds.  Of the message it puts together
the broker keeps the announced size, how much came (`got`) and the pieces;
`StoredIsWhole` says that the three agree.

The model stops when the program is aborted, when it uses a freed state, and
when the object is gone; nothing is claimed of what follows.

### Wrapper and RpcCall

`Wrapper` has an action for each way an operation of `AMQPChannel`,
`AMQPExchange`, `AMQPQueue` and `AMQPConsumer` goes on: `Begin` (the operation
looks at `isOpen`), `Reopened` / `ReopenFails` / `ReopensNil`
(`openChannelError:`), then the call of the library and the judgement of
`checkLastOperation:`.  The operations differ in a few ways, and these are sets:
`Reopens`, `Unstored` (`amqp_channel_close` and `amqp_exchange_delete` leave
`most_recent_api_result` alone), `Unchecked`, `KeepsError`.  A call of the
library is one step, `Rpc`, with every outcome `ConnectionRpc` has: the answer,
the late answer to an earlier call of the same number and method, a channel or
connection that is closed, or nothing, whether or not the broker did what it
was asked.  `broker` is the broker's view of each channel number; `Number`
cuts `nextChannel` to the width of a channel number.  `held` is the channel
each object holds: `NoObject` if there is none, `nil` if its pointer was
overwritten with nil.  `error` is the program's `NSError` variable, which it
may pass on from an earlier operation.

`RpcCall` is the program: any operations in any order, or the script of
`AMQPRPCCall`, which declares a reply queue, starts a consumer, and then, for
each `callWithBody:`, publishes and pops.  The pop is what `ConsumerPop` shows
it to be on a channel of one consumer: whole messages in order, or one given
up, or nothing.  Servers answer in any order.  The mapping of correlation ids
to calls is the identity: they are sent, and never read.

### MethodLayouts, FieldTable and Codec

`amqp_framing.c` is generated, one `case` for each method in the decoder and
another in the encoder.  `MethodLayouts` has a line for each of them, read off
its own side, with the members of the struct by name: that the two sides agree
is what `RoundTrip` checks, not something the model assumes.  `FieldTable`
translates the macros of `amqp_private.h` and the `switch` over the kinds of
`amqp_table.c`.  An octet is a number below 256; a CHECK_LIMIT that fails is the
result `Failed`, which `Then` passes on as the code's returns do.

`Codec` encodes one struct into a buffer of some size and decodes the octets, or
the first of them.  A struct is listed as its items in the order of their
octets: a member, and after a table or an array its elements, each with the
tables and arrays it is within.  The recursion of `amqp_table.c` becomes a stack
of the calls that are active: `open` holds, for the encoder, where each of them
will write its size, `inside`, for the decoder, where each of them will stop.

| Action | Code |
|---|---|
| `Encode` | `inner_send_frame` calls an encoder (`amqp_connection.c:317-341`); the flags of a content header (`amqp_framing.c:2616-2628`) |
| `EncodeMember` | the next statement of `amqp_encode_method` or `amqp_encode_properties` |
| `EncodeElement` | a round of the loop of `amqp_encode_array` or `amqp_encode_table`, with `amqp_encode_field_value` (`amqp_table.c:252-254`, `:270-281`, `:288-374`) |
| `EncodeClose` | the size is written where it was skipped (`:256`, `:283`), and the call returns |
| `EncodeDone`, `DecodeDone` | the outermost function returns |
| `Decode` | `amqp_handle_input` calls a decoder (`amqp_connection.c:213-246`) |
| `DecodeMember` | the next statement of `amqp_decode_method` or `amqp_decode_properties` |
| `DecodeElement` | a round of the loop of `amqp_decode_array` or `amqp_decode_table`, with `amqp_decode_field_value` (`amqp_table.c:51-69`, `:105-134`, `:151-238`) |
| `DecodeClose` | `offset` has come to the `limit` of the loop |

`Write` and `Take` are what these steps share: a check that fails returns from
all the calls at once ("refused", "rejected"), so that an item counts as written
or read as a whole.  `Legal` says which structs a program can hand to an
encoder: values that fit their types, and items nested as C structs are.

A 64-bit number is two halves.  For TLC, unsigned 32-bit numbers stay below
2^31, the largest it computes with; signed ones take their whole range.  The
proofs have no such bound.  A float is the number whose memory it shares, as in
the code.  Strings with a one-octet length have at most 255 octets, and a struct
is no longer than an `int` offset can say.  Memory that runs out while a struct
is decoded is in `FrameReader` (`InputNoMemory`).

## 3. The runs

| Run | Bounds | Shows |
|---|---|---|
| `rpc` | 2 channels, 3 frames, 3 calls, memory may fail, channels reused after failures | types; `StaleReplyWasAbandoned`; `MailboxSpec` (refinement) |
| `rpc_live` | 2 channels, two kinds of calls and connection.close, 3 frames, 2 calls, no reuse | `ReplyIsOurs`, `RpcReturnsOrQueued`, `AnswerReachesCaller` |
| `reader` | 2 frames of four payload sizes and every kind; header 2, footer 1, `frame_max` 4, sizes of 3 bits, `recv` up to 4 bytes | `DecodedInOrder`, `NoByteLostOrReread`, `RejectedForCause`, `AbortsOnHeaderOnly`, `BuffersDisjoint`, `EveryFrameRead` |
| `reader_retry` | 2 frames, one decoder failure | violation: a frame is read twice |
| `pool` | page of 5, word of 2, three request sizes, 4 blocks | the pool's four properties |
| `pop` | 3 messages of 0, 1 and 2 body frames, delivered or returned, all on one channel, 2 other frames | `OneDelivery`, `ReturnedInOrder`, `AckedWasReturned`, `ReturnedOrGivenUp` |
| `pop_body` | 2 deliveries of 0 or 2 body frames | violation: body fragments overwrite each other |
| `pop_shared` | 2 channels, 2 deliveries | violation: deliveries of two channels are mixed |
| `thread` | 3 messages, delivered or returned, 2 other frames, both modes | the thread's six properties |
| `publish` | 2 connections of an object, 2 kinds of brokers, 2 messages of 3 kinds, 1 pushed frame a connection, memory and writes may fail, 1 disconnect the broker has not read | types; `LoginAgrees`, `AbortsForCause`, `ForeignOnlyOnceClosed`, `FramesFitBothSides`, `MessagesArriveWhole`, `QueueSpec` (refinement) |
| `rpc_call` | 3 channel numbers, 4 openings, 6 operations of a program or 3 RPC calls, 1 late answer, 1 retry of a consumer's start | `ReportsTrue`, `MarkedOpenIsOpen`, `AnswerIsOursOrLate` |
| `codec` | all methods and property classes; one member at a time takes each edge value of its type, tables nested up to 3 deep; buffers and payloads that end within 6 octets of either end | `RoundTrip`, `CutIsRejected`, `EncodesWhatFits` |

Why the bounds are enough.

* `rpc`: a stale reply needs a call that gives up, a second call and one late
  answer; a wrong order in the queue needs two frames set aside and a third
  read from the socket.
* `reader`: with two frames a read can end inside a header, between header and
  body, inside a body, on the boundary, or span two frames.  One payload size
  meets `frame_max` exactly, the next exceeds it by one, and with the other two
  the sum wraps: to less than a header, where the assertion fails, and to a
  header exactly, where a byte of the header is taken for the end marker.  The
  constants are scaled down from 7, 1, 131072 and 2^32; `ReaderAssumption` names
  what they must satisfy.
* `pool`: 4 blocks are two pages, a large block and one more, so that a page is
  recycled while another is carved; the request sizes fill a page exactly with
  two requests rounded up, leave a remainder, and exceed a page.
* `pop` and `thread`: the third delivery is the first one to be popped cleanly
  after a pop that gave up and one that skipped the rest.  In `thread` each of
  three deliveries, or a returned message and two other frames, can cost a try.
* `publish`: the second connection meets what the first left behind, at every
  point where the first can fail.  A broker without a limit leaves the client's
  `frame_max`, one with a smaller limit lowers it; a larger limit, which leaves
  the client's as none does, is left to the proofs.  Each broker offers a
  `channel_max` or a `heartbeat` as well, where the client's is 0.  The body of
  13 is one full frame of 21 and more than two of 14, the header of 15 fits the
  one and not the other.  Two messages, because a content is broken off by the
  next one.  One disconnect that the broker has not read (`MaxCloses`) cuts the
  program that repeats `disconnectError:` in vain without end; a second one
  after the first has closed the socket is not bounded.
* `rpc_call`: the channels opened are numbered 1, 2, 0 and 1 again, so that the
  connection's own number and one in use are met; an exchange, a queue and a
  consumer take three operations and the opening of a channel a fourth, which
  leaves two for what goes wrong.  A late answer needs a call that gave up and
  one more of its kind.  Three RPC calls: one that returns nothing, one that
  takes its answer, and one that is then off by one.
* `codec`: members are independent but for their order, which distinct default
  values expose, so one is varied at a time; of the properties all, one, all
  but one, or none are present.  These are 1085 structs.  Near the end of a
  buffer is where the four skipped octets of a size matter, and the last items
  of a table with its own four; the lengths in between are left to the proofs.

Symmetry is used only in `rpc`, over channels, where the properties do not
tell channels apart; its one temporal formula is a refinement without fairness,
a safety property.

Deadlock is checked in `pool` and `pop`.  The other configurations say why the
system may stop: the client is blocked in `recv` while the broker has used up
its bound, the model does not read on after a misread header, the thread has
ended, the struct of `Codec` is decoded, or the program is through with its
object (`publish`) or its bounds (`rpc_call`).

### Fairness

* `ConnectionRpc!FairSpec`: `WF(ClientRuns)`.  A thread inside a call runs, and
  the timer of `select` goes off if the socket stays silent.  Nothing is assumed
  of the broker or of the program.
* `FrameReader!FairSpec`: `WF(Recv)` and `WF(InputWithBuffer)`.  The program
  keeps waiting for frames, and memory for a frame buffer is not refused for
  ever.
* `ConsumerThread!ThreadSpec`: `WF(ThreadRuns)`.  A thread that can run does.

### What the violations show

1. `reader_retry`: after ERROR_NO_MEMORY from a decoder
   (`amqp_connection.c:223`) the frame is returned by the next call with no
   bytes consumed, and is read again.
2. `pop_body`: `memcpy` to the start of the body buffer (`AMQPConsumer.m:139`).
3. `pop_shared`: `popWithTimer:` does not look at the channel of a frame
   (`AMQPConsumer.m:108`, `:116`, `:133`).
   For the same reason one consumer alone is not safe: the content of a message
   that was published on another channel of the connection, and comes back, is
   taken for that of a delivery.  The run shows it too when the second channel is
   made a `ReturnChannel` in place of an `OtherChannel`.

### What the exceptions in the passing properties say

Several properties hold only with exceptions, each of which TLC reaches; they
are as much a result as the property.

* `RpcReturnsOrQueued`: `wait_frame_inner` skips `select`, and so its timeout,
  while a frame is queued (`amqp_socket.c:186`).  `amqp_simple_rpc` never serves
  the queue, so after setting one frame aside it waits without a limit.  This
  is the only case in which a call does not come back.
* `AbortsOnHeaderOnly`: the broker can make two assertions of the reader fail,
  and with them the process.  `target_size` is a sum in 32 bits
  (`amqp_connection.c:189`): a size of 2^32 - 8 to 2^32 - 2 in a header makes it
  smaller than the seven bytes read so far, and the next byte fails the assertion
  at `:175`, where any other size above `frame_max` is an error.  A protocol
  header whose fourth octet is no 'P' fails the one at `:274`.  Nothing else does,
  no cut of the stream and no error before.
* `LoginAgrees` holds for every login that succeeds, with the client's 0 kept as
  it is: both sides agree on 0 then, also when the broker offered a limit.
* `AbortsForCause`: a login aborts the program if the broker refuses it with a
  connection.close or, for want of the client's version, with a protocol header,
  and if it meets a frame of an earlier connection.
* `ForeignOnlyOnceClosed`: `dealloc` after `disconnectError:`, a second
  `disconnectError:` and a publish on a closed connection write to, or close, a
  descriptor number that may be another part's by then.  While the object has
  an open connection, none of this happens.
* `MessagesArriveWhole`: a publish that fails after its method went out leaves
  the broker in the middle of a content; the next message ends the connection.
* `ReportsTrue`: a publish reports the result of the call before it; the start
  of a consumer on a channel marked closed reports a success without starting
  one; a late answer counts as a success for a purge, for a consumer, and for
  anything once channel numbers repeat.  `unbindFromExchange:` returns NO without
  an error, and an error of an earlier operation stays in `bindToExchange:` and
  `initWithName:onChannel:error:`.  A queue whose reopening failed has no channel,
  and the next operation on it crashes in the library.
* `MarkedOpenIsOpen`: a channel stays marked open if the result of the call
  that lost it was never looked at, if the start of a consumer went on to
  another channel, or if another object shares its number.
* `AnswerIsOursOrLate`: once a call of an `AMQPRPCCall` has come back with
  nothing, every later call may return the answer to an earlier one.

## 4. The proofs

TLC checks the instances above; the theorems hold for every value of the
constants that the named assumptions of each module admit (`RpcAssumption`,
`PoolAssumption`, `ReaderAssumption`, `PopAssumption`, `SessionAssumption`,
`PublishAssumption`, `WrapperAssumption`, `RpcCallAssumption`, `CodecAssumption`).
They say that
bounds and sizes are numbers, that a frame has a header and `frame_max` fits the
size field, that there are channel
numbers besides the connection's own, that the structs are ones a program can
fill in, and the like.

**Calls** (`ConnectionRpcProofs`).  `StaleReplyWasAbandoned` and `ReplyIsOurs`
are not inductive: whether a frame on the socket can be mistaken for an answer
depends on what the broker was asked.  `RpcInv` adds that pending requests and
the requests answered by frames in `inbound` and `queued` were made, that the
reply kind of a frame answering a request is one that request expects, on its
channel, and that every request other than the one in progress whose answer is
still under way was given up (is in `unanswered`).  Then a reply that a call
takes is either its own or the answer to an abandoned one.  The proof has one
step for each action, with lemmas for the return of a call (`ReturnInv`) and for
what the broker sends (`BrokerSendsInv`).

**Mailbox** (`ConnectionRpcProofs`).  `MailboxInv` is inductive as it stands:
the kept serials are increasing and above those handed out, and the four places
are disjoint and cover what was sent.

**Refinement** (`ConnectionIsMailbox`).  The mapping takes `box` to the serials
of `queued \o inbound`.  Setting a frame aside moves the head of `inbound` to
the end of `queued`, which leaves `box` as it is: a stutter.  A call that takes
its reply removes position `Len(queued) + 1` of `box`.  `SequenceLemmas` states
these facts about sequences once.  With the theorem about the mailbox it gives
`ConnectionKeepsFrames`.

**Pools** (`AmqpPoolProofs`).  `NoOverlap` needs to know where free memory is:
`PagesInv` says that pages from `next_page` on hold nothing alive and those
before it hold something, `CarvedInv` that the page being carved is in no other
role and that what lives in it lies below `alloc_used`.  The interesting case is
`AllocPageNotRecorded`: the new page is installed with the old `alloc_used`,
and the invariant survives because the page is empty.

**Byte stream** (`FrameReaderProofs`).  All safety properties of the reader are
proved.  `ReaderInv` says what each state means: in the state of a header its
length and target, in that of a body that the buffer begins with the header of
one frame, whose length is the target.  `BuffersDisjoint` is inductive with it.
`StreamInv` strengthens `NoByteLostOrReread`: before the first error the reader
is never misread and never holds a complete frame.  `RejectedInv` says that an
error stays: what was rejected is at the head of the reader for good, so that
nothing is decoded afterwards.  `AbortsOnlyOnHeaders` needs to know that a target
is behind only after a header that wraps.  Each call of `amqp_handle_input` then
advances a tail of the stream by what it used up.  The tail is a recursive function of the
frame's number; the proof unfolds it a frame at a time (`StreamIs`), and does
the little induction it needs on sets of numbers (`NatSetInduction`, from a
theorem of `FiniteSetTheorems`), since the library's induction theorems cannot
be instantiated.

**Consumer** (`ConsumerProofs`).  `ReturnedOrGivenUp` holds on any number of
channels: the frames of a delivery are pending, or it is the one being popped,
or it is settled (`StartedInv`).  That a message is of one delivery is proved
with the hypothesis `Channel = {OwnChannel}`: one consumer on the connection,
and no other channel on which published messages come back.  Run `pop_shared` is
the counterexample without it.  On its own channel a returned message does no
harm, because the frames of two contents of one channel are never interleaved:
the pop skips it whole or gives up inside it.  `SortedInv` orders the frames
that are still to come by delivery, kind and offset; `ClosedInv` says that after
a frame the next one of its delivery is still to come, until its last.  With
them `ExpectInv` says what the pop's next own frame can be, a frame of the
delivery it is in the middle of or the first of a later one, and `SettledInv`
that what was returned or given up lies behind.  Acknowledgements follow from
`AcksInv`.

**Consumer thread** (`ConsumerProofs`).  A pop step of the thread is a step of
`ConsumerPop`, so that `PopInv` carries over.  `LossInv` counts: in loop mode
each delivery given up cost a try, in which `gaveUp` has to be finite for its
cardinality to mean anything; `ThreadInv` knows that a running thread has a try
left, and what was told before the cancellation.

**RPC calls** (`RpcCallProofs`).  `AnswerIsOursOrLate` speaks of what was
returned; what the next pop may take is in `AnswerInv`: the requests at the
server and the answers under way are of calls that were made, and a call is in
one place only, at the server, under way or returned.  Then, as long as no call
came back with nothing, the calls so far returned 1, 2, ... n, so that only the
answer to call n + 1 can be under way (`OnlyTheLast`).  The wrapper's steps do
not matter to it, which the proof says by treating them as stutters.

**Wrapper** (`RpcCallProofs`).  `ReportsTrue` judges an operation when it is
over, from what the broker did steps before; `MarkedOpenIsOpen` compares the
objects with the broker.  Neither is inductive.  `WrapperInv` adds `CallInv`, what
an operation in progress knows of its channel and what `most_recent_api_result`
says at each of its stages; `ToldInv`, what the program was told of its objects;
`LateInv`, that an answer under way belongs to a number in use, and could mislead
a declaration, a bind or an unbind only if that number is marked as given up or
numbers have come round; and `OpenInv`, `MarkedOpenIsOpen` with the channel that
a reply is about to close.  The exceptions of `ReportsTrue` are needed where the
proof says so: `StaleMisleads` derives a false success from a late answer, and
`NumbersRepeatLate` that a declaration meets one only after channel numbers came
round.

**Descriptors** (`PublishProofs`).  Nothing keeps the program from another
`disconnectError:`, from a publish on a closed connection or from `dealloc`, so
that `ForeignOnlyOnceClosed` cannot rest on when they are called.
`DescriptorInv` says instead that `sockfd` is always the number of the latest
connection, open as long as the line is up or a login is on, and that a publish
goes "astray" only once it is closed: what is reached through `sockfd` while it
is another part's is reached on behalf of a connection that is closed.  A step
either leaves the descriptors alone (`Quiet`, most of the handshake and all of
the broker) or is one of those that connect, send, end or fail.

**Login** (`PublishProofs`).  `LoginAgrees`, `AbortsForCause` and
`FramesFitBothSides` are conjuncts or consequences of `LoginInv`, which has to
tell the frames of the connection from those an earlier one left behind.
`AgeInv` places the latter: in the queue and, until something is received, in
the buffer, and never a start among them.  `Coming` is what the connection
itself still has for the program.  `LeftInv` says that a login past its start
has nothing old before it: it took its start from an empty queue and a buffer
that is not stale, or was aborted by what it found instead.  `ComingInv` says
what each coming frame means (a tune carries the limits offered, an open_ok that
both sides are through), `FirstInv` in which order the first ones come,
`WireInv` what the client's frames say, and `TunedInv` what both sides know at
each stage.  `LoginLeavesAgreement` is about all three limits, the client's 0
included, and `AbortsAreCaused` about every answer the broker has to a header.
The theorems are about `PublishSpec`, of whose steps those of `Session` are a
part.

**Contents** (`PublishProofs`).  `MessagesArriveWhole` compares what the broker
stored, possibly connections ago, with what `amqp_basic_publish` returned.
`ArrivalInv` describes the frames on the way as a stream that leads from the
place where the broker is (between two messages, before a header, in a body) to
the place where the program is (`StreamInv`): each frame comes where it may come
(`Follows`), a method only between messages or where a publish gave up with an
error.  The operators of the stream take what was published, the frames and the
place as parameters, so that `StreamAppend`, `StreamTail` and `StreamKept` are
lemmas about constants.  `OrderInv` and `CutInv` show that nothing else is on
the way then: the frames of the handshake are in order and behind the broker
(`OnlyContents`), and nothing follows a cut frame.  `KnownInv` says that
contents are only on the way on a connection opened since, and that while it is
up nothing is published elsewhere (a publish that went astray leaves nothing on
the way), `ContentInv` and
`StoredInv` that the pieces form a chain up to `got`, and `DoneInv` that the last
frame of a message whose publish returned 0 is on the way, or taken, or lies
behind a cut.  The broker's size check is what makes a message complete; that it
does so with the last piece, and never before, is what the chain is for.

**One queue** (`PublishesToQueue`, in `PublishProofs`).  Frames, connections and
the broker's half-read content are what `MessageQueue` leaves out; the mapping
takes the results of the publishes and the numbers of the stored messages.  A
frame sent in the middle of a publish, and one taken in the middle of a content,
are stutters; the step that sends the last frame, or fails, is `Return`, and the
step that takes the last frame is `Keep`.  For its guard the proof needs
`AheadInv`, which no run's property says: along the frames on the way the
messages never go back, after a message's last frame comes a later message, and
all of them are later than what is stored.  A new connection starts with nothing
on the way, so that the order holds over all of them.  `StoredInOrder` is
`MessageQueue`'s invariant, carried over by the refinement.

**Codec** (`CodecProofs`).  `RoundTrip`, `CutIsRejected` and `EncodesWhatFits`
compare the end of a decoder with what an encoder was given, any number of
nested calls before.  The proof goes in three stages.

* Values.  `ValueWritten` says that the octets of a value are as many as its
  format says, `ValueRead` that a reading at an offset where they lie gives the
  value if the payload goes that far and fails if it does not.  Numbers of every
  width, the cast to a signed type, halves, decimals, strings and flags each have
  a lemma.  `SameFields` compares the generated encoder and decoder of every
  method and every class of properties, field by field.
* Items.  `Size` is where an item ends; it is defined by counting, as the
  cardinality of a set of cells, because a sum over items would be a recursion
  to reason about by induction.  `SizeStep` and `SizeOrder` are what a sum would
  satisfy.
* Steps.  `CodecInv` holds `Encoding` while a struct is encoded: the buffer has
  the octets of the items written so far, each at its place, the size of every
  table that is closed, and `open` is one offset for each table the next item is
  within or that still has to be closed.  `Decoding` is its mirror: what was read
  is a prefix of the items, `offset` is where it ends, and each call of `inside`
  stops where the elements of its table end.  That a loop stops exactly there,
  and not an element early or late, needs every item to take an octet at least
  (`SizeOrder`) and the items to be nested (`Ends`); that a cut payload is
  rejected needs that the next item is then not there in full.

The hypothesis is that the structs are `Legal`.  No bound is put on their depth,
their length or their number, nor on buffers and payloads (`Near` is any number).
TLC evaluates `Legal` for each of the structs it checks.

Only model-checked: the six liveness properties, `RpcReturnsOrQueued`,
`AnswerReachesCaller`, `EveryFrameRead`, `SentIsTold`, `EndsWhenConnectionFails`
and `SingleShotEnds`, since the prover handles neither liveness under fairness
nor ENABLED.  Every other property of the passing runs is a theorem.
`BodyAssembled` and the properties of the runs that expect a violation are false,
and have no theorem.

## 5. What is not modelled

* A second thread inside the library.  The code has no lock
  (`AMQPConnection.m:106` has one commented out).  `ConsumerThread` interleaves
  calls with the pops of a thread frame by frame; below that, two threads race
  on plain C data.
* In `Session`: a frame that was half read when its connection failed (the
  reader then takes the next connection's bytes for the rest of it; `FrameReader`
  has the states), a `frame_max` too small for a method, and the size of the
  socket buffer.  What is read from a descriptor that belongs to another part of
  the program is left out as well: nothing is received on it.
* What a program is taken not to do: log in without having connected, connect an
  object whose connection is in order, or publish on an open connection on which
  the channel was not opened.  Of the wrapper's calls after a disconnect,
  `publishMessage:` stands for all, since each of them starts with a send on the
  same descriptor; it is one on a channel that was published on before.
* Of the broker: apart from the refusals named above it keeps to AMQP 0-9-1.
  With PLAIN, the mechanism the wrapper uses, that means it sends no
  connection.secure.
* In `Publish`: a body of 2^31 octets or more, for which `remaining` of
  `amqp_basic_publish`, an `int`, is negative or too
  small.
* In `ConsumerThread`: a `closeConsumer` that never returns.  `rpc_live` names
  the case: a frame is queued, and the broker stays silent.
* In `Wrapper`: two connections, and a program that passes a nil channel or
  goes on with an object it was told could not be made.
* Strings too long for their length octet, and octets no encoder of this
  library wrote: `Codec` decodes what was encoded, whole or cut short.
* `AMQPMessage`, `AMQPObject`, `AMQPUtilities` and the example object: copies of
  decoded data and error texts, which no operation changes.
* The tx calls, basic.get, basic.cancel and the other methods of the library the
  wrapper never calls, but as `Rpc` of `ConnectionRpc` and in the codec.
* `socket.c`, `amqp_debug.c`, `config.h`, the Xcode project and the one example
  test: system calls, printing, build files.
* The arithmetic width of `target_size` (`amqp_connection.c:189`): sizes are far
  below 2^32.

## 6. The plan

All of it is done: the mailbox, the calls, the reader, the pools, the consumer
and its thread, the codec, the session, publishing, the wrapper and the RPC call,
and proofs of every safety property of the passing runs.  What could come next:
the tx calls and basic.get once the wrapper makes them, and two threads inside
the library once it has a lock.
