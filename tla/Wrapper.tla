------------------------------- MODULE Wrapper -------------------------------
(***************************************************************************)
(* The Objective-C objects a program works with: an AMQPConnection that    *)
(* opens channels, and the AMQPExchange, AMQPQueue and AMQPConsumer that   *)
(* hold them, reopen them when they are marked closed, and judge each      *)
(* operation by the last result the library stored.                        *)
(*                                                                         *)
(* A call of the library is one step here, with all that it can come to in *)
(* ConnectionRpc: it may take the answer to an earlier call that gave up.  *)
(* One thread uses the objects.                                            *)
(***************************************************************************)
EXTENDS Integers, Sequences, FiniteSets

CONSTANTS
  Numbers,    \* how many channel numbers amqp_channel_t has
  Deep,       \* deepLoop, how often the start of a consumer is tried again
  MaxOpens,   \* bound: channels that are opened
  MaxLate     \* bound: answers under way to calls that gave up

ASSUME WrapperAssumption ==
  Numbers \in Nat \ {0, 1} /\ Deep \in Nat /\ MaxOpens \in Nat /\ MaxLate \in Nat

Holder == {"program", "exchange", "queue", "consumer"}
NoObject == -1
nil == 0

VARIABLES
  channels,  \* the AMQPChannel objects: isOpen, and whether a call on one was
             \* not looked at, or one was left for another channel (a ghost)
  held,      \* the channel of the program and of each of its objects
  result,    \* most_recent_api_result
  call,      \* the operation that runs
  error,     \* whether the program's NSError is set
  did,       \* history: what the last operation came to
  up,        \* the connection works
  broker,    \* the broker's view of each channel number
  late       \* answers under way to calls that gave up: number and method

brokerState == <<up, broker, late>>
wrapperVars == <<channels, held, result, call, error, did, brokerState>>

NoCall == [op |-> "none", step |-> "idle", channel |-> nil, deep |-> 0]
NothingDone == [op |-> "none", told |-> "void", done |-> FALSE, late |-> FALSE, silent |-> FALSE]

WrapperInit ==
  /\ channels = <<>> /\ held = [h \in Holder |-> IF h = "program" THEN nil ELSE NoObject]
  /\ result = "none" /\ call = NoCall /\ error = FALSE /\ did = NothingDone
  /\ up = TRUE /\ late = {}
  /\ broker = [n \in 0 .. Numbers - 1 |-> IF n = 0 THEN "control" ELSE "unused"]

(* nextChannel counts the channels from 1; the cast to amqp_channel_t      *)
(* keeps its low bits.                                                     *)
Number(o) == o % Numbers

-----------------------------------------------------------------------------
(* What a synchronous call of the library comes to (external): r is the    *)
(* reply type, done whether the broker did it, stale whether the answer is *)
(* that of an earlier call.                                                *)

ConnectionCloses ==
  /\ up' = FALSE /\ late' = {}
  /\ broker' = [n \in DOMAIN broker |-> IF n = 0 THEN "control" ELSE "unused"]

Works(n, method) ==
  up /\ broker[n] \in CASE method = "open" -> {"unused"}
                        [] method = "close" -> {"open", "closed"}
                        [] OTHER -> {"open"}

After(n, method) ==
  [broker EXCEPT ![n] = CASE method = "open" -> "open" [] method = "close" -> "unused" [] OTHER -> @]

(* A method on a number that is not open, an open on one that is, and      *)
(* either of them on channel 0 end the connection.                         *)
Misused(n, method) ==
  broker[n] \in {"control", IF method = "open" THEN "open" ELSE "unused"}

(* The answers on a number come in the order of the calls.                 *)
Elsewhere(n) == {l \in late : l[1] # n}

Answered(n, method) ==
  /\ Works(n, method)
  /\ broker' = After(n, method) /\ late' \in {Elsewhere(n), {}} /\ up' = up

AnsweredLate(n, method, done) ==
  /\ <<n, method>> \in late
  /\ done => Works(n, method)
  /\ broker' = IF done THEN After(n, method) ELSE broker
  /\ late' = IF done THEN late ELSE late \ {<<n, method>>}
  /\ up' = up

ChannelCloses(n, method) ==
  /\ up /\ method # "open" /\ broker[n] \in {"open", "closing"}
  /\ broker' = [broker EXCEPT ![n] = "closed"] /\ late' \in {Elsewhere(n), {}} /\ up' = up

(* The write fails, or the timer goes off, or the connection is gone.      *)
Unanswered(n, method, done) ==
  /\ done => Works(n, method)
  /\ broker' = IF done THEN After(n, method) ELSE broker
  /\ \/ late' = late
     \/ done /\ Cardinality(late) < MaxLate /\ late' = late \union {<<n, method>>}
  /\ up' = up

Rpc(n, method, r, done, stale) ==
  \/ r = "normal" /\ done /\ ~stale /\ Answered(n, method)
  \/ r = "normal" /\ stale /\ AnsweredLate(n, method, done)
  \/ r = "server" /\ ~done /\ ~stale /\ ChannelCloses(n, method)
  \/ r = "server" /\ ~done /\ ~stale /\ up /\ ConnectionCloses
  \/ r = "library" /\ ~stale /\ Unanswered(n, method, done)

(* amqp_basic_publish has no answer.  The broker closes the channel if     *)
(* there is no such exchange.                                              *)
BasicPublish(n, done) ==
  \/ up /\ Misused(n, "publish") /\ ~done /\ ConnectionCloses
  \/ up /\ broker[n] = "open" /\ ~done
     /\ broker' = [broker EXCEPT ![n] = "closing"] /\ UNCHANGED <<up, late>>
  \/ (done => up /\ broker[n] = "open") /\ UNCHANGED brokerState

LineFails == up /\ ConnectionCloses /\ UNCHANGED <<channels, held, result, call, error, did>>

-----------------------------------------------------------------------------
(* The operations: whose channel they work on, and how.                    *)

HolderOf ==
  [declareExchange |-> "program", nameExchange |-> "program", declareQueue |-> "program",
   nameQueue |-> "program", startConsumer |-> "program", setupBasicQOS |-> "program",
   close |-> "program", publish |-> "exchange", destroyExchange |-> "exchange",
   bind |-> "queue", unbind |-> "queue", purge |-> "queue", destroyQueue |-> "queue",
   closeConsumer |-> "consumer"]
Operation == DOMAIN HolderOf

Method(op) == IF op = "closeConsumer" THEN "close" ELSE op

(* They look at isOpen, and open another channel.                          *)
Reopens == {"declareExchange", "nameExchange", "declareQueue", "nameQueue", "publish", "bind",
            "unbind", "closeConsumer"}

(* Mutant: amqp_exchange_declare loses its result like                     *)
(* amqp_exchange_delete.                                                   *)
UnstoredDeclare == {"close", "closeConsumer", "destroyExchange", "declareExchange"}

(* The library does not store their result, or they do not look at it.     *)
Unstored == {"close", "closeConsumer", "destroyExchange"}
Unchecked == {"setupBasicQOS", "close", "destroyQueue", "destroyExchange"}

(* They leave *error as the program passed it.                             *)
KeepsError == {"nameQueue", "bind", "unbind"}

NoError == Unchecked \union {"closeConsumer"}

IsOpen(o) == o # nil /\ channels[o].isOpen

(* Mutant: bindToExchange leaves the mark as it is.                        *)
MarkedUnlessBound(o) == IF call.op = "bind" THEN channels ELSE [channels EXCEPT ![o].isOpen = FALSE]

(* [channel setIsOpen:NO] after a call that failed on o.                   *)
Marked(o) == [channels EXCEPT ![o].isOpen = FALSE]

Finish(told, done, stale) ==
  /\ call' = NoCall
  /\ did' = [op |-> call.op, told |-> told, done |-> done, late |-> stale, silent |-> FALSE]

FailsWith(h) == held' = h /\ error' = TRUE /\ Finish("error", FALSE, FALSE)

(* The program begins an operation, with an NSError that is still set from *)
(* an earlier one, or not.                                                 *)
Begin(op) ==
  LET o == held[HolderOf[op]]
  IN /\ call = NoCall
     /\ o # NoObject /\ (HolderOf[op] = "program" => o # nil)
     /\ call' = [op |-> op, channel |-> o, deep |-> IF op = "startConsumer" THEN Deep ELSE 0,
                 step |-> IF op \in Reopens /\ ~IsOpen(o) THEN "reopen" ELSE "method"]
     /\ CASE op \in KeepsError -> error' \in {error, FALSE}
          [] op \in NoError -> error' = error
          [] OTHER -> error' = FALSE
     /\ channels' = IF op = "close" THEN [channels EXCEPT ![o].isOpen = FALSE] ELSE channels
     /\ did' = NothingDone
     /\ UNCHANGED <<held, result, brokerState>>

BeginOpen ==
  /\ call = NoCall
  /\ call' = [op |-> "open", step |-> "reopen", channel |-> nil, deep |-> 0]
  /\ error' = FALSE /\ did' = NothingDone
  /\ UNCHANGED <<channels, held, result, brokerState>>

-----------------------------------------------------------------------------
(* openChannelError.                                                       *)

Opening == call.step \in {"reopen", "again"}
Opened == Len(channels) + 1

OpenChannel(r, done, stale) ==
  /\ Opening /\ Opened <= MaxOpens
  /\ call.op = "open" \/ call.channel # nil
  /\ Rpc(Number(Opened), "open", r, done, stale)
  /\ result' = r
  /\ channels' = Append(channels, [isOpen |-> r = "normal", calls |-> "fine"])

(* The operation goes on: publish with the channel it had.                 *)
ReopenedFor(op) == IF op = "publish" THEN call.channel ELSE Opened

Reopened ==
  /\ \E done, stale \in BOOLEAN :
       /\ OpenChannel("normal", done, stale)
       /\ CASE call.op = "open" -> Finish("ok", done, stale)
            [] call.op = "closeConsumer" -> Finish("void", FALSE, FALSE)
            [] call.step = "again" -> Finish("error", FALSE, FALSE)
            [] OTHER -> /\ call' = [call EXCEPT !.channel = ReopenedFor(call.op), !.step = "method"]
                        /\ did' = did
  /\ held' = CASE call.op = "open" -> [held EXCEPT !.program = Opened]
               [] call.op = "closeConsumer" -> [held EXCEPT !.consumer = Opened]
               [] call.op \in {"bind", "unbind"} -> [held EXCEPT !.queue = Opened]
               [] OTHER -> held
  /\ error' = IF call.op = "closeConsumer" THEN error ELSE FALSE

(* An object that cannot be made is nil; a queue is left without a         *)
(* channel.                                                                *)
ReopenFails ==
  /\ \E r \in {"library", "server"}, done \in BOOLEAN : OpenChannel(r, done, FALSE)
  /\ CASE call.op = "open" -> FailsWith([held EXCEPT !.program = nil])
       [] call.op \in {"declareExchange", "nameExchange"} -> FailsWith([held EXCEPT !.exchange = NoObject])
       [] call.op \in {"declareQueue", "nameQueue"} -> FailsWith([held EXCEPT !.queue = NoObject])
       [] call.op = "startConsumer" -> FailsWith([held EXCEPT !.consumer = NoObject])
       [] call.op = "publish" -> FailsWith(held)
       [] call.op \in {"bind", "unbind"} -> FailsWith([held EXCEPT !.queue = nil])
       [] call.op = "closeConsumer" ->
            held' = [held EXCEPT !.consumer = nil] /\ error' = error /\ Finish("void", FALSE, FALSE)

(* A message to nil does nothing, and *error is as it was.                 *)
ReopensNil ==
  /\ Opening /\ call.op # "open" /\ call.channel = nil
  /\ CASE call.op = "closeConsumer" -> Finish("void", FALSE, FALSE)
       [] call.op # "closeConsumer" /\ error -> Finish("error", FALSE, FALSE)
       [] OTHER -> call' = [call EXCEPT !.step = "method"] /\ did' = did
  /\ UNCHANGED <<channels, held, result, error, brokerState>>

-----------------------------------------------------------------------------
(* The method itself.                                                      *)

(* The library dereferences the connection of a nil channel.               *)
Crashes ==
  /\ call.step = "method" /\ call.channel = nil
  /\ call' = [call EXCEPT !.step = "crashed"]
  /\ UNCHANGED <<channels, held, result, error, did, brokerState>>

Named ==
  /\ call.step = "method" /\ call.op \in {"nameExchange", "nameQueue"}
  /\ held' = [held EXCEPT ![IF call.op = "nameQueue" THEN "queue" ELSE "exchange"] = call.channel]
  /\ Finish("ok", TRUE, FALSE)
  /\ UNCHANGED <<channels, result, error, brokerState>>

(* On a channel that is marked closed, no consumer is started, and that is *)
(* no error.                                                               *)
NotStarted ==
  /\ call.step = "method" /\ call.op = "startConsumer" /\ ~IsOpen(call.channel)
  /\ held' = [held EXCEPT !.consumer = call.channel]
  /\ call' = NoCall
  /\ did' = [op |-> call.op, told |-> "ok", done |-> FALSE, late |-> FALSE, silent |-> TRUE]
  /\ UNCHANGED <<channels, result, error, brokerState>>

(* The call of the library, and the result checkLastOperation then sees.   *)
Calls(failed, done, stale) ==
  /\ call.step = "method" /\ call.channel # nil
  /\ call.op \notin {"nameExchange", "nameQueue"}
  /\ call.op = "startConsumer" => IsOpen(call.channel)
  /\ IF call.op = "publish"
     THEN BasicPublish(Number(call.channel), done) /\ ~stale /\ result' = result
     ELSE \E r \in {"normal", "library", "server"} :
            /\ Rpc(Number(call.channel), Method(call.op), r, done, stale)
            /\ result' = IF call.op \in Unstored THEN result ELSE r
  /\ failed = (call.op \notin Unchecked /\ result' # "normal")

(* What a new object holds.  declareExchange forgets a channel it opened.  *)
Made ==
  CASE call.op = "declareExchange" -> [held EXCEPT !.exchange = held.program]
    [] call.op = "declareQueue" -> [held EXCEPT !.queue = call.channel]
    [] call.op = "startConsumer" -> [held EXCEPT !.consumer = call.channel, !.program = call.channel]
    [] OTHER -> held

Succeeds ==
  /\ \E done, stale \in BOOLEAN :
       /\ Calls(FALSE, done, stale)
       /\ IF call.op = "unbind" /\ error
          THEN call' = [call EXCEPT !.step = "again"] /\ did' = did
          ELSE Finish(IF call.op \in NoError THEN "void" ELSE "ok", done, stale)
  /\ held' = Made
  /\ channels' = IF call.op \in NoError THEN [channels EXCEPT ![call.channel].calls = "unseen"]
                 ELSE channels
  /\ UNCHANGED error

Fails ==
  /\ call.op \notin {"startConsumer", "unbind", "closeConsumer"}
  /\ \E done, stale \in BOOLEAN : Calls(TRUE, done, stale) /\ Finish("error", done, stale)
  /\ channels' = Marked(call.channel)
  /\ error' = TRUE
  /\ held' = CASE call.op = "declareExchange" -> [held EXCEPT !.exchange = NoObject]
               [] call.op = "declareQueue" -> [held EXCEPT !.queue = NoObject]
               [] OTHER -> held

UnbindFails ==
  /\ call.op = "unbind"
  /\ \E done, stale \in BOOLEAN : Calls(TRUE, done, stale)
  /\ channels' = Marked(call.channel) /\ error' = TRUE
  /\ call' = [call EXCEPT !.step = "again"]
  /\ UNCHANGED <<held, did>>

CloseFails ==
  /\ call.op = "closeConsumer"
  /\ \E done, stale \in BOOLEAN : Calls(TRUE, done, stale) /\ Finish("void", done, stale)
  /\ channels' = Marked(call.channel)
  /\ UNCHANGED <<held, error>>

(* Mutant: one try too many.                                               *)
LastTryLate == call.deep < 0
LastTry == call.deep = 0

(* The channel that failed stays marked open, unless it is the last one    *)
(* tried.                                                                  *)
StartFails ==
  /\ call.op = "startConsumer"
  /\ \E done, stale \in BOOLEAN :
       /\ Calls(TRUE, done, stale)
       /\ IF LastTry
          THEN /\ channels' = Marked(call.channel)
               /\ held' = [held EXCEPT !.program = call.channel, !.consumer = NoObject]
               /\ error' = TRUE /\ Finish("error", done, stale)
          ELSE /\ channels' = [channels EXCEPT ![call.channel].calls = "left"]
               /\ call' = [call EXCEPT !.step = "reopen", !.deep = @ - 1]
               /\ UNCHANGED <<held, error, did>>

WrapperStep ==
  \/ Reopened \/ ReopenFails \/ ReopensNil
  \/ Crashes \/ Named \/ NotStarted \/ Succeeds \/ Fails \/ UnbindFails \/ CloseFails \/ StartFails

WrapperNext ==
  \/ \E op \in Operation : Begin(op)
  \/ BeginOpen
  \/ WrapperStep
  \/ LineFails

WrapperSpec == WrapperInit /\ [][WrapperNext]_wrapperVars
=============================================================================
