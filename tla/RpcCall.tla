------------------------------- MODULE RpcCall -------------------------------
(***************************************************************************)
(* A program over the Wrapper: it uses the objects in any order, or it     *)
(* makes an AMQPRPCCall, whose calls publish a request and then pop        *)
(* whatever message comes first: correlation ids are sent and not looked   *)
(* at.  A pop is that of ConsumerPop, which returns whole messages in the  *)
(* order they were delivered, or gives one up, or nothing.                 *)
(***************************************************************************)
EXTENDS Wrapper

CONSTANTS
  MaxBegins,  \* bound: operations the program begins itself
  MaxAsks     \* bound: calls of callWithBody

ASSUME RpcCallAssumption == MaxBegins \in Nat /\ MaxAsks \in Nat

VARIABLES
  begun,     \* how many operations the program began itself
  rpc,       \* where the AMQPRPCCall is; "none" if the program makes none
  requests,  \* the calls whose request a server has and has not answered
  answers,   \* answers on their way to the consumer
  returned   \* history: the call whose answer each call returned; 0 is nil

rpcVars == <<wrapperVars, begun, rpc, requests, answers, returned>>

RpcCallInit ==
  /\ WrapperInit
  /\ begun = 0 /\ rpc = "none" /\ requests = {} /\ answers = <<>> /\ returned = <<>>

-----------------------------------------------------------------------------
(* initWithConnection opens a channel, declares the reply queue, names the *)
(* exchange and starts the consumer, and gives up at the first error.      *)
Script == [open |-> "declareQueue", declareQueue |-> "nameExchange", nameExchange |-> "startConsumer"]

StartRpc ==
  /\ rpc = "none" /\ begun = 0
  /\ BeginOpen
  /\ rpc' = "open"
  /\ UNCHANGED <<begun, requests, answers, returned>>

GoesOn ==
  /\ rpc \in DOMAIN Script /\ call = NoCall /\ ~error
  /\ Begin(Script[rpc])
  /\ rpc' = Script[rpc]
  /\ UNCHANGED <<begun, requests, answers, returned>>

Initialized ==
  /\ call = NoCall
  /\ \/ rpc \in DOMAIN Script /\ error /\ rpc' = "nil"
     \/ rpc = "startConsumer" /\ rpc' = IF error THEN "nil" ELSE "ready"
  /\ UNCHANGED <<wrapperVars, begun, requests, answers, returned>>

(* callWithBody with the next number; the numbers stand for the            *)
(* correlation ids.                                                        *)
Asking == Len(returned) + 1
CallWithBody ==
  /\ rpc = "ready" /\ call = NoCall /\ Asking <= MaxAsks
  /\ Begin("publish")
  /\ rpc' = "publishing"
  /\ UNCHANGED <<begun, requests, answers, returned>>

AtServer == requests' = requests \union (IF did.done THEN {Asking} ELSE {})

(* What publishMessage returned, and its error, go to the log only.        *)
Published ==
  /\ rpc = "publishing" /\ call = NoCall
  /\ AtServer
  /\ rpc' = "popping"
  /\ UNCHANGED <<wrapperVars, begun, answers, returned>>

(* popWithTimer:15 returns the first message there is.                     *)
PopAnswer ==
  /\ rpc = "popping" /\ answers # <<>>
  /\ returned' = Append(returned, Head(answers)) /\ answers' = Tail(answers)
  /\ rpc' = "ready"
  /\ UNCHANGED <<wrapperVars, begun, requests>>

(* Mutant: a call that gets nothing publishes its request again.           *)
PopNothingRetries ==
  /\ rpc = "popping" /\ call = NoCall
  /\ Begin("publish")
  /\ rpc' = "publishing"
  /\ UNCHANGED <<begun, requests, answers, returned>>

(* Or its timer runs out, before an answer or within it.                   *)
PopNothing ==
  /\ rpc = "popping"
  /\ answers' = answers \/ (answers # <<>> /\ answers' = Tail(answers))
  /\ returned' = Append(returned, 0)
  /\ rpc' = "ready"
  /\ UNCHANGED <<wrapperVars, begun, requests>>

(* A server answers the requests in any order (external).                  *)
ServerAnswers ==
  /\ up /\ \E o \in DOMAIN channels : broker[Number(o)] = "open"
  /\ \E c \in requests : answers' = Append(answers, c) /\ requests' = requests \ {c}
  /\ UNCHANGED <<wrapperVars, begun, rpc, returned>>

-----------------------------------------------------------------------------
AMQPRPCCall ==
  \/ StartRpc \/ GoesOn \/ Initialized
  \/ CallWithBody \/ Published \/ PopAnswer \/ PopNothing

(* The program begins an operation itself if it makes no AMQPRPCCall.      *)
ProgramStep ==
  /\ rpc = "none" /\ begun < MaxBegins
  /\ begun' = begun + 1
  /\ BeginOpen \/ \E op \in Operation : Begin(op)
  /\ UNCHANGED <<rpc, requests, answers, returned>>

WrapperSteps ==
  /\ WrapperStep \/ LineFails
  /\ UNCHANGED <<begun, rpc, requests, answers, returned>>

RpcCallNext == ProgramStep \/ WrapperSteps \/ AMQPRPCCall \/ ServerAnswers

RpcCallSpec == RpcCallInit /\ [][RpcCallNext]_rpcVars

-----------------------------------------------------------------------------
Channel == {nil} \union DOMAIN channels

RpcTypeOK ==
  /\ channels \in Seq([isOpen : BOOLEAN, calls : {"fine", "unseen", "left"}])
  /\ held \in [Holder -> {NoObject} \union Channel]
  /\ held.program # NoObject /\ held.exchange # nil
  /\ result \in {"none", "normal", "library", "server"}
  /\ call \in [op : Operation \union {"open", "none"}, channel : Channel, deep : 0 .. Deep,
               step : {"idle", "reopen", "method", "again", "crashed"}]
  /\ (call.step = "idle") = (call = NoCall)
  /\ error \in BOOLEAN /\ up \in BOOLEAN
  /\ did \in [op : Operation \union {"open", "none"}, told : {"ok", "error", "void"},
              done : BOOLEAN, late : BOOLEAN, silent : BOOLEAN]
  /\ broker \in [0 .. Numbers - 1 -> {"control", "unused", "open", "closing", "closed"}]
  /\ late \subseteq (0 .. Numbers - 1) \X (Operation \union {"open"})
  /\ rpc \in DOMAIN Script \union {"none", "startConsumer", "ready", "publishing", "popping", "nil"}
  /\ begun \in 0 .. MaxBegins
  /\ requests \subseteq 1 .. MaxAsks
  /\ answers \in Seq(1 .. MaxAsks) /\ returned \in Seq(0 .. MaxAsks)

(* An operation that reports success was done, but for three cases: a      *)
(* publish, which reports the result of the call before it; the start of a *)
(* consumer on a channel marked closed; an answer to an earlier call that  *)
(* gave up.  As a failure makes the next operation take another channel,   *)
(* such an answer only reaches a purge, which does not look at the mark,   *)
(* the start of a consumer on a channel left behind by an earlier start,   *)
(* and anything once the channel numbers repeat.                           *)
SuccessIsTrue ==
  /\ did.told = "ok" /\ ~did.done => did.op = "publish" \/ did.silent \/ did.late
  /\ did.told # "void" /\ did.late =>
       did.op \in {"purge", "startConsumer"} \/ Len(channels) > Numbers

(* What an operation returns agrees with the NSError: it sets it when it   *)
(* fails and leaves it unset when it does not, but for unbindFromExchange, *)
(* which loses its error in reopening the channel, and the two operations  *)
(* that never reset one.                                                   *)
ErrorTells ==
  /\ did.told = "error" /\ ~error => did.op = "unbind"
  /\ did.told = "ok" /\ error => did.op \in {"bind", "nameQueue"}

(* A program that checks what its operations return crashes in the library *)
(* only on a queue that a bind or unbind left without a channel, when it   *)
(* failed to reopen the one it had.                                        *)
CrashesOnQueue ==
  call.step = "crashed" =>
    HolderOf[call.op] = "queue" /\ held.queue = nil

(* What the program is told by its operations, if it is told.              *)
ReportsTrue ==
  /\ call = NoCall => SuccessIsTrue /\ ErrorTells
  /\ CrashesOnQueue

(* Between operations, a channel that is marked open is not one the broker *)
(* has closed and told so, unless the result of a call on it was never     *)
(* looked at, the start of a consumer left it for another one, or it       *)
(* shares its number.                                                      *)
MarkedOpenIsOpen ==
  call = NoCall /\ up =>
    \A o \in DOMAIN channels :
      channels[o].isOpen /\ broker[Number(o)] \in {"closed", "unused"} =>
        \/ channels[o].calls # "fine"
        \/ \E p \in DOMAIN channels : p # o /\ Number(p) = Number(o)

(* No answer is returned twice or before it was asked for, and a call      *)
(* returns the answer of another one only after some call came back with   *)
(* nothing: from then on the answers may be off, for as long as the object *)
(* lives.                                                                  *)
AnswerIsOursOrLate ==
  \A k \in DOMAIN returned :
    returned[k] # 0 =>
      /\ returned[k] <= k
      /\ \A j \in DOMAIN returned : j # k => returned[j] # returned[k]
      /\ returned[k] # k => \E i \in 1 .. k - 1 : returned[i] = 0
=============================================================================
