---------------------------- MODULE RpcCallProofs ----------------------------
(***************************************************************************)
(* RpcCall, for any programs, servers, numbers of channels and bounds.     *)
(* First the answers an AMQPRPCCall returns: whatever the wrapper and the  *)
(* broker do, a wrong answer follows a call that came back with nothing.   *)
(* Then what the program is told of its operations, from an invariant of   *)
(* the wrapper: what an operation knows of its channel while it runs, and  *)
(* whose answers may still be under way.                                   *)
(***************************************************************************)
EXTENDS RpcCall, SequenceLemmas, TLAPS

(* The calls whose request may have been published: the one that pops now  *)
(* is the last of them.                                                    *)
Asked == 1 .. IF rpc = "popping" THEN Len(returned) + 1 ELSE Len(returned)

AnswerTypeOK ==
  /\ requests \subseteq Asked
  /\ answers \in Seq(Asked)
  /\ returned \in Seq(Nat)

(* A call is at the server, or its answer is under way, or it was          *)
(* returned, and only one of them.                                         *)
InOnePlace ==
  /\ \A i \in DOMAIN answers :
       /\ answers[i] \notin requests
       /\ \A j \in DOMAIN answers : i # j => answers[i] # answers[j]
       /\ \A k \in DOMAIN returned : returned[k] # answers[i]
  /\ \A k \in DOMAIN returned : returned[k] \notin requests

AnswerInv == AnswerTypeOK /\ InOnePlace /\ AnswerIsOursOrLate

answerVars == <<rpc, requests, answers, returned>>

(* Steps that only move an AMQPRPCCall along before it publishes, or in    *)
(* its publishing, or leave it alone.                                      *)
LEMMA OtherSteps ==
  AnswerInv /\ rpc # "popping" /\ rpc' # "popping" /\ UNCHANGED <<requests, answers, returned>>
    => AnswerInv'
<1> SUFFICES ASSUME AnswerInv, rpc # "popping",
                    rpc' # "popping", UNCHANGED <<requests, answers, returned>>
             PROVE  AnswerInv'
  OBVIOUS
<1>1. Asked' = Asked
  BY DEF Asked
<1>2. AnswerTypeOK'
  BY <1>1 DEF AnswerInv, AnswerTypeOK
<1>3. InOnePlace' /\ AnswerIsOursOrLate'
  BY DEF AnswerInv, InOnePlace, AnswerIsOursOrLate
<1> QED BY <1>2, <1>3 DEF AnswerInv

LEMMA Stutters == AnswerInv /\ UNCHANGED answerVars => AnswerInv'
<1> SUFFICES ASSUME AnswerInv, UNCHANGED answerVars PROVE AnswerInv'
  OBVIOUS
<1>1. Asked' = Asked
  BY DEF Asked, answerVars
<1> QED BY <1>1 DEF answerVars, AnswerInv, AnswerTypeOK, InOnePlace, AnswerIsOursOrLate

(* Publishing asks the next call's question, once.                         *)
LEMMA PublishedStep == AnswerInv /\ Published => AnswerInv'
<1> SUFFICES ASSUME AnswerInv, Published PROVE AnswerInv'
  OBVIOUS
<1> DEFINE n == Len(returned)
<1>1. /\ rpc = "publishing" /\ rpc' = "popping" /\ answers' = answers /\ returned' = returned
      /\ requests' \subseteq requests \union {n + 1}
  BY DEF Published, AtServer, Asking
<1>2. /\ n \in Nat /\ Asked = 1 .. n /\ Asked' = 1 .. n + 1
      /\ requests \subseteq 1 .. n /\ answers \in Seq(1 .. n) /\ returned \in Seq(Nat)
  BY <1>1 DEF AnswerInv, AnswerTypeOK, Asked
<1>3. /\ \A k \in DOMAIN returned : k \in 1 .. n /\ returned[k] <= k /\ returned[k] # n + 1
      /\ \A i \in DOMAIN answers : answers[i] \in 1 .. n
  <2>1. \A k \in DOMAIN returned : k \in 1 .. n /\ returned[k] \in Nat
    BY <1>2
  <2>2. \A k \in DOMAIN returned : returned[k] <= k
    BY <1>2, <2>1 DEF AnswerInv, AnswerIsOursOrLate
  <2>3. \A i \in DOMAIN answers : answers[i] \in 1 .. n
    BY <1>2
  <2> QED BY <1>2, <2>1, <2>2, <2>3
<1>4. AnswerTypeOK'
  <2>1. answers \in Seq(1 .. n + 1)
    BY <1>2, <1>3
  <2>2. requests' \subseteq 1 .. n + 1
    BY <1>1, <1>2
  <2> QED BY <1>1, <1>2, <2>1, <2>2 DEF AnswerTypeOK
<1>5. InOnePlace'
  BY <1>1, <1>2, <1>3 DEF AnswerInv, InOnePlace
<1>6. AnswerIsOursOrLate'
  BY <1>1 DEF AnswerInv, AnswerIsOursOrLate
<1> QED BY <1>4, <1>5, <1>6 DEF AnswerInv

(* The server moves a question to the answers.                             *)
LEMMA AnsweredStep == AnswerInv /\ ServerAnswers => AnswerInv'
<1> SUFFICES ASSUME AnswerInv, ServerAnswers PROVE AnswerInv'
  OBVIOUS
<1>1. PICK c \in requests : answers' = Append(answers, c) /\ requests' = requests \ {c}
  BY DEF ServerAnswers
<1>2. rpc' = rpc /\ returned' = returned /\ Asked' = Asked
  BY DEF ServerAnswers, Asked
<1>3. answers \in Seq(Asked) /\ c \in Asked
  BY DEF AnswerInv, AnswerTypeOK
<1>4. /\ answers' \in Seq(Asked)
      /\ \A i \in DOMAIN answers' :
           \/ i \in DOMAIN answers /\ answers'[i] = answers[i]
           \/ i = Len(answers) + 1 /\ answers'[i] = c
  BY <1>1, <1>3, AppendFacts
<1>5. AnswerTypeOK'
  BY <1>1, <1>2, <1>4 DEF AnswerInv, AnswerTypeOK
<1>6. InOnePlace'
  BY <1>1, <1>2, <1>4 DEF AnswerInv, InOnePlace
<1>7. AnswerIsOursOrLate'
  BY <1>2 DEF AnswerInv, AnswerIsOursOrLate
<1> QED BY <1>5, <1>6, <1>7 DEF AnswerInv

(* As long as no call came back with nothing, each one took its own        *)
(* answer, and nothing else is under way.                                  *)
LEMMA OnlyTheLast ==
  ASSUME AnswerInv, rpc = "popping", \A i \in DOMAIN returned : returned[i] # 0,
         NEW i \in DOMAIN answers
  PROVE  answers[i] = Len(returned) + 1
<1> DEFINE n == Len(returned)
<1>1. n \in Nat /\ DOMAIN returned = 1 .. n /\ answers[i] \in 1 .. n + 1
  BY DEF AnswerInv, AnswerTypeOK, Asked
<1>2. \A k \in 1 .. n : returned[k] = k
  BY <1>1 DEF AnswerInv, AnswerIsOursOrLate
<1>3. \A k \in 1 .. n : answers[i] # k
  BY <1>1, <1>2 DEF AnswerInv, InOnePlace
<1> QED BY <1>1, <1>3

(* The pop returns the first answer, or nothing.                           *)
LEMMA PopAnswerStep == AnswerInv /\ PopAnswer => AnswerInv'
<1> SUFFICES ASSUME AnswerInv, PopAnswer PROVE AnswerInv'
  OBVIOUS
<1> DEFINE n == Len(returned)
           c == Head(answers)
<1>1. /\ rpc = "popping" /\ rpc' = "ready" /\ answers # <<>> /\ requests' = requests
      /\ returned' = Append(returned, c) /\ answers' = Tail(answers)
  BY DEF PopAnswer
<1>2. /\ n \in Nat /\ requests \subseteq 1 .. n + 1 /\ answers \in Seq(1 .. n + 1)
      /\ returned \in Seq(Nat)
  BY <1>1 DEF AnswerInv, AnswerTypeOK, Asked
<1>3. /\ c \in 1 .. n + 1 /\ Tail(answers) \in Seq(1 .. n + 1)
      /\ 1 \in DOMAIN answers /\ c = answers[1]
      /\ \A i \in DOMAIN Tail(answers) :
           i \in Nat \ {0} /\ i + 1 \in DOMAIN answers /\ Tail(answers)[i] = answers[i + 1]
  BY <1>1, <1>2, TailFacts
<1>4. /\ returned' \in Seq(Nat) /\ Len(returned') = n + 1
      /\ DOMAIN returned' = 1 .. n + 1
      /\ \A k \in 1 .. n : k \in DOMAIN returned /\ returned'[k] = returned[k]
      /\ returned'[n + 1] = c
  BY <1>1, <1>2, <1>3
<1>5. AnswerTypeOK'
  BY <1>1, <1>2, <1>3, <1>4 DEF AnswerTypeOK, Asked
<1>6. InOnePlace'
  <2>1. \A k \in 1 .. n + 1 : returned'[k] \notin requests
    <3>1. \A k \in 1 .. n : returned'[k] \notin requests
      BY <1>4 DEF AnswerInv, InOnePlace
    <3>2. returned'[n + 1] \notin requests
      BY <1>3, <1>4 DEF AnswerInv, InOnePlace
    <3> QED BY <1>2, <3>1, <3>2
  <2>2. ASSUME NEW i \in DOMAIN answers'
        PROVE  /\ answers'[i] \notin requests
               /\ \A j \in DOMAIN answers' : i # j => answers'[i] # answers'[j]
               /\ \A k \in 1 .. n + 1 : returned'[k] # answers'[i]
    <3>1. /\ i \in Nat \ {0} /\ i + 1 \in DOMAIN answers /\ answers'[i] = answers[i + 1]
          /\ \A j \in DOMAIN answers' :
               j \in Nat \ {0} /\ j + 1 \in DOMAIN answers /\ answers'[j] = answers[j + 1]
      BY <1>1, <1>3
    <3>2. answers'[i] # c
      BY <1>3, <3>1 DEF AnswerInv, InOnePlace
    <3>3. \A k \in 1 .. n : returned'[k] # answers'[i]
      BY <1>4, <3>1 DEF AnswerInv, InOnePlace
    <3>4. \A k \in 1 .. n + 1 : returned'[k] # answers'[i]
      BY <1>2, <1>4, <3>2, <3>3
    <3>5. \A j \in DOMAIN answers' : i # j => answers'[i] # answers'[j]
      BY <3>1 DEF AnswerInv, InOnePlace
    <3>6. answers'[i] \notin requests
      BY <3>1 DEF AnswerInv, InOnePlace
    <3> QED BY <3>4, <3>5, <3>6
  <2> QED BY <1>1, <1>4, <2>1, <2>2 DEF InOnePlace
<1>7. AnswerIsOursOrLate'
  <2>1. ASSUME NEW k \in 1 .. n, returned[k] # 0
        PROVE  /\ returned[k] <= k
               /\ \A j \in 1 .. n : j # k => returned[j] # returned[k]
               /\ returned[k] # k => \E i \in 1 .. k - 1 : returned[i] = 0
               /\ returned[k] # c
    BY <1>3, <1>4, <2>1 DEF AnswerInv, AnswerIsOursOrLate, InOnePlace
  <2>2. c # n + 1 => \E i \in 1 .. n : returned[i] = 0
    BY <1>1, <1>2, <1>3, <1>4, OnlyTheLast
  <2>3. ASSUME NEW k \in 1 .. n + 1, returned'[k] # 0
        PROVE  /\ returned'[k] <= k
               /\ \A j \in 1 .. n + 1 : j # k => returned'[j] # returned'[k]
               /\ returned'[k] # k => \E i \in 1 .. k - 1 : returned'[i] = 0
    <3>1. CASE k \in 1 .. n
      <4>1. returned'[k] = returned[k] /\ returned[k] # 0
        BY <1>4, <2>3, <3>1
      <4>2. \A j \in 1 .. n : j # k => returned'[j] # returned'[k]
        BY <1>4, <2>1, <3>1, <4>1
      <4>3. returned'[n + 1] # returned'[k]
        BY <1>4, <2>1, <3>1, <4>1
      <4>4. returned[k] # k => \E i \in 1 .. k - 1 : returned'[i] = 0
        <5>1. \A i \in 1 .. k - 1 : i \in 1 .. n
          BY <1>2, <3>1
        <5> QED BY <1>4, <2>1, <3>1, <4>1, <5>1
      <4>5. \A j \in 1 .. n + 1 : j \in 1 .. n \/ j = n + 1
        BY <1>2
      <4> QED BY <2>1, <3>1, <4>1, <4>2, <4>3, <4>4, <4>5
    <3>2. CASE k = n + 1
      <4>1. returned'[k] = c /\ c <= k
        BY <1>2, <1>3, <1>4, <3>2
      <4>2. \A j \in 1 .. n + 1 : j # k => returned'[j] # returned'[k]
        <5>1. ASSUME NEW j \in 1 .. n PROVE returned[j] # c
          BY <1>3, <1>4 DEF AnswerInv, InOnePlace
        <5>2. \A j \in 1 .. n + 1 : j # k => j \in 1 .. n
          BY <1>2, <3>2
        <5> QED BY <1>4, <4>1, <5>1, <5>2
      <4>3. returned'[k] # k => \E i \in 1 .. k - 1 : returned'[i] = 0
        <5>1. k - 1 = n
          BY <1>2, <3>2
        <5> QED BY <1>4, <2>2, <3>2, <4>1, <5>1
      <4> QED BY <4>1, <4>2, <4>3
    <3> QED BY <1>2, <3>1, <3>2
  <2> QED BY <1>4, <2>3 DEF AnswerIsOursOrLate
<1> QED BY <1>5, <1>6, <1>7 DEF AnswerInv

LEMMA PopNothingStep == AnswerInv /\ PopNothing => AnswerInv'
<1> SUFFICES ASSUME AnswerInv, PopNothing PROVE AnswerInv'
  OBVIOUS
<1> DEFINE n == Len(returned)
<1>1. /\ rpc = "popping" /\ rpc' = "ready" /\ requests' = requests
      /\ returned' = Append(returned, 0)
      /\ answers' = answers \/ (answers # <<>> /\ answers' = Tail(answers))
  BY DEF PopNothing
<1>2. /\ n \in Nat /\ requests \subseteq 1 .. n + 1 /\ answers \in Seq(1 .. n + 1)
      /\ returned \in Seq(Nat)
  BY <1>1 DEF AnswerInv, AnswerTypeOK, Asked
<1>3. /\ answers' \in Seq(1 .. n + 1)
      /\ \E d \in {0, 1} : \A i \in DOMAIN answers' :
           i \in Nat /\ i + d \in DOMAIN answers /\ answers'[i] = answers[i + d]
  <2>1. CASE answers' = answers
    BY <1>2, <2>1
  <2>2. CASE answers # <<>> /\ answers' = Tail(answers)
    BY <1>2, <2>2, TailFacts
  <2> QED BY <1>1, <2>1, <2>2
<1>4. /\ returned' \in Seq(Nat) /\ Len(returned') = n + 1
      /\ DOMAIN returned' = 1 .. n + 1
      /\ \A k \in 1 .. n : k \in DOMAIN returned /\ returned'[k] = returned[k]
      /\ returned'[n + 1] = 0
  BY <1>1, <1>2
<1>5. AnswerTypeOK'
  BY <1>1, <1>2, <1>3, <1>4 DEF AnswerTypeOK, Asked
<1>6. InOnePlace'
  <2>1. \A k \in 1 .. n + 1 : returned'[k] \notin requests
    <3>1. \A k \in 1 .. n : returned'[k] \notin requests
      BY <1>4 DEF AnswerInv, InOnePlace
    <3>2. returned'[n + 1] \notin requests
      BY <1>2, <1>4
    <3> QED BY <1>2, <3>1, <3>2
  <2>2. PICK d \in {0, 1} : \A i \in DOMAIN answers' :
          i \in Nat /\ i + d \in DOMAIN answers /\ answers'[i] = answers[i + d]
    BY <1>3
  <2>3. ASSUME NEW i \in DOMAIN answers'
        PROVE  /\ answers'[i] \notin requests
               /\ \A j \in DOMAIN answers' : i # j => answers'[i] # answers'[j]
               /\ \A k \in 1 .. n + 1 : returned'[k] # answers'[i]
    <3>1. answers'[i] \notin requests /\ \A k \in 1 .. n : returned'[k] # answers'[i]
      BY <1>4, <2>2 DEF AnswerInv, InOnePlace
    <3>2. \A j \in DOMAIN answers' : i # j => answers'[i] # answers'[j]
      BY <2>2 DEF AnswerInv, InOnePlace
    <3>3. answers'[i] \in 1 .. n + 1
      BY <1>3
    <3> QED BY <1>2, <1>4, <3>1, <3>2, <3>3
  <2> QED BY <1>1, <1>4, <2>1, <2>3 DEF InOnePlace
<1>7. AnswerIsOursOrLate'
  <2>1. ASSUME NEW k \in 1 .. n, returned[k] # 0
        PROVE  /\ returned[k] <= k
               /\ \A j \in 1 .. n : j # k => returned[j] # returned[k]
               /\ returned[k] # k => \E i \in 1 .. k - 1 : returned[i] = 0
    BY <1>4, <2>1 DEF AnswerInv, AnswerIsOursOrLate
  <2>2. ASSUME NEW k \in 1 .. n + 1, returned'[k] # 0
        PROVE  /\ returned'[k] <= k
               /\ \A j \in 1 .. n + 1 : j # k => returned'[j] # returned'[k]
               /\ returned'[k] # k => \E i \in 1 .. k - 1 : returned'[i] = 0
    <3>1. k \in 1 .. n
      BY <1>2, <1>4, <2>2
    <3>2. returned'[k] = returned[k] /\ returned[k] # 0
      BY <1>4, <2>2, <3>1
    <3>3. \A j \in 1 .. n + 1 : j \in 1 .. n \/ j = n + 1
      BY <1>2
    <3>4. \A i \in 1 .. k - 1 : i \in 1 .. n
      BY <1>2, <3>1
    <3>5. \A j \in 1 .. n + 1 : j # k => returned'[j] # returned'[k]
      BY <1>4, <2>1, <2>2, <3>1, <3>2, <3>3
    <3> QED BY <1>4, <2>1, <3>1, <3>2, <3>4, <3>5
  <2> QED BY <1>4, <2>2 DEF AnswerIsOursOrLate
<1> QED BY <1>5, <1>6, <1>7 DEF AnswerInv

(* Every other step of the program and its objects.                        *)
LEMMA ProgramSteps ==
  AnswerInv /\ (ProgramStep \/ WrapperSteps \/ StartRpc \/ GoesOn \/ Initialized \/ CallWithBody)
    => AnswerInv'
<1>1. AnswerInv /\ (ProgramStep \/ WrapperSteps) => AnswerInv'
  BY Stutters DEF ProgramStep, WrapperSteps, answerVars
<1>2. AnswerInv /\ StartRpc => AnswerInv'
  BY OtherSteps DEF StartRpc
<1>3. AnswerInv /\ GoesOn => AnswerInv'
  BY OtherSteps DEF GoesOn, Script
<1>4. AnswerInv /\ Initialized => AnswerInv'
  BY OtherSteps DEF Initialized, Script
<1>5. AnswerInv /\ CallWithBody => AnswerInv'
  BY OtherSteps DEF CallWithBody
<1> QED BY <1>1, <1>2, <1>3, <1>4, <1>5

LEMMA AnswerInit == RpcCallInit => AnswerInv
  BY DEF RpcCallInit, AnswerInv, AnswerTypeOK, InOnePlace, AnswerIsOursOrLate, Asked

LEMMA AnswerStep == AnswerInv /\ [RpcCallNext]_rpcVars => AnswerInv'
<1> SUFFICES ASSUME AnswerInv, [RpcCallNext]_rpcVars PROVE AnswerInv'
  OBVIOUS
<1>1. CASE AMQPRPCCall
  BY <1>1, ProgramSteps, PublishedStep, PopAnswerStep, PopNothingStep DEF AMQPRPCCall
<1>2. CASE ProgramStep \/ WrapperSteps
  BY <1>2, ProgramSteps
<1>3. CASE ServerAnswers
  BY <1>3, AnsweredStep
<1>4. CASE UNCHANGED rpcVars
  BY <1>4, Stutters DEF rpcVars, answerVars
<1> QED BY <1>1, <1>2, <1>3, <1>4 DEF RpcCallNext

(* callWithBody (AMQPRPCCall.m:43-66) returns no answer twice or early,    *)
(* and the answer of another call only after some call came back with      *)
(* nothing.                                                                *)
THEOREM AnswersAreOursOrLate == RpcCallSpec => []AnswerIsOursOrLate
<1>1. RpcCallInit => AnswerInv
  BY AnswerInit
<1>2. AnswerInv /\ [RpcCallNext]_rpcVars => AnswerInv'
  BY AnswerStep
<1>3. AnswerInv => AnswerIsOursOrLate
  BY DEF AnswerInv
<1> QED BY <1>1, <1>2, <1>3, PTL DEF RpcCallSpec

-----------------------------------------------------------------------------
(* What an operation knows while it runs: the objects it works on, and     *)
(* that nothing has been told of it yet.                                   *)
QueueOps == {"bind", "unbind", "purge", "destroyQueue"}
ProgramOps ==
  {"declareExchange", "nameExchange", "declareQueue", "nameQueue", "startConsumer", "setupBasicQOS",
   "close"}

WrapperTyped ==
  /\ channels \in Seq([isOpen : BOOLEAN, calls : {"fine", "unseen", "left"}])
  /\ held \in [Holder -> {NoObject} \union Channel]
  /\ held.program # NoObject /\ held.exchange # nil
  /\ result \in {"none", "normal", "library", "server"}
  /\ call \in [op : Operation \union {"open", "none"}, channel : Channel, deep : 0 .. Deep,
               step : {"idle", "reopen", "method", "again", "crashed"}]
  /\ (call.step = "idle") = (call = NoCall)
  /\ error \in BOOLEAN /\ up \in BOOLEAN
  /\ did \in [op : Operation \union {"open", "none"}, told : {"ok", "error", "void"},
              done : BOOLEAN, late : BOOLEAN, silent : BOOLEAN]
  /\ broker \in [0 .. Numbers - 1 -> {"control", "unused", "open", "closing", "closed"}]
  /\ late \subseteq (0 .. Numbers - 1) \X (Operation \union {"open"})

CallInv ==
  /\ call.op = "none" => call = NoCall
  /\ call.op = "open" => call.step = "reopen"
  /\ call.step = "reopen" => call.op \in Reopens \union {"open", "startConsumer"}
  /\ call.step = "again" => call.op = "unbind" /\ call.channel # nil
  /\ call.step = "crashed" => call.channel = nil /\ call.op # "closeConsumer"
  /\ call.op \in ProgramOps => call.channel # nil /\ held.program # nil
  /\ call.op \in {"publish", "destroyExchange"} => call.channel # nil
  /\ call.op \in QueueOps => call.channel = held.queue
  /\ call.op = "closeConsumer" /\ call.step = "method" => call.channel # nil
  /\ call.step = "method" /\ call.op \in Reopens \ {"publish"} /\ call.channel # nil =>
       channels[call.channel].isOpen

ToldInv ==
  /\ call # NoCall => did = NothingDone
  /\ call # NoCall /\ error => call.op \in KeepsError \union NoError

(* An answer that is under way belongs to a channel there is.  If it could *)
(* mislead a declaration, a bind or an unbind, that channel is marked.     *)
Misled == {"declareExchange", "declareQueue", "bind", "unbind"}
LateInv ==
  \A l \in late :
    /\ l[2] = "open" => \E o \in DOMAIN channels : Number(o) = l[1]
    /\ l[2] \in Misled /\ Len(channels) <= Numbers =>
         \E o \in DOMAIN channels : Number(o) = l[1] /\ ~channels[o].isOpen

(* A channel that is marked open, whose number is its own and whose calls  *)
(* were looked at, is open at the broker, or about to be closed by it.     *)
OwnNumber(o) == \A p \in DOMAIN channels : Number(p) = Number(o) => p = o
OpenInv ==
  up => \A o \in DOMAIN channels :
          channels[o].isOpen /\ channels[o].calls = "fine" /\ OwnNumber(o) =>
            broker[Number(o)] \notin {"closed", "unused"}

WrapperInv == WrapperTyped /\ CallInv /\ ToldInv /\ LateInv /\ OpenInv /\ SuccessIsTrue /\ ErrorTells

-----------------------------------------------------------------------------
(* Channel numbers: they repeat after Numbers channels.                    *)
LEMMA NumberIsNumber == \A o \in Nat : Number(o) \in 0 .. Numbers - 1
<1>1. Numbers \in Nat \ {0}
  BY WrapperAssumption
<1>2. \A x \in Nat, y \in Nat \ {0} : x % y \in 0 .. y - 1
  OBVIOUS
<1> QED BY <1>1, <1>2 DEF Number

LEMMA NumbersRepeatLate ==
  ASSUME NEW o \in Nat, NEW p \in Nat, o < p, Number(o) = Number(p)
  PROVE  o + Numbers <= p
<1> DEFINE N == Numbers
           a == o \div N
           b == p \div N
<1>1. N \in Nat \ {0}
  BY WrapperAssumption
<1>2. /\ a \in Nat /\ b \in Nat
      /\ o = a * N + (o % N) /\ p = b * N + (p % N)
      /\ o % N \in Nat /\ o % N = p % N
  <2>1. \A x \in Nat, y \in Nat \ {0} :
          x \div y \in Nat /\ x = (x \div y) * y + (x % y) /\ x % y \in Nat
    OBVIOUS
  <2> QED BY <1>1, <2>1 DEF Number
<1> HIDE DEF a, b, N
<1>3. a * N \in Nat /\ b * N \in Nat /\ a * N < b * N
  BY <1>1, <1>2
<1>4. a < b
  <2>1. ASSUME b <= a PROVE b * N <= a * N
    <3>1. PICK c \in Nat : a = b + c
      <4>1. a - b \in Nat /\ a = b + (a - b)
        BY <1>2, <2>1
      <4> QED BY <4>1
    <3>2. a * N = b * N + c * N /\ c * N \in Nat
      BY <1>1, <1>2, <3>1
    <3> QED BY <1>3, <3>2
  <2> QED BY <1>2, <1>3, <2>1
<1>5. a * N + N <= b * N
  <2>1. PICK c \in Nat : b = a + 1 + c
    <3>1. b - (a + 1) \in Nat /\ b = a + 1 + (b - (a + 1))
      BY <1>2, <1>4
    <3> QED BY <3>1
  <2>2. b * N = a * N + N + c * N /\ c * N \in Nat
    BY <1>1, <1>2, <2>1
  <2> QED BY <1>1, <1>3, <2>2
<1>6. o + N <= p
  BY <1>1, <1>2, <1>3, <1>5
<1> QED BY <1>6 DEF N

(* What a call of the library may do to the broker's view.                 *)
LEMMA RpcFacts ==
  ASSUME WrapperTyped, NEW n \in 0 .. Numbers - 1, NEW method \in Operation \union {"open"},
         NEW r \in {"normal", "library", "server"}, NEW done \in BOOLEAN, NEW stale \in BOOLEAN,
         Rpc(n, method, r, done, stale)
  PROVE  /\ r = "normal" => done \/ stale
         /\ stale => r = "normal" /\ <<n, method>> \in late
         /\ broker' \in [0 .. Numbers - 1 -> {"control", "unused", "open", "closing", "closed"}]
         /\ late' \subseteq (0 .. Numbers - 1) \X (Operation \union {"open"})
         /\ up' \in BOOLEAN
<1> DEFINE B == {"control", "unused", "open", "closing", "closed"}
           K == 0 .. Numbers - 1
           L == K \X (Operation \union {"open"})
<1>1. broker \in [K -> B] /\ late \subseteq L /\ up \in BOOLEAN
  BY DEF WrapperTyped
<1>2. ASSUME broker' = After(n, method) PROVE broker' \in [K -> B]
  BY <1>1, <1>2 DEF After
<1>3. <<n, method>> \in L
  OBVIOUS
<1>4. CASE r = "normal" /\ done /\ ~stale /\ Answered(n, method)
  BY <1>1, <1>2, <1>4 DEF Answered, Elsewhere
<1>5. CASE r = "normal" /\ stale /\ AnsweredLate(n, method, done)
  BY <1>1, <1>2, <1>5 DEF AnsweredLate
<1>6. CASE r = "server" /\ ~done /\ ~stale /\ ChannelCloses(n, method)
  BY <1>1, <1>6 DEF ChannelCloses, Elsewhere
<1>7. CASE r = "server" /\ ~done /\ ~stale /\ up /\ ConnectionCloses
  BY <1>1, <1>7 DEF ConnectionCloses
<1>8. CASE r = "library" /\ ~stale /\ Unanswered(n, method, done)
  <2>1. \A l \in late' : l \in late \/ l = <<n, method>>
    BY <1>8 DEF Unanswered
  <2>2. late' \subseteq L
    BY <1>1, <1>3, <2>1
  <2> QED BY <1>1, <1>2, <1>8, <2>1, <2>2 DEF Unanswered
<1> QED BY <1>4, <1>5, <1>6, <1>7, <1>8 DEF Rpc

(* And what it leaves as it was.                                           *)
LEMMA RpcEffects ==
  ASSUME WrapperTyped, NEW n \in 0 .. Numbers - 1, NEW method \in Operation \union {"open"},
         NEW r \in {"normal", "library", "server"}, NEW done \in BOOLEAN, NEW stale \in BOOLEAN,
         Rpc(n, method, r, done, stale)
  PROVE  /\ \A l \in late' : l \in late \/ (l = <<n, method>> /\ r = "library")
         /\ up' => up
         /\ up' => \A m \in 0 .. Numbers - 1 : m # n => broker'[m] = broker[m]
         /\ up' /\ method = "open" => broker'[n] = "open" \/ (broker'[n] = broker[n] /\ ~done)
         /\ up' /\ method \notin {"open", "close"} /\ r # "server" => broker'[n] = broker[n]
<1> DEFINE B == {"control", "unused", "open", "closing", "closed"}
           K == 0 .. Numbers - 1
<1>1. broker \in [K -> B] /\ up \in BOOLEAN
  BY DEF WrapperTyped
<1>2. ASSUME broker' = After(n, method)
      PROVE  /\ \A m \in K : m # n => broker'[m] = broker[m]
             /\ method = "open" => broker'[n] = "open"
             /\ method \notin {"open", "close"} => broker'[n] = broker[n]
  BY <1>1, <1>2 DEF After
<1>3. CASE r = "normal" /\ done /\ ~stale /\ Answered(n, method)
  BY <1>1, <1>2, <1>3 DEF Answered, Elsewhere
<1>4. CASE r = "normal" /\ stale /\ AnsweredLate(n, method, done)
  BY <1>1, <1>2, <1>4 DEF AnsweredLate
<1>5. CASE r = "server" /\ ~done /\ ~stale /\ ChannelCloses(n, method)
  BY <1>1, <1>5 DEF ChannelCloses, Elsewhere
<1>6. CASE r = "server" /\ ~done /\ ~stale /\ up /\ ConnectionCloses
  BY <1>1, <1>6 DEF ConnectionCloses
<1>7. CASE r = "library" /\ ~stale /\ Unanswered(n, method, done)
  BY <1>1, <1>2, <1>7 DEF Unanswered
<1> QED BY <1>3, <1>4, <1>5, <1>6, <1>7 DEF Rpc

-----------------------------------------------------------------------------
(* Channels are only marked: none is marked open again.                    *)
OnlyMarked ==
  /\ DOMAIN channels' = DOMAIN channels /\ Len(channels') = Len(channels)
  /\ \A o \in DOMAIN channels :
       /\ channels'[o].isOpen => channels[o].isOpen
       /\ channels'[o].calls = "fine" => channels[o].calls = "fine"

ChannelRecord == [isOpen : BOOLEAN, calls : {"fine", "unseen", "left"}]

LEMMA ChannelTypes ==
  ASSUME WrapperTyped
  PROVE  /\ channels \in Seq(ChannelRecord) /\ Len(channels) \in Nat
         /\ DOMAIN channels = 1 .. Len(channels)
         /\ \A o \in DOMAIN channels : o \in Nat \ {0} /\ channels[o] \in ChannelRecord
         /\ \A o \in Channel : o = nil \/ o \in DOMAIN channels
<1>1. channels \in Seq(ChannelRecord)
  BY DEF WrapperTyped, ChannelRecord
<1>2. Len(channels) \in Nat /\ DOMAIN channels = 1 .. Len(channels)
  BY <1>1, LenProperties
<1>3. \A o \in 1 .. Len(channels) : o \in Nat \ {0} /\ channels[o] \in ChannelRecord
  BY <1>1, <1>2, ElementOfSeq
<1>4. \A o \in Channel : o = nil \/ o \in DOMAIN channels
  BY DEF Channel
<1> QED BY <1>1, <1>2, <1>3, <1>4

LEMMA MarkFacts ==
  ASSUME WrapperTyped, NEW o \in DOMAIN channels
  PROVE  /\ Marked(o) \in Seq(ChannelRecord)
         /\ [channels EXCEPT ![o].calls = "unseen"] \in Seq(ChannelRecord)
         /\ [channels EXCEPT ![o].calls = "left"] \in Seq(ChannelRecord)
         /\ \A cs \in {Marked(o), [channels EXCEPT ![o].calls = "unseen"],
                       [channels EXCEPT ![o].calls = "left"], channels} :
              channels' = cs => OnlyMarked /\ Channel' = Channel
         /\ ~Marked(o)[o].isOpen
         /\ [channels EXCEPT ![o].calls = "unseen"][o].calls # "fine"
         /\ [channels EXCEPT ![o].calls = "left"][o].calls # "fine"
<1>1. /\ channels \in Seq(ChannelRecord) /\ DOMAIN channels = 1 .. Len(channels) /\ Len(channels) \in Nat
      /\ \A p \in DOMAIN channels : channels[p] \in ChannelRecord
  BY ChannelTypes
<1>2. ASSUME NEW e \in ChannelRecord
      PROVE  /\ [channels EXCEPT ![o] = e] \in Seq(ChannelRecord)
             /\ Len([channels EXCEPT ![o] = e]) = Len(channels)
             /\ DOMAIN [channels EXCEPT ![o] = e] = DOMAIN channels
             /\ [channels EXCEPT ![o] = e][o] = e
             /\ \A p \in DOMAIN channels : p # o => [channels EXCEPT ![o] = e][p] = channels[p]
  BY <1>1, ExceptSeq
<1> DEFINE a == [channels[o] EXCEPT !.isOpen = FALSE]
           b == [channels[o] EXCEPT !.calls = "unseen"]
           c == [channels[o] EXCEPT !.calls = "left"]
<1>3. /\ a \in ChannelRecord /\ b \in ChannelRecord /\ c \in ChannelRecord
      /\ ~a.isOpen /\ a.calls = channels[o].calls
      /\ b.isOpen = channels[o].isOpen /\ b.calls = "unseen"
      /\ c.isOpen = channels[o].isOpen /\ c.calls = "left"
  BY <1>1 DEF ChannelRecord
<1>4. /\ Marked(o) = [channels EXCEPT ![o] = a]
      /\ [channels EXCEPT ![o].calls = "unseen"] = [channels EXCEPT ![o] = b]
      /\ [channels EXCEPT ![o].calls = "left"] = [channels EXCEPT ![o] = c]
  BY DEF Marked
<1> HIDE DEF a, b, c
<1>5. ASSUME NEW e \in {a, b, c}, channels' = [channels EXCEPT ![o] = e]
      PROVE  OnlyMarked /\ Channel' = Channel
  BY <1>2, <1>3, <1>5 DEF OnlyMarked, Channel
<1>6. channels' = channels => OnlyMarked /\ Channel' = Channel
  BY DEF OnlyMarked, Channel
<1> QED BY <1>2, <1>3, <1>4, <1>5, <1>6

LEMMA MarksKeep ==
  ASSUME WrapperTyped, LateInv, OpenInv, OnlyMarked, UNCHANGED brokerState
  PROVE  LateInv' /\ OpenInv'
<1>1. UNCHANGED <<up, broker, late>>
  BY DEF brokerState
<1>2. LateInv'
  BY <1>1 DEF LateInv, OnlyMarked
<1>3. OpenInv'
  <2>1. \A o \in DOMAIN channels : OwnNumber(o)' => OwnNumber(o)
    BY DEF OwnNumber, OnlyMarked
  <2> QED BY <1>1, <2>1 DEF OpenInv, OnlyMarked
<1> QED BY <1>2, <1>3

LEMMA LineDown ==
  ASSUME ConnectionCloses
  PROVE  LateInv' /\ OpenInv'
BY DEF ConnectionCloses, LateInv, OpenInv

(* A call on the channel o, unless its failure is not noticed.             *)
LEMMA CallKeeps ==
  ASSUME WrapperTyped, LateInv, OpenInv, OnlyMarked, NEW o \in DOMAIN channels,
         NEW method \in Operation, NEW r \in {"normal", "library", "server"}, NEW done \in BOOLEAN, NEW stale \in BOOLEAN,
         Rpc(Number(o), method, r, done, stale),
         r = "library" /\ method \in Misled => ~channels'[o].isOpen,
         r = "server" \/ method = "close" => ~channels'[o].isOpen \/ channels'[o].calls # "fine"
  PROVE  LateInv' /\ OpenInv'
<1>1. Number(o) \in 0 .. Numbers - 1 /\ \A p \in DOMAIN channels : Number(p) \in 0 .. Numbers - 1
  BY NumberIsNumber, ChannelTypes
<1>2. /\ \A l \in late' : l \in late \/ (l = <<Number(o), method>> /\ r = "library")
      /\ up' => up
      /\ up' => \A m \in 0 .. Numbers - 1 : m # Number(o) => broker'[m] = broker[m]
      /\ up' /\ method # "close" /\ r # "server" => broker'[Number(o)] = broker[Number(o)]
  <2>1. method # "open"
    BY DEF Operation, HolderOf
  <2>2. method \in Operation \union {"open"}
    OBVIOUS
  <2>3. PICK n \in 0 .. Numbers - 1 : n = Number(o)
    BY <1>1
  <2>4. Rpc(n, method, r, done, stale)
    BY <2>3
  <2>5. \A l \in late' : l \in late \/ (l = <<n, method>> /\ r = "library")
    BY <2>2, <2>4, RpcEffects
  <2>6. up' => up
    BY <2>2, <2>4, RpcEffects
  <2>7. up' => \A m \in 0 .. Numbers - 1 : m # n => broker'[m] = broker[m]
    BY <2>2, <2>4, RpcEffects
  <2>8. up' /\ method \notin {"open", "close"} /\ r # "server" => broker'[n] = broker[n]
    BY <2>2, <2>4, RpcEffects
  <2> QED BY <2>1, <2>3, <2>5, <2>6, <2>7, <2>8
<1>3. LateInv'
  <2> SUFFICES ASSUME NEW l \in late'
               PROVE  /\ l[2] = "open" => \E p \in DOMAIN channels' : Number(p) = l[1]
                      /\ l[2] \in Misled /\ Len(channels') <= Numbers =>
                           \E p \in DOMAIN channels' : Number(p) = l[1] /\ ~channels'[p].isOpen
    BY DEF LateInv
  <2>1. CASE l \in late
    BY <2>1 DEF LateInv, OnlyMarked
  <2>2. CASE l = <<Number(o), method>> /\ r = "library"
    BY <2>2 DEF OnlyMarked
  <2> QED BY <1>2, <2>1, <2>2
<1>4. OpenInv'
  <2> SUFFICES ASSUME up', NEW p \in DOMAIN channels', channels'[p].isOpen, channels'[p].calls = "fine",
                      OwnNumber(p)'
               PROVE  broker'[Number(p)] \notin {"closed", "unused"}
    BY DEF OpenInv
  <2>1. /\ p \in DOMAIN channels /\ channels[p].isOpen /\ channels[p].calls = "fine" /\ OwnNumber(p)
        /\ up
    BY <1>2 DEF OnlyMarked, OwnNumber
  <2>2. broker[Number(p)] \notin {"closed", "unused"}
    BY <2>1 DEF OpenInv
  <2>3. CASE p = o
    BY <1>2, <2>2, <2>3
  <2>4. CASE p # o
    <3>1. Number(p) # Number(o)
      BY <2>1, <2>4 DEF OwnNumber
    <3> QED BY <1>1, <1>2, <2>1, <2>2, <3>1
  <2> QED BY <2>3, <2>4
<1> QED BY <1>3, <1>4

(* A publish, which takes a channel down later or not at all.              *)
LEMMA PublishKeeps ==
  ASSUME WrapperTyped, LateInv, OpenInv, OnlyMarked, NEW n \in 0 .. Numbers - 1,
         NEW done \in BOOLEAN, BasicPublish(n, done)
  PROVE  /\ LateInv' /\ OpenInv'
         /\ broker' \in [0 .. Numbers - 1 -> {"control", "unused", "open", "closing", "closed"}]
         /\ late' \subseteq (0 .. Numbers - 1) \X (Operation \union {"open"})
         /\ up' \in BOOLEAN
<1>1. CASE ConnectionCloses
  BY <1>1, LineDown DEF ConnectionCloses, WrapperTyped
<1>2. CASE UNCHANGED brokerState
  BY <1>2, MarksKeep DEF brokerState, WrapperTyped
<1>3. CASE /\ up /\ broker[n] = "open" /\ broker' = [broker EXCEPT ![n] = "closing"]
           /\ UNCHANGED <<up, late>>
  <2>1. /\ broker' \in [0 .. Numbers - 1 -> {"control", "unused", "open", "closing", "closed"}]
        /\ \A m \in 0 .. Numbers - 1 : broker'[m] = broker[m] \/ broker'[m] = "closing"
    BY <1>3 DEF WrapperTyped
  <2>2. LateInv'
    BY <1>3 DEF LateInv, OnlyMarked
  <2>3. \A o \in DOMAIN channels : Number(o) \in 0 .. Numbers - 1
    BY NumberIsNumber, ChannelTypes
  <2>4. \A o \in DOMAIN channels : OwnNumber(o)' => OwnNumber(o)
    BY DEF OwnNumber, OnlyMarked
  <2>5. OpenInv'
    BY <1>3, <2>1, <2>3, <2>4 DEF OpenInv, OnlyMarked
  <2> QED BY <1>3, <2>1, <2>2, <2>5 DEF WrapperTyped
<1> QED BY <1>1, <1>2, <1>3 DEF BasicPublish

(* A channel is opened.                                                    *)
LEMMA OpenFacts ==
  ASSUME WrapperTyped, NEW r \in {"normal", "library", "server"}, NEW done \in BOOLEAN, NEW stale \in BOOLEAN, OpenChannel(r, done, stale)
  PROVE  /\ Opening /\ (call.op = "open" \/ call.channel # nil)
         /\ Opened \in Nat \ {0} /\ Number(Opened) \in 0 .. Numbers - 1
         /\ Rpc(Number(Opened), "open", r, done, stale) /\ result' = r
         /\ channels' \in Seq(ChannelRecord) /\ Len(channels') = Opened
         /\ DOMAIN channels' = DOMAIN channels \union {Opened} /\ Opened \notin DOMAIN channels
         /\ \A o \in DOMAIN channels : o < Opened /\ channels'[o] = channels[o]
         /\ channels'[Opened].isOpen <=> r = "normal"
         /\ channels'[Opened].calls = "fine"
         /\ Channel' = Channel \union {Opened} /\ Opened # nil
<1>1. /\ channels \in Seq(ChannelRecord) /\ Len(channels) \in Nat /\ DOMAIN channels = 1 .. Len(channels)
  BY ChannelTypes
<1>2. /\ Opening /\ (call.op = "open" \/ call.channel # nil)
      /\ Rpc(Number(Opened), "open", r, done, stale) /\ result' = r
      /\ channels' = Append(channels, [isOpen |-> r = "normal", calls |-> "fine"])
  BY DEF OpenChannel
<1>3. Opened \in Nat \ {0} /\ Number(Opened) \in 0 .. Numbers - 1 /\ Opened # nil
  BY <1>1, NumberIsNumber DEF Opened, nil
<1>5. [isOpen |-> r = "normal", calls |-> "fine"] \in ChannelRecord
  BY DEF ChannelRecord
<1>6. /\ channels' \in Seq(ChannelRecord) /\ Len(channels') = Len(channels) + 1
      /\ \A o \in 1 .. Len(channels) : channels'[o] = channels[o]
      /\ channels'[Len(channels) + 1] = [isOpen |-> r = "normal", calls |-> "fine"]
  BY <1>1, <1>2, <1>5, AppendProperties
<1>7. DOMAIN channels' = 1 .. Len(channels) + 1
  BY <1>6, LenProperties
<1>8. /\ DOMAIN channels' = DOMAIN channels \union {Opened} /\ Opened \notin DOMAIN channels
      /\ \A o \in DOMAIN channels : o < Opened
  BY <1>1, <1>7 DEF Opened
<1>9. \A o \in DOMAIN channels : channels'[o] = channels[o]
  BY <1>1, <1>6
<1>10. (channels'[Opened].isOpen <=> r = "normal") /\ channels'[Opened].calls = "fine"
  <2>1. channels'[Opened] = [isOpen |-> r = "normal", calls |-> "fine"]
    BY <1>6 DEF Opened
  <2>2. PICK b \in BOOLEAN : b = (r = "normal")
    OBVIOUS
  <2>3. channels'[Opened] = [isOpen |-> b, calls |-> "fine"]
    BY <2>1, <2>2
  <2>4. channels'[Opened].isOpen = b /\ channels'[Opened].calls = "fine"
    BY <2>3
  <2> QED BY <2>2, <2>4
<1>11. Channel' = Channel \union {Opened}
  BY <1>8 DEF Channel
<1>12. Len(channels') = Opened
  BY <1>6 DEF Opened
<1> QED BY <1>2, <1>3, <1>6, <1>8, <1>9, <1>10, <1>11, <1>12

LEMMA OpenKeeps ==
  ASSUME WrapperTyped, LateInv, OpenInv, NEW r \in {"normal", "library", "server"}, NEW done \in BOOLEAN, NEW stale \in BOOLEAN,
         OpenChannel(r, done, stale)
  PROVE  /\ LateInv' /\ OpenInv'
         /\ stale => Len(channels') > Numbers
<1>0. PICK n : n = Number(Opened)
  OBVIOUS
<1>1. /\ Opened \in Nat \ {0} /\ n \in 0 .. Numbers - 1
      /\ Rpc(n, "open", r, done, stale)
      /\ Len(channels') = Opened
      /\ DOMAIN channels' = DOMAIN channels \union {Opened} /\ Opened \notin DOMAIN channels
      /\ \A o \in DOMAIN channels : o < Opened /\ channels'[o] = channels[o]
      /\ channels'[Opened].isOpen <=> r = "normal"
  BY <1>0, OpenFacts
<1>2. /\ r = "normal" => done \/ stale
      /\ stale => r = "normal" /\ <<n, "open">> \in late
      /\ \A l \in late' : l \in late \/ (l = <<n, "open">> /\ r = "library")
      /\ up' => up
      /\ up' => \A m \in 0 .. Numbers - 1 : m # n => broker'[m] = broker[m]
      /\ up' => broker'[n] = "open" \/ (broker'[n] = broker[n] /\ ~done)
  <2>1. "open" \in Operation \union {"open"}
    OBVIOUS
  <2>2. /\ r = "normal" => done \/ stale
        /\ stale => r = "normal" /\ <<n, "open">> \in late
        /\ \A l \in late' : l \in late \/ (l = <<n, "open">> /\ r = "library")
        /\ up' => up
        /\ up' => \A m \in 0 .. Numbers - 1 : m # n => broker'[m] = broker[m]
        /\ up' /\ "open" = "open" => broker'[n] = "open" \/ (broker'[n] = broker[n] /\ ~done)
    BY <1>1, <2>1, RpcFacts, RpcEffects
  <2> QED BY <2>2
<1>3. \A o \in DOMAIN channels : o \in Nat \ {0} /\ Number(o) \in 0 .. Numbers - 1
  BY NumberIsNumber, ChannelTypes
<1>4. stale => \E o \in DOMAIN channels : Number(o) = n
  BY <1>2 DEF LateInv
<1>5. stale => Len(channels') > Numbers
  <2> SUFFICES ASSUME stale PROVE Opened > Numbers
    BY <1>1
  <2>1. PICK o \in DOMAIN channels : Number(o) = n
    BY <1>4
  <2>2. o + Numbers <= Opened
    BY <1>1, <1>3, <2>1, NumbersRepeatLate, <1>0
  <2> QED BY <1>1, <1>3, <2>2, WrapperAssumption
<1>6. LateInv'
  <2> SUFFICES ASSUME NEW l \in late'
               PROVE  /\ l[2] = "open" => \E p \in DOMAIN channels' : Number(p) = l[1]
                      /\ l[2] \in Misled /\ Len(channels') <= Numbers =>
                           \E p \in DOMAIN channels' : Number(p) = l[1] /\ ~channels'[p].isOpen
    BY DEF LateInv
  <2>1. CASE l \in late
    <3>1. Len(channels') <= Numbers => Len(channels) <= Numbers
      BY <1>1, ChannelTypes, WrapperAssumption DEF Opened
    <3> QED BY <1>1, <2>1, <3>1 DEF LateInv
  <2>2. CASE l = <<n, "open">>
    BY <1>1, <2>2, <1>0 DEF Misled
  <2> QED BY <1>2, <2>1, <2>2
<1>7. OpenInv'
  <2> SUFFICES ASSUME up', NEW p \in DOMAIN channels', channels'[p].isOpen, channels'[p].calls = "fine",
                      OwnNumber(p)'
               PROVE  broker'[Number(p)] \notin {"closed", "unused"}
    BY DEF OpenInv
  <2>1. \A o \in DOMAIN channels' : Number(o) = Number(p) => o = p
    BY DEF OwnNumber
  <2>2. CASE p = Opened
    <3>1. ~stale
      BY <1>1, <1>4, <2>1, <2>2, <1>0
    <3>2. r = "normal"
      BY <1>1, <2>2
    <3> QED BY <1>2, <2>2, <3>1, <3>2, <1>0
  <2>3. CASE p \in DOMAIN channels
    <3>1. Number(p) # n
      BY <1>1, <2>1, <2>3, <1>0
    <3>2. channels[p].isOpen /\ channels[p].calls = "fine" /\ OwnNumber(p)
      BY <1>1, <2>1, <2>3 DEF OwnNumber
    <3> QED BY <1>2, <1>3, <2>3, <3>1, <3>2 DEF OpenInv
  <2> QED BY <1>1, <2>2, <2>3
<1> QED BY <1>5, <1>6, <1>7

-----------------------------------------------------------------------------
LEMMA OperationFacts ==
  /\ Operation = QueueOps \union ProgramOps \union {"publish", "destroyExchange", "closeConsumer"}
  /\ \A op \in Operation :
       /\ HolderOf[op] \in Holder
       /\ op \in ProgramOps => HolderOf[op] = "program"
       /\ op \in QueueOps => HolderOf[op] = "queue"
       /\ op \in {"publish", "destroyExchange"} => HolderOf[op] = "exchange"
       /\ Method(op) \in Operation
       /\ Method(op) = "close" => op \in {"close", "closeConsumer"}
       /\ op # "closeConsumer" => Method(op) = op
       /\ Method(op) \in Misled => op \in Misled
<1>1. Operation = QueueOps \union ProgramOps \union {"publish", "destroyExchange", "closeConsumer"}
  BY DEF Operation, HolderOf, QueueOps, ProgramOps
<1>2. \A op \in Operation :
        /\ HolderOf[op] \in Holder
        /\ op \in ProgramOps => HolderOf[op] = "program"
        /\ op \in QueueOps => HolderOf[op] = "queue"
        /\ op \in {"publish", "destroyExchange"} => HolderOf[op] = "exchange"
  BY <1>1 DEF HolderOf, Holder, QueueOps, ProgramOps
<1>3. \A op \in Operation :
        /\ Method(op) \in Operation
        /\ Method(op) = "close" => op \in {"close", "closeConsumer"}
        /\ op # "closeConsumer" => Method(op) = op
        /\ Method(op) \in Misled => op \in Misled
  BY <1>1 DEF Method, ProgramOps, Misled
<1> QED BY <1>1, <1>2, <1>3

(* The types, one by one.                                                  *)
ObjectsTyped ==
  /\ channels \in Seq(ChannelRecord)
  /\ held \in [Holder -> {NoObject} \union Channel] /\ held.program # NoObject /\ held.exchange # nil
CallTyped ==
  /\ call \in [op : Operation \union {"open", "none"}, channel : Channel, deep : 0 .. Deep,
               step : {"idle", "reopen", "method", "again", "crashed"}]
  /\ (call.step = "idle") = (call = NoCall)
DidTyped ==
  did \in [op : Operation \union {"open", "none"}, told : {"ok", "error", "void"},
           done : BOOLEAN, late : BOOLEAN, silent : BOOLEAN]
BrokerTyped ==
  /\ up \in BOOLEAN
  /\ broker \in [0 .. Numbers - 1 -> {"control", "unused", "open", "closing", "closed"}]
  /\ late \subseteq (0 .. Numbers - 1) \X (Operation \union {"open"})

ResultTyped == error \in BOOLEAN /\ result \in {"none", "normal", "library", "server"}

LEMMA TypedParts ==
  WrapperTyped <=> ObjectsTyped /\ CallTyped /\ DidTyped /\ BrokerTyped /\ ResultTyped
BY DEF WrapperTyped, ObjectsTyped, CallTyped, DidTyped, BrokerTyped, ResultTyped, ChannelRecord

LEMMA TypedAgain ==
  ASSUME ObjectsTyped', CallTyped', DidTyped', BrokerTyped', ResultTyped'
  PROVE  WrapperTyped'
BY DEF WrapperTyped, ObjectsTyped, CallTyped, DidTyped, BrokerTyped, ResultTyped, ChannelRecord

LEMMA NoCallTyped ==
  /\ NoCall \in [op : Operation \union {"open", "none"}, channel : Channel, deep : 0 .. Deep,
                 step : {"idle", "reopen", "method", "again", "crashed"}]
  /\ NothingDone \in [op : Operation \union {"open", "none"}, told : {"ok", "error", "void"},
                      done : BOOLEAN, late : BOOLEAN, silent : BOOLEAN]
BY WrapperAssumption DEF NoCall, NothingDone, Channel

(* Once an operation has ended, only what it told is left to say.          *)
LEMMA FinishFacts ==
  ASSUME WrapperTyped, NEW told \in {"ok", "error", "void"}, NEW done \in BOOLEAN, NEW stale \in BOOLEAN,
         Finish(told, done, stale)
  PROVE  /\ CallTyped' /\ DidTyped' /\ CallInv' /\ ToldInv'
         /\ did'.op = call.op /\ did'.told = told /\ did'.done = done /\ did'.late = stale
         /\ ~did'.silent
<1>1. call' = NoCall
  BY DEF Finish
<1>2. CallTyped'
  BY <1>1, WrapperAssumption DEF CallTyped, NoCall, Channel
<1>3. CallInv' /\ ToldInv'
  BY <1>1 DEF CallInv, ToldInv, NoCall, Reopens, ProgramOps, QueueOps
<1>4. call.op \in Operation \union {"open", "none"}
  BY DEF WrapperTyped
<1>5. /\ DidTyped'
      /\ did'.op = call.op /\ did'.told = told /\ did'.done = done /\ did'.late = stale
      /\ did'.silent = FALSE
  BY <1>4 DEF DidTyped, Finish
<1> QED BY <1>2, <1>3, <1>5

(* Nothing is told while an operation runs.                                *)
LEMMA NothingTold ==
  ASSUME did' = NothingDone
  PROVE  DidTyped' /\ SuccessIsTrue' /\ ErrorTells'
<1>1. DidTyped'
  BY DEF DidTyped, NothingDone
<1>2. SuccessIsTrue' /\ ErrorTells'
  BY DEF SuccessIsTrue, ErrorTells, NothingDone
<1> QED BY <1>1, <1>2

-----------------------------------------------------------------------------
(* Each step of the wrapper.                                               *)
LEMMA BeginKeeps == ASSUME WrapperInv, NEW op \in Operation, Begin(op) PROVE WrapperInv'
<1>1. PICK o : o = held[HolderOf[op]]
  OBVIOUS
<1>2. WrapperTyped /\ CallInv /\ ToldInv /\ LateInv /\ OpenInv
  BY DEF WrapperInv
<1>3. /\ call = NoCall /\ o # NoObject /\ (HolderOf[op] = "program" => o # nil)
      /\ call' = [op |-> op, channel |-> o, deep |-> IF op = "startConsumer" THEN Deep ELSE 0,
                  step |-> IF op \in Reopens /\ ~IsOpen(o) THEN "reopen" ELSE "method"]
      /\ channels' = IF op = "close" THEN Marked(o) ELSE channels
      /\ did' = NothingDone /\ UNCHANGED <<held, result, brokerState>>
  BY <1>1 DEF Begin, Marked
<1>4. error' \in BOOLEAN /\ (error' => op \in KeepsError \union NoError)
  <2>1. error \in BOOLEAN
    BY <1>2 DEF WrapperTyped
  <2>2. CASE op \in KeepsError
    BY <2>1, <2>2 DEF Begin
  <2>3. CASE op \notin KeepsError /\ op \in NoError
    BY <2>1, <2>3 DEF Begin
  <2>4. CASE op \notin KeepsError /\ op \notin NoError
    BY <2>4 DEF Begin
  <2> QED BY <2>2, <2>3, <2>4
<1>5. HolderOf[op] \in Holder
  BY OperationFacts
<1>6. o \in Channel /\ (o = nil \/ o \in DOMAIN channels)
  BY <1>1, <1>2, <1>3, <1>5, ChannelTypes DEF WrapperTyped
<1>7. op = "close" => o \in DOMAIN channels
  BY <1>3, <1>6, OperationFacts DEF ProgramOps
<1>8. OnlyMarked /\ Channel' = Channel /\ channels' \in Seq(ChannelRecord)
  <2>1. CASE op = "close"
    BY <1>2, <1>3, <1>7, <2>1, MarkFacts
  <2>2. CASE op # "close"
    BY <1>2, <1>3, <2>2, ChannelTypes DEF OnlyMarked, Channel
  <2> QED BY <2>1, <2>2
<1>9. LateInv' /\ OpenInv'
  BY <1>2, <1>3, <1>8, MarksKeep
<1>10. DidTyped' /\ SuccessIsTrue' /\ ErrorTells'
  BY <1>3, NothingTold
<1>11. /\ call'.op = op /\ call'.channel = o /\ call'.step \in {"reopen", "method"}
       /\ call'.step = "reopen" <=> op \in Reopens /\ ~IsOpen(o)
       /\ call' # NoCall /\ op \notin {"none", "open"}
       /\ call'.deep \in 0 .. Deep
  <2>1. op \notin {"none", "open"}
    BY OperationFacts DEF QueueOps, ProgramOps
  <2>2. call'.deep \in 0 .. Deep
    BY <1>3, WrapperAssumption
  <2> QED BY <1>3, <2>1, <2>2 DEF NoCall
<1>12. CallTyped'
  <2>1. call' \in [op : Operation \union {"open", "none"}, channel : Channel, deep : 0 .. Deep,
                   step : {"idle", "reopen", "method", "again", "crashed"}]
    BY <1>3, <1>6, <1>11
  <2>2. (call'.step = "idle") = (call' = NoCall)
    BY <1>11
  <2> QED BY <1>8, <2>1, <2>2 DEF CallTyped
<1>13. WrapperTyped'
  <2>1. ObjectsTyped'
    BY <1>2, <1>3, <1>8 DEF ObjectsTyped, WrapperTyped
  <2>2. BrokerTyped' /\ ResultTyped'
    BY <1>2, <1>3, <1>4 DEF BrokerTyped, ResultTyped, WrapperTyped, brokerState
  <2> QED BY <1>10, <1>12, <2>1, <2>2, TypedAgain
<1>14. CallInv'
  <2>1. op \in ProgramOps => o # nil /\ held'.program = o
    BY <1>1, <1>3, OperationFacts
  <2>2. op \in {"publish", "destroyExchange"} => o # nil
    BY <1>1, <1>2, OperationFacts DEF WrapperTyped
  <2>3. op \in QueueOps => o = held'.queue
    BY <1>1, <1>3, OperationFacts
  <2>4. call'.step = "method" /\ op \in Reopens => o # nil /\ channels'[o].isOpen
    <3>1. op \in Reopens => op # "close"
      BY DEF Reopens
    <3> QED BY <1>3, <1>11, <3>1 DEF IsOpen
  <2> QED BY <1>11, <2>1, <2>2, <2>3, <2>4 DEF CallInv, Reopens
<1>15. ToldInv'
  BY <1>3, <1>4, <1>11 DEF ToldInv
<1> QED BY <1>9, <1>10, <1>13, <1>14, <1>15 DEF WrapperInv

LEMMA BeginOpenKeeps == WrapperInv /\ BeginOpen => WrapperInv'
<1> SUFFICES ASSUME WrapperInv, BeginOpen PROVE WrapperInv'
  OBVIOUS
<1>1. WrapperTyped /\ CallInv /\ ToldInv /\ LateInv /\ OpenInv
  BY DEF WrapperInv
<1>2. /\ call' = [op |-> "open", step |-> "reopen", channel |-> nil, deep |-> 0]
      /\ error' = FALSE /\ did' = NothingDone
      /\ channels' = channels /\ UNCHANGED <<held, result, brokerState>>
  BY DEF BeginOpen
<1>3. OnlyMarked /\ Channel' = Channel
  BY <1>2 DEF OnlyMarked, Channel
<1>4. LateInv' /\ OpenInv'
  BY <1>1, <1>2, <1>3, MarksKeep
<1>5. DidTyped' /\ SuccessIsTrue' /\ ErrorTells'
  BY <1>2, NothingTold
<1>6. CallTyped' /\ CallInv' /\ ToldInv'
  BY <1>2, WrapperAssumption DEF CallTyped, CallInv, ToldInv, NoCall, Channel, ProgramOps, QueueOps
<1>7. ObjectsTyped'
  BY <1>1, <1>2, <1>3, TypedParts DEF ObjectsTyped
<1>8. BrokerTyped' /\ ResultTyped'
  BY <1>1, <1>2 DEF BrokerTyped, ResultTyped, WrapperTyped, brokerState
<1>9. WrapperTyped'
  BY <1>5, <1>6, <1>7, <1>8, TypedAgain
<1> QED BY <1>4, <1>5, <1>6, <1>9 DEF WrapperInv

(* What opening a channel for an operation leaves to say.                  *)
LEMMA OpeningFacts ==
  ASSUME WrapperInv, NEW r \in {"normal", "library", "server"}, NEW done \in BOOLEAN, NEW stale \in BOOLEAN,
         OpenChannel(r, done, stale)
  PROVE  /\ BrokerTyped' /\ LateInv' /\ OpenInv'
         /\ result' = r
         /\ r = "normal" => done \/ stale
         /\ stale => Len(channels') > Numbers
         /\ call # NoCall /\ did = NothingDone
         /\ call.step = "again" => call.op = "unbind"
         /\ call.op # "unbind" => call.step = "reopen"
         /\ call.op \in {"open", "startConsumer", "unbind"} \union Reopens
         /\ call.op # "open" => call.channel # nil
<1>1. WrapperTyped /\ CallInv /\ ToldInv /\ LateInv /\ OpenInv
  BY DEF WrapperInv
<1>2. LateInv' /\ OpenInv' /\ (stale => Len(channels') > Numbers)
  BY <1>1, OpenKeeps
<1>3. /\ Opening /\ (call.op = "open" \/ call.channel # nil) /\ result' = r
      /\ Number(Opened) \in 0 .. Numbers - 1 /\ Rpc(Number(Opened), "open", r, done, stale)
  BY <1>1, OpenFacts
<1>4. PICK n \in 0 .. Numbers - 1 : n = Number(Opened)
  BY <1>3
<1>5. Rpc(n, "open", r, done, stale) /\ "open" \in Operation \union {"open"}
  BY <1>3, <1>4
<1>6. broker' \in [0 .. Numbers - 1 -> {"control", "unused", "open", "closing", "closed"}]
  BY <1>1, <1>5, RpcFacts
<1>7. late' \subseteq (0 .. Numbers - 1) \X (Operation \union {"open"})
  BY <1>1, <1>5, RpcFacts
<1>8. up' \in BOOLEAN /\ (r = "normal" => done \/ stale)
  BY <1>1, <1>5, RpcFacts
<1>9. /\ call # NoCall
      /\ call.step = "again" => call.op = "unbind"
      /\ call.op # "unbind" => call.step = "reopen"
      /\ call.op \in {"open", "startConsumer", "unbind"} \union Reopens
  BY <1>1, <1>3 DEF Opening, CallInv, NoCall
<1>10. did = NothingDone
  BY <1>1, <1>9 DEF ToldInv
<1> QED BY <1>2, <1>3, <1>6, <1>7, <1>8, <1>9, <1>10 DEF BrokerTyped

LEMMA ReopenedKeeps == WrapperInv /\ Reopened => WrapperInv'
<1> SUFFICES ASSUME WrapperInv, Reopened PROVE WrapperInv'
  OBVIOUS
<1>1. PICK done \in BOOLEAN, stale \in BOOLEAN :
        /\ OpenChannel("normal", done, stale)
        /\ CASE call.op = "open" -> Finish("ok", done, stale)
             [] call.op = "closeConsumer" -> Finish("void", FALSE, FALSE)
             [] call.step = "again" -> Finish("error", FALSE, FALSE)
             [] OTHER -> /\ call' = [call EXCEPT !.channel = ReopenedFor(call.op), !.step = "method"]
                         /\ did' = did
  BY DEF Reopened
<1>2. WrapperTyped /\ CallInv /\ ToldInv
  BY DEF WrapperInv
<1>3. /\ BrokerTyped' /\ LateInv' /\ OpenInv' /\ result' = "normal"
      /\ done \/ stale
      /\ stale => Len(channels') > Numbers
      /\ call # NoCall /\ did = NothingDone
      /\ call.step = "again" => call.op = "unbind"
      /\ call.op # "unbind" => call.step = "reopen"
      /\ call.op \in {"open", "startConsumer", "unbind"} \union Reopens
      /\ call.op # "open" => call.channel # nil
  <2>1. "normal" \in {"normal", "library", "server"}
    OBVIOUS
  <2> QED BY <1>1, <2>1, OpeningFacts
<1>4. /\ channels' \in Seq(ChannelRecord)
      /\ DOMAIN channels' = DOMAIN channels \union {Opened}
      /\ channels'[Opened].isOpen
      /\ Channel' = Channel \union {Opened} /\ Opened # nil /\ Opened \in Nat
  BY <1>1, <1>2, OpenFacts
<1>5. ObjectsTyped' /\ held'.program # NoObject
  <2>1. /\ held \in [Holder -> {NoObject} \union Channel]
        /\ held.program # NoObject /\ held.exchange # nil
    BY <1>2 DEF WrapperTyped
  <2>2. Opened # NoObject
    BY <1>4 DEF NoObject
  <2>3. /\ held' \in [Holder -> {NoObject} \union Channel \union {Opened}]
        /\ held'.program # NoObject /\ held'.exchange # nil
    BY <2>1, <2>2 DEF Reopened, Holder
  <2> QED BY <1>4, <2>3 DEF ObjectsTyped
<1>6. ResultTyped'
  <2>1. error' \in BOOLEAN
    BY <1>2 DEF Reopened, WrapperTyped
  <2> QED BY <1>3, <2>1 DEF ResultTyped
<1>7. /\ CallTyped' /\ DidTyped' /\ CallInv' /\ ToldInv' /\ SuccessIsTrue' /\ ErrorTells'
  <2>1. CASE call.op = "open"
    <3>1. Finish("ok", done, stale) /\ error' = FALSE
      BY <1>1, <1>3, <2>1 DEF Reopened
    <3>2. CallTyped' /\ DidTyped' /\ CallInv' /\ ToldInv'
      BY <1>2, <3>1, FinishFacts
    <3>3. did'.told = "ok" /\ did'.done = done /\ did'.late = stale
      BY <1>2, <3>1, FinishFacts
    <3>4. SuccessIsTrue' /\ ErrorTells'
      BY <1>3, <3>1, <3>3 DEF SuccessIsTrue, ErrorTells
    <3> QED BY <3>2, <3>4
  <2>2. CASE call.op = "closeConsumer"
    <3>1. Finish("void", FALSE, FALSE)
      BY <1>1, <1>3, <2>2
    <3>2. CallTyped' /\ DidTyped' /\ CallInv' /\ ToldInv' /\ did'.told = "void"
      BY <1>2, <3>1, FinishFacts
    <3>3. SuccessIsTrue' /\ ErrorTells'
      BY <3>2 DEF SuccessIsTrue, ErrorTells
    <3> QED BY <3>2, <3>3
  <2>3. CASE call.op \notin {"open", "closeConsumer"} /\ call.step = "again"
    <3>1. Finish("error", FALSE, FALSE) /\ call.op = "unbind"
      BY <1>1, <1>3, <2>3
    <3>2. CallTyped' /\ DidTyped' /\ CallInv' /\ ToldInv'
      BY <1>2, <3>1, FinishFacts
    <3>3. did'.told = "error" /\ did'.op = "unbind" /\ did'.late = FALSE
      BY <1>2, <3>1, FinishFacts
    <3>4. SuccessIsTrue' /\ ErrorTells'
      BY <3>3 DEF SuccessIsTrue, ErrorTells
    <3> QED BY <3>2, <3>4
  <2>4. CASE call.op \notin {"open", "closeConsumer"} /\ call.step # "again"
    <3>1. /\ call' = [call EXCEPT !.channel = ReopenedFor(call.op), !.step = "method"]
          /\ did' = NothingDone /\ error' = FALSE
      BY <1>1, <1>3, <2>4 DEF Reopened
    <3>2. DidTyped' /\ SuccessIsTrue' /\ ErrorTells'
      BY <3>1, NothingTold
    <3>3. call \in [op : Operation \union {"open", "none"}, channel : Channel, deep : 0 .. Deep,
                    step : {"idle", "reopen", "method", "again", "crashed"}]
      BY <1>2 DEF WrapperTyped
    <3>4. /\ call'.op = call.op /\ call'.step = "method" /\ call'.channel = ReopenedFor(call.op)
          /\ call'.deep = call.deep /\ call' # NoCall
          /\ ReopenedFor(call.op) \in Channel' /\ ReopenedFor(call.op) # nil
          /\ call.op # "publish" => ReopenedFor(call.op) = Opened
      BY <1>3, <1>4, <2>4, <3>1, <3>3 DEF NoCall, ReopenedFor
    <3>5. CallTyped'
      <4>1. call' \in [op : Operation \union {"open", "none"}, channel : Channel', deep : 0 .. Deep,
                       step : {"idle", "reopen", "method", "again", "crashed"}]
        BY <3>1, <3>3, <3>4
      <4> QED BY <3>4, <4>1 DEF CallTyped
    <3>6. ToldInv'
      BY <3>1 DEF ToldInv
    <3>7. /\ call.op \in ProgramOps => held'.program # nil
          /\ call.op \in QueueOps => held'.queue = Opened
      <4>1. held \in [Holder -> {NoObject} \union Channel]
        BY <1>2 DEF WrapperTyped
      <4>2. call.op \in QueueOps => call.op \in {"bind", "unbind"}
        BY <1>3 DEF QueueOps, Reopens
      <4>3. call.op \in QueueOps => held'.queue = Opened
        BY <2>4, <4>1, <4>2 DEF Reopened, Holder
      <4>4. call.op \in ProgramOps => held'.program = held.program
        BY <2>4, <4>1 DEF Reopened, Holder, ProgramOps
      <4>5. call.op \in ProgramOps => held.program # nil
        BY <1>2 DEF CallInv
      <4> QED BY <4>3, <4>4, <4>5
    <3>8. CallInv'
      <4>1. call.op \notin {"none", "open", "closeConsumer"}
        BY <1>3, <2>4 DEF Reopens
      <4>2. call.op # "publish" => call'.channel = Opened /\ channels'[Opened].isOpen
        BY <1>4, <3>4
      <4>3. call.op \in QueueOps => call'.channel = held'.queue
        BY <3>4, <3>7 DEF QueueOps
      <4>4. call'.channel # nil
        BY <3>4
      <4> QED BY <3>4, <3>7, <4>1, <4>2, <4>3, <4>4 DEF CallInv
    <3> QED BY <3>2, <3>5, <3>6, <3>8
  <2> QED BY <2>1, <2>2, <2>3, <2>4
<1>8. WrapperTyped'
  BY <1>3, <1>5, <1>6, <1>7, TypedAgain
<1> QED BY <1>3, <1>7, <1>8 DEF WrapperInv

LEMMA ReopenFailsKeeps == WrapperInv /\ ReopenFails => WrapperInv'
<1> SUFFICES ASSUME WrapperInv, ReopenFails PROVE WrapperInv'
  OBVIOUS
<1>1. PICK r \in {"library", "server"}, done \in BOOLEAN : OpenChannel(r, done, FALSE)
  BY DEF ReopenFails
<1>2. WrapperTyped /\ CallInv
  BY DEF WrapperInv
<1>3. r \in {"normal", "library", "server"}
  OBVIOUS
<1>4. /\ BrokerTyped' /\ LateInv' /\ OpenInv' /\ result' = r
      /\ call.op \in {"open", "startConsumer", "unbind"} \union Reopens
  BY <1>1, <1>3, OpeningFacts
<1>5. channels' \in Seq(ChannelRecord) /\ Channel' = Channel \union {Opened}
  BY <1>1, <1>2, <1>3, OpenFacts
<1>6. /\ held \in [Holder -> {NoObject} \union Channel]
      /\ held.program # NoObject /\ held.exchange # nil /\ nil \in Channel /\ nil # NoObject
  BY <1>2 DEF WrapperTyped, Channel, nil, NoObject
<1>7. \/ \E h \in [Holder -> {NoObject} \union Channel] :
             FailsWith(h) /\ h.program # NoObject /\ h.exchange # nil
      \/ /\ call.op = "closeConsumer" /\ held' = [held EXCEPT !.consumer = nil]
         /\ error' = error /\ Finish("void", FALSE, FALSE)
  <2>1. CASE call.op = "open"
    <3>1. FailsWith([held EXCEPT !.program = nil])
      BY <2>1 DEF ReopenFails
    <3>2. PICK h : h = [held EXCEPT !.program = nil]
      OBVIOUS
    <3>3. h \in [Holder -> {NoObject} \union Channel] /\ h.program # NoObject /\ h.exchange # nil
      BY <1>6, <3>2 DEF Holder
    <3> QED BY <3>1, <3>2, <3>3
  <2>2. CASE call.op \in {"declareExchange", "nameExchange"}
    <3>1. FailsWith([held EXCEPT !.exchange = NoObject])
      BY <2>2 DEF ReopenFails
    <3>2. PICK h : h = [held EXCEPT !.exchange = NoObject]
      OBVIOUS
    <3>3. h \in [Holder -> {NoObject} \union Channel] /\ h.program # NoObject /\ h.exchange # nil
      BY <1>6, <3>2 DEF Holder
    <3> QED BY <3>1, <3>2, <3>3
  <2>3. CASE call.op \in {"declareQueue", "nameQueue"}
    <3>1. FailsWith([held EXCEPT !.queue = NoObject])
      BY <2>3 DEF ReopenFails
    <3>2. PICK h : h = [held EXCEPT !.queue = NoObject]
      OBVIOUS
    <3>3. h \in [Holder -> {NoObject} \union Channel] /\ h.program # NoObject /\ h.exchange # nil
      BY <1>6, <3>2 DEF Holder
    <3> QED BY <3>1, <3>2, <3>3
  <2>4. CASE call.op = "startConsumer"
    <3>1. FailsWith([held EXCEPT !.consumer = NoObject])
      BY <2>4 DEF ReopenFails
    <3>2. PICK h : h = [held EXCEPT !.consumer = NoObject]
      OBVIOUS
    <3>3. h \in [Holder -> {NoObject} \union Channel] /\ h.program # NoObject /\ h.exchange # nil
      BY <1>6, <3>2 DEF Holder
    <3> QED BY <3>1, <3>2, <3>3
  <2>5. CASE call.op = "publish"
    <3>1. FailsWith(held)
      BY <2>5 DEF ReopenFails
    <3> QED BY <1>6, <3>1
  <2>6. CASE call.op \in {"bind", "unbind"}
    <3>1. FailsWith([held EXCEPT !.queue = nil])
      BY <2>6 DEF ReopenFails
    <3>2. PICK h : h = [held EXCEPT !.queue = nil]
      OBVIOUS
    <3>3. h \in [Holder -> {NoObject} \union Channel] /\ h.program # NoObject /\ h.exchange # nil
      BY <1>6, <3>2 DEF Holder
    <3> QED BY <3>1, <3>2, <3>3
  <2>7. CASE call.op = "closeConsumer"
    BY <2>7 DEF ReopenFails
  <2> QED BY <1>4, <2>1, <2>2, <2>3, <2>4, <2>5, <2>6, <2>7 DEF Reopens
<1>8. CASE \E h \in [Holder -> {NoObject} \union Channel] :
             FailsWith(h) /\ h.program # NoObject /\ h.exchange # nil
  <2>1. PICK h \in [Holder -> {NoObject} \union Channel] :
               FailsWith(h) /\ h.program # NoObject /\ h.exchange # nil
    BY <1>8
  <2>2. held' = h /\ error' = TRUE /\ Finish("error", FALSE, FALSE)
    BY <2>1 DEF FailsWith
  <2>3. CallTyped' /\ DidTyped' /\ CallInv' /\ ToldInv'
    BY <1>2, <2>2, FinishFacts
  <2>4. did'.told = "error" /\ did'.late = FALSE
    BY <1>2, <2>2, FinishFacts
  <2>5. SuccessIsTrue' /\ ErrorTells'
    BY <2>2, <2>4 DEF SuccessIsTrue, ErrorTells
  <2>6. ObjectsTyped' /\ ResultTyped'
    BY <1>3, <1>4, <1>5, <2>1, <2>2 DEF ObjectsTyped, ResultTyped
  <2> QED BY <1>4, <2>3, <2>5, <2>6, TypedAgain DEF WrapperInv
<1>9. CASE /\ call.op = "closeConsumer" /\ held' = [held EXCEPT !.consumer = nil]
           /\ error' = error /\ Finish("void", FALSE, FALSE)
  <2>1. CallTyped' /\ DidTyped' /\ CallInv' /\ ToldInv' /\ did'.told = "void"
    BY <1>2, <1>9, FinishFacts
  <2>2. SuccessIsTrue' /\ ErrorTells'
    BY <2>1 DEF SuccessIsTrue, ErrorTells
  <2>3. held' \in [Holder -> {NoObject} \union Channel] /\ held'.program # NoObject /\ held'.exchange # nil
    BY <1>6, <1>9 DEF Holder
  <2>4. ObjectsTyped'
    BY <1>5, <2>3 DEF ObjectsTyped
  <2>5. ResultTyped'
    BY <1>2, <1>3, <1>4, <1>9 DEF ResultTyped, WrapperTyped
  <2> QED BY <1>4, <2>1, <2>2, <2>4, <2>5, TypedAgain DEF WrapperInv
<1> QED BY <1>7, <1>8, <1>9

(* Steps that touch neither channels nor the broker.                       *)
LEMMA LocalSteps ==
  ASSUME WrapperInv, UNCHANGED <<channels, result, error, brokerState>>
  PROVE  /\ LateInv' /\ OpenInv' /\ BrokerTyped' /\ ResultTyped' /\ Channel' = Channel
         /\ channels' \in Seq(ChannelRecord)
         /\ held' \in [Holder -> {NoObject} \union Channel] /\ held'.program # NoObject
              /\ held'.exchange # nil => ObjectsTyped'
<1>1. WrapperTyped /\ LateInv /\ OpenInv
  BY DEF WrapperInv
<1>2. OnlyMarked /\ Channel' = Channel
  BY DEF OnlyMarked, Channel
<1>3. LateInv' /\ OpenInv'
  BY <1>1, <1>2, MarksKeep
<1>4. BrokerTyped' /\ ResultTyped' /\ channels' \in Seq(ChannelRecord)
  BY <1>1 DEF WrapperTyped, BrokerTyped, ResultTyped, brokerState, ChannelRecord
<1>5. held' \in [Holder -> {NoObject} \union Channel] /\ held'.program # NoObject
        /\ held'.exchange # nil => ObjectsTyped'
  BY <1>2, <1>4 DEF ObjectsTyped
<1> QED BY <1>2, <1>3, <1>4, <1>5

LEMMA ReopensNilKeeps == WrapperInv /\ ReopensNil => WrapperInv'
<1> SUFFICES ASSUME WrapperInv, ReopensNil PROVE WrapperInv'
  OBVIOUS
<1>1. /\ Opening /\ call.op # "open" /\ call.channel = nil
      /\ UNCHANGED <<channels, held, result, error, brokerState>>
  BY DEF ReopensNil
<1>2. WrapperTyped /\ CallInv /\ ToldInv
  BY DEF WrapperInv
<1>3. /\ LateInv' /\ OpenInv' /\ BrokerTyped' /\ ResultTyped' /\ Channel' = Channel
      /\ ObjectsTyped'
  BY <1>1, <1>2, LocalSteps DEF WrapperTyped
<1>4. call.step = "reopen" /\ call # NoCall /\ did = NothingDone
  BY <1>1, <1>2 DEF Opening, CallInv, ToldInv, NoCall
<1>5. CASE call.op = "closeConsumer"
  <2>1. Finish("void", FALSE, FALSE)
    BY <1>5 DEF ReopensNil
  <2>2. CallTyped' /\ DidTyped' /\ CallInv' /\ ToldInv' /\ did'.told = "void"
    BY <1>2, <2>1, FinishFacts
  <2>3. SuccessIsTrue' /\ ErrorTells'
    BY <2>2 DEF SuccessIsTrue, ErrorTells
  <2> QED BY <1>3, <2>2, <2>3, TypedAgain DEF WrapperInv
<1>6. CASE call.op # "closeConsumer" /\ error
  <2>1. Finish("error", FALSE, FALSE)
    BY <1>6 DEF ReopensNil
  <2>2. CallTyped' /\ DidTyped' /\ CallInv' /\ ToldInv'
    BY <1>2, <2>1, FinishFacts
  <2>3. did'.told = "error" /\ did'.late = FALSE
    BY <1>2, <2>1, FinishFacts
  <2>4. SuccessIsTrue' /\ ErrorTells'
    BY <1>1, <1>6, <2>3 DEF SuccessIsTrue, ErrorTells
  <2> QED BY <1>3, <2>2, <2>4, TypedAgain DEF WrapperInv
<1>7. CASE call.op # "closeConsumer" /\ ~error
  <2>1. call' = [call EXCEPT !.step = "method"] /\ did' = NothingDone
    BY <1>4, <1>7 DEF ReopensNil
  <2>2. DidTyped' /\ SuccessIsTrue' /\ ErrorTells'
    BY <2>1, NothingTold
  <2>3. call \in [op : Operation \union {"open", "none"}, channel : Channel, deep : 0 .. Deep,
                  step : {"idle", "reopen", "method", "again", "crashed"}]
    BY <1>2 DEF WrapperTyped
  <2>4. /\ call'.op = call.op /\ call'.step = "method" /\ call'.channel = nil
        /\ call' # NoCall /\ call.op # "none"
    BY <1>1, <1>2, <1>4, <2>1, <2>3 DEF NoCall, CallInv
  <2>5. CallTyped'
    BY <1>3, <2>1, <2>3, <2>4 DEF CallTyped
  <2>6. ToldInv'
    BY <1>1, <1>7, <2>1 DEF ToldInv
  <2>7. CallInv'
    BY <1>1, <1>2, <1>7, <2>4 DEF CallInv
  <2> QED BY <1>3, <2>2, <2>5, <2>6, <2>7, TypedAgain DEF WrapperInv
<1> QED BY <1>5, <1>6, <1>7

LEMMA CrashKeeps == WrapperInv /\ Crashes => WrapperInv'
<1> SUFFICES ASSUME WrapperInv, Crashes PROVE WrapperInv'
  OBVIOUS
<1>1. /\ call.step = "method" /\ call.channel = nil /\ call' = [call EXCEPT !.step = "crashed"]
      /\ UNCHANGED <<channels, held, result, error, did, brokerState>>
  BY DEF Crashes
<1>2. WrapperTyped /\ CallInv /\ ToldInv
  BY DEF WrapperInv
<1>3. LateInv' /\ OpenInv' /\ BrokerTyped' /\ ResultTyped' /\ Channel' = Channel /\ ObjectsTyped'
  BY <1>1, <1>2, LocalSteps DEF WrapperTyped
<1>4. call \in [op : Operation \union {"open", "none"}, channel : Channel, deep : 0 .. Deep,
                step : {"idle", "reopen", "method", "again", "crashed"}]
  BY <1>2 DEF WrapperTyped
<1>5. /\ call'.op = call.op /\ call'.step = "crashed" /\ call'.channel = nil
      /\ call # NoCall /\ call' # NoCall /\ call.op \notin {"none", "closeConsumer", "open"}
  BY <1>1, <1>2, <1>4 DEF NoCall, CallInv
<1>6. did' = NothingDone
  BY <1>1, <1>2, <1>5 DEF ToldInv
<1>7. DidTyped' /\ SuccessIsTrue' /\ ErrorTells'
  BY <1>6, NothingTold
<1>8. CallTyped'
  BY <1>1, <1>3, <1>4, <1>5 DEF CallTyped
<1>9. ToldInv'
  BY <1>1, <1>2, <1>5, <1>6 DEF ToldInv
<1>10. CallInv'
  BY <1>1, <1>2, <1>5 DEF CallInv
<1> QED BY <1>3, <1>7, <1>8, <1>9, <1>10, TypedAgain DEF WrapperInv

LEMMA NamedKeeps == WrapperInv /\ (Named \/ NotStarted) => WrapperInv'
<1> SUFFICES ASSUME WrapperInv, Named \/ NotStarted PROVE WrapperInv'
  OBVIOUS
<1>1. call.step = "method" /\ UNCHANGED <<channels, result, error, brokerState>>
  BY DEF Named, NotStarted
<1>2. WrapperTyped /\ CallInv /\ ToldInv
  BY DEF WrapperInv
<1>3. /\ LateInv' /\ OpenInv' /\ BrokerTyped' /\ ResultTyped' /\ Channel' = Channel
      /\ held' \in [Holder -> {NoObject} \union Channel] /\ held'.program # NoObject
           /\ held'.exchange # nil => ObjectsTyped'
  BY <1>1, LocalSteps
<1>4. /\ held \in [Holder -> {NoObject} \union Channel] /\ held.program # NoObject /\ held.exchange # nil
      /\ call.channel \in Channel /\ call # NoCall
  BY <1>1, <1>2 DEF WrapperTyped, NoCall
<1>5. call.op \in {"nameExchange", "startConsumer"} => ~error
  BY <1>2, <1>4 DEF ToldInv, KeepsError, NoError, Unchecked
<1>6. CASE Named
  <2>1. call.op \in {"nameExchange", "nameQueue"} /\ Finish("ok", TRUE, FALSE)
    BY <1>6 DEF Named
  <2>2. CallTyped' /\ DidTyped' /\ CallInv' /\ ToldInv'
    BY <1>2, <2>1, FinishFacts
  <2>3. did'.told = "ok" /\ did'.op = call.op /\ did'.done = TRUE /\ did'.late = FALSE
    BY <1>2, <2>1, FinishFacts
  <2>4. SuccessIsTrue' /\ ErrorTells'
    BY <1>1, <1>5, <2>1, <2>3 DEF SuccessIsTrue, ErrorTells
  <2>5. ObjectsTyped'
    <3>1. call.channel # nil
      BY <1>2, <2>1 DEF CallInv, ProgramOps
    <3>2. CASE call.op = "nameQueue"
      <4>1. held' = [held EXCEPT !["queue"] = call.channel]
        BY <1>6, <3>2 DEF Named
      <4> QED BY <1>3, <1>4, <4>1 DEF Holder
    <3>3. CASE call.op = "nameExchange"
      <4>1. held' = [held EXCEPT !["exchange"] = call.channel]
        BY <1>6, <3>3 DEF Named
      <4> QED BY <1>3, <1>4, <3>1, <4>1 DEF Holder
    <3> QED BY <2>1, <3>2, <3>3
  <2> QED BY <1>3, <2>2, <2>4, <2>5, TypedAgain DEF WrapperInv
<1>7. CASE NotStarted
  <2>1. /\ call.op = "startConsumer" /\ held' = [held EXCEPT !.consumer = call.channel]
        /\ call' = NoCall
        /\ did' = [op |-> call.op, told |-> "ok", done |-> FALSE, late |-> FALSE, silent |-> TRUE]
    BY <1>7 DEF NotStarted
  <2>2. CallTyped'
    BY <2>1, WrapperAssumption DEF CallTyped, NoCall, Channel
  <2>3. CallInv' /\ ToldInv'
    BY <2>1 DEF CallInv, ToldInv, NoCall, Reopens, ProgramOps, QueueOps
  <2>4. call.op \in Operation \union {"open", "none"}
    BY <1>2 DEF WrapperTyped
  <2>5. DidTyped'
    BY <2>1, <2>4 DEF DidTyped
  <2>6. SuccessIsTrue' /\ ErrorTells'
    BY <1>1, <1>5, <2>1 DEF SuccessIsTrue, ErrorTells
  <2>7. ObjectsTyped'
    BY <1>3, <1>4, <2>1 DEF Holder
  <2> QED BY <1>3, <2>2, <2>3, <2>5, <2>6, <2>7, TypedAgain DEF WrapperInv
<1> QED BY <1>6, <1>7

(* An answer to an earlier call on the number of a channel that is marked  *)
(* open can be that of a declaration, a bind or an unbind only after the   *)
(* numbers repeated.                                                       *)
LEMMA StaleMisleads ==
  ASSUME WrapperTyped, LateInv, NEW o \in DOMAIN channels, channels[o].isOpen, NEW m \in Misled,
         <<Number(o), m>> \in late
  PROVE  Len(channels) > Numbers
<1> SUFFICES ASSUME Len(channels) <= Numbers PROVE FALSE
  BY ChannelTypes, WrapperAssumption
<1>1. PICK p \in DOMAIN channels : Number(p) = Number(o) /\ ~channels[p].isOpen
  BY DEF LateInv
<1>2. Len(channels) \in Nat /\ o \in 1 .. Len(channels) /\ p \in 1 .. Len(channels) /\ p # o
  BY <1>1, ChannelTypes
<1>3. CASE p < o
  BY <1>1, <1>2, <1>3, NumbersRepeatLate, WrapperAssumption
<1>4. CASE o < p
  BY <1>1, <1>2, <1>4, NumbersRepeatLate, WrapperAssumption
<1> QED BY <1>2, <1>3, <1>4

(* The call of the library, with the marks the operation leaves after it.  *)
LEMMA CallsFacts ==
  ASSUME WrapperInv, NEW failed \in BOOLEAN, NEW done \in BOOLEAN, NEW stale \in BOOLEAN,
         Calls(failed, done, stale), OnlyMarked,
         NEW o, o = call.channel, NEW op, op = call.op,
         failed => ~channels'[o].isOpen \/ (op = "startConsumer" /\ channels'[o].calls # "fine"),
         ~failed /\ op \in NoError => channels'[o].calls # "fine"
  PROVE  /\ BrokerTyped' /\ LateInv' /\ OpenInv'
         /\ result' \in {"none", "normal", "library", "server"}
         /\ failed /\ op # "closeConsumer" => ~stale
         /\ ~failed /\ op \notin NoError => done \/ stale \/ op = "publish"
         /\ stale /\ op \notin NoError => op \in {"purge", "startConsumer"} \/ Len(channels) > Numbers
<1>1. WrapperTyped /\ CallInv /\ LateInv /\ OpenInv
  BY DEF WrapperInv
<1>2. /\ call.step = "method" /\ o # nil /\ op \notin {"nameExchange", "nameQueue"}
      /\ failed = (op \notin Unchecked /\ result' # "normal")
  BY DEF Calls
<1>3. o \in DOMAIN channels /\ op \in Operation
  <2>1. o \in Channel /\ op \in Operation \union {"open", "none"}
    BY <1>1 DEF WrapperTyped
  <2>2. op \notin {"open", "none"}
    BY <1>1, <1>2 DEF CallInv, NoCall
  <2> QED BY <1>1, <1>2, <2>1, <2>2, ChannelTypes
<1>4. PICK n \in 0 .. Numbers - 1 : n = Number(o)
  BY <1>1, <1>3, ChannelTypes, NumberIsNumber
<1>5. CASE op = "publish"
  <2>1. BasicPublish(n, done) /\ ~stale /\ result' = result
    BY <1>4, <1>5 DEF Calls
  <2>2. LateInv' /\ OpenInv' /\ BrokerTyped'
    BY <1>1, <2>1, PublishKeeps DEF BrokerTyped
  <2>3. result' \in {"none", "normal", "library", "server"}
    BY <1>1, <2>1 DEF WrapperTyped
  <2> QED BY <1>5, <2>1, <2>2, <2>3
<1>6. CASE op # "publish"
  <2>1. PICK r \in {"normal", "library", "server"} :
               /\ Rpc(Number(o), Method(op), r, done, stale)
               /\ result' = IF op \in Unstored THEN result ELSE r
    BY <1>6 DEF Calls
  <2>2. PICK m \in Operation : m = Method(op)
    BY <1>3, OperationFacts
  <2>3. /\ m = "close" => op \in {"close", "closeConsumer"}
        /\ op # "closeConsumer" => m = op
        /\ m \in Misled => op \in Misled
    BY <1>3, <2>2, OperationFacts
  <2>4. Rpc(Number(o), m, r, done, stale) /\ Rpc(n, m, r, done, stale)
    BY <1>4, <2>1, <2>2
  <2>5. m \in Operation \union {"open"}
    OBVIOUS
  <2>6. op \notin Unchecked /\ op # "closeConsumer" => result' = r /\ (failed <=> r # "normal")
    BY <1>2, <2>1 DEF Unchecked, Unstored
  <2>7. Unchecked \subseteq NoError /\ "closeConsumer" \in NoError /\ (op \in Unchecked => ~failed)
    BY <1>2 DEF NoError
  <2>8. r = "library" /\ m \in Misled => ~channels'[o].isOpen
    <3>1. op \in Misled => op \notin Unchecked /\ op \notin {"closeConsumer", "startConsumer"}
      BY DEF Misled, Unchecked
    <3> QED BY <2>3, <2>6, <3>1
  <2>9. r = "server" \/ m = "close" => ~channels'[o].isOpen \/ channels'[o].calls # "fine"
    <3>1. CASE op \in NoError
      BY <2>7, <3>1
    <3>2. CASE op \notin NoError
      <4>1. m # "close" /\ op \notin Unchecked /\ op # "closeConsumer"
        BY <2>3, <2>7, <3>2 DEF NoError, Unchecked
      <4> QED BY <2>6, <4>1
    <3> QED BY <3>1, <3>2
  <2>10. LateInv' /\ OpenInv'
    BY <1>1, <1>3, <2>4, <2>8, <2>9, CallKeeps
  <2>11. broker' \in [0 .. Numbers - 1 -> {"control", "unused", "open", "closing", "closed"}]
    BY <1>1, <2>4, <2>5, RpcFacts
  <2>12. late' \subseteq (0 .. Numbers - 1) \X (Operation \union {"open"})
    BY <1>1, <2>4, <2>5, RpcFacts
  <2>13. /\ up' \in BOOLEAN /\ (r = "normal" => done \/ stale)
         /\ stale => r = "normal" /\ <<n, m>> \in late
    BY <1>1, <2>4, <2>5, RpcFacts
  <2>14. result' \in {"none", "normal", "library", "server"}
    BY <1>1, <2>1 DEF WrapperTyped
  <2>15. failed /\ op # "closeConsumer" => ~stale
    BY <2>6, <2>7, <2>13
  <2>16. ~failed /\ op \notin NoError => done \/ stale
    BY <2>6, <2>7, <2>13
  <2>17. stale /\ op \notin NoError => op \in {"purge", "startConsumer"} \/ Len(channels) > Numbers
    <3> SUFFICES ASSUME stale, op \notin NoError, op \notin {"purge", "startConsumer"}
                 PROVE  Len(channels) > Numbers
      OBVIOUS
    <3>1. op \in Misled
      BY <1>2, <1>3, <1>6, OperationFacts DEF NoError, Unchecked, Misled, QueueOps, ProgramOps
    <3>2. m = op
      BY <2>3, <2>7
    <3>3. <<Number(o), m>> \in late
      BY <1>4, <2>13
    <3>4. channels[o].isOpen
      <4>1. op \in Reopens \ {"publish"}
        BY <3>1 DEF Misled, Reopens
      <4> QED BY <1>1, <1>2, <4>1 DEF CallInv
    <3> QED BY <1>1, <1>3, <3>1, <3>2, <3>3, <3>4, StaleMisleads
  <2> QED BY <2>10, <2>11, <2>12, <2>13, <2>14, <2>15, <2>16, <2>17 DEF BrokerTyped
<1> QED BY <1>5, <1>6

(* What a running operation is, before its call of the library.            *)
LEMMA CallingFacts ==
  ASSUME WrapperInv, NEW failed, NEW done, NEW stale, Calls(failed, done, stale)
  PROVE  /\ call.step = "method" /\ call.channel # nil /\ call.channel \in DOMAIN channels
         /\ call.op \in Operation /\ call.op \notin {"nameExchange", "nameQueue", "none", "open"}
         /\ call # NoCall /\ did = NothingDone
         /\ error => call.op \in KeepsError \union NoError
<1>1. WrapperTyped /\ CallInv /\ ToldInv
  BY DEF WrapperInv
<1>2. /\ call.step = "method" /\ call.channel # nil
      /\ call.op \notin {"nameExchange", "nameQueue"}
  BY DEF Calls
<1>3. call # NoCall /\ call.op \notin {"none", "open"}
  BY <1>1, <1>2 DEF CallInv, NoCall
<1>4. call.channel \in Channel /\ call.op \in Operation \union {"open", "none"}
  BY <1>1 DEF WrapperTyped
<1>5. call.channel \in DOMAIN channels
  BY <1>1, <1>2, <1>4, ChannelTypes
<1>6. did = NothingDone /\ (error => call.op \in KeepsError \union NoError)
  BY <1>1, <1>3 DEF ToldInv
<1> QED BY <1>2, <1>3, <1>4, <1>5, <1>6

LEMMA SucceedsKeeps == WrapperInv /\ Succeeds => WrapperInv'
<1> SUFFICES ASSUME WrapperInv, Succeeds PROVE WrapperInv'
  OBVIOUS
<1>1. PICK done \in BOOLEAN, stale \in BOOLEAN :
        /\ Calls(FALSE, done, stale)
        /\ IF call.op = "unbind" /\ error
           THEN call' = [call EXCEPT !.step = "again"] /\ did' = did
           ELSE Finish(IF call.op \in NoError THEN "void" ELSE "ok", done, stale)
  BY DEF Succeeds
<1>2. WrapperTyped /\ CallInv /\ ToldInv
  BY DEF WrapperInv
<1>3. PICK o, op : o = call.channel /\ op = call.op
  OBVIOUS
<1>4. /\ call.step = "method" /\ o # nil /\ o \in DOMAIN channels
      /\ op \in Operation /\ op \notin {"nameExchange", "nameQueue", "none", "open"}
      /\ call # NoCall /\ did = NothingDone
      /\ error => op \in KeepsError \union NoError
  BY <1>1, <1>3, CallingFacts
<1>5. /\ held' = Made /\ error' = error
      /\ channels' = IF op \in NoError THEN [channels EXCEPT ![o].calls = "unseen"] ELSE channels
  BY <1>3 DEF Succeeds
<1>6. /\ OnlyMarked /\ Channel' = Channel /\ channels' \in Seq(ChannelRecord)
      /\ op \in NoError => channels'[o].calls # "fine"
  <2>1. CASE op \in NoError
    BY <1>2, <1>4, <1>5, <2>1, MarkFacts
  <2>2. CASE op \notin NoError
    <3>1. channels' = channels
      BY <1>5, <2>2
    <3> QED BY <1>2, <2>2, <3>1, ChannelTypes DEF OnlyMarked, Channel
  <2> QED BY <2>1, <2>2
<1>7. /\ BrokerTyped' /\ LateInv' /\ OpenInv'
      /\ result' \in {"none", "normal", "library", "server"}
      /\ op \notin NoError => done \/ stale \/ op = "publish"
      /\ stale /\ op \notin NoError => op \in {"purge", "startConsumer"} \/ Len(channels) > Numbers
  <2>1. FALSE \in BOOLEAN
    OBVIOUS
  <2> QED BY <1>1, <1>3, <1>6, <2>1, CallsFacts
<1>8. ResultTyped'
  BY <1>2, <1>5, <1>7 DEF ResultTyped, WrapperTyped
<1>9. ObjectsTyped'
  <2>1. /\ held \in [Holder -> {NoObject} \union Channel]
        /\ held.program # NoObject /\ held.exchange # nil /\ o \in Channel /\ o # NoObject
    <3>1. o # NoObject
      BY <1>2, <1>4, ChannelTypes DEF NoObject
    <3> QED BY <1>2, <1>4, <3>1 DEF WrapperTyped, Channel
  <2>2. CASE op = "declareExchange"
    <3>1. held' = [held EXCEPT !.exchange = held.program]
      BY <1>3, <1>5, <2>2 DEF Made
    <3>2. held.program # nil
      BY <1>2, <1>3, <2>2 DEF CallInv, ProgramOps
    <3> QED BY <1>6, <2>1, <3>1, <3>2 DEF ObjectsTyped, Holder
  <2>3. CASE op = "declareQueue"
    <3>1. held' = [held EXCEPT !.queue = o]
      BY <1>3, <1>5, <2>3 DEF Made
    <3> QED BY <1>6, <2>1, <3>1 DEF ObjectsTyped, Holder
  <2>4. CASE op = "startConsumer"
    <3>1. held' = [held EXCEPT !.consumer = o, !.program = o]
      BY <1>3, <1>5, <2>4 DEF Made
    <3> QED BY <1>6, <2>1, <3>1 DEF ObjectsTyped, Holder
  <2>5. CASE op \notin {"declareExchange", "declareQueue", "startConsumer"}
    <3>1. held' = held
      BY <1>3, <1>5, <2>5 DEF Made
    <3> QED BY <1>6, <2>1, <3>1 DEF ObjectsTyped
  <2> QED BY <2>2, <2>3, <2>4, <2>5
<1>10. CASE op = "unbind" /\ error
  <2>1. call' = [call EXCEPT !.step = "again"] /\ did' = NothingDone
    BY <1>1, <1>3, <1>4, <1>10
  <2>2. DidTyped' /\ SuccessIsTrue' /\ ErrorTells'
    BY <2>1, NothingTold
  <2>3. call \in [op : Operation \union {"open", "none"}, channel : Channel, deep : 0 .. Deep,
                  step : {"idle", "reopen", "method", "again", "crashed"}]
    BY <1>2 DEF WrapperTyped
  <2>4. call'.op = "unbind" /\ call'.step = "again" /\ call'.channel = o /\ call' # NoCall
    BY <1>3, <1>10, <2>1, <2>3 DEF NoCall
  <2>5. CallTyped'
    BY <1>6, <2>1, <2>3, <2>4 DEF CallTyped
  <2>6. ToldInv'
    BY <2>1, <2>4 DEF ToldInv, KeepsError
  <2>7. held'.queue = o
    <3>1. held.queue = o
      BY <1>2, <1>3, <1>10 DEF CallInv, QueueOps
    <3>2. held' = held
      BY <1>3, <1>5, <1>10 DEF Made
    <3> QED BY <3>1, <3>2
  <2>8. CallInv'
    BY <1>4, <2>4, <2>7 DEF CallInv, ProgramOps
  <2> QED BY <1>7, <1>8, <1>9, <2>2, <2>5, <2>6, <2>8, TypedAgain DEF WrapperInv
<1>11. CASE ~(op = "unbind" /\ error)
  <2>1. PICK told \in {"ok", "error", "void"} : told = IF op \in NoError THEN "void" ELSE "ok"
    OBVIOUS
  <2>2. Finish(told, done, stale)
    BY <1>1, <1>3, <1>11, <2>1
  <2>3. CallTyped' /\ DidTyped' /\ CallInv' /\ ToldInv'
    BY <1>2, <2>2, FinishFacts
  <2>4. did'.told = told /\ did'.op = op /\ did'.done = done /\ did'.late = stale
    BY <1>2, <1>3, <2>2, FinishFacts
  <2>5. Len(channels') = Len(channels)
    BY <1>6 DEF OnlyMarked
  <2>6. SuccessIsTrue'
    BY <1>7, <2>1, <2>4, <2>5 DEF SuccessIsTrue
  <2>7. ErrorTells'
    BY <1>4, <1>5, <1>11, <2>1, <2>4 DEF ErrorTells, KeepsError
  <2> QED BY <1>7, <1>8, <1>9, <2>3, <2>6, <2>7, TypedAgain DEF WrapperInv
<1> QED BY <1>10, <1>11

LEMMA FailsKeeps == WrapperInv /\ (Fails \/ CloseFails) => WrapperInv'
<1> SUFFICES ASSUME WrapperInv, Fails \/ CloseFails PROVE WrapperInv'
  OBVIOUS
<1>1. PICK told \in {"ok", "error", "void"}, done \in BOOLEAN, stale \in BOOLEAN :
        /\ Calls(TRUE, done, stale) /\ Finish(told, done, stale)
        /\ \/ /\ told = "error" /\ error' = TRUE
              /\ call.op \notin {"startConsumer", "unbind", "closeConsumer"}
           \/ told = "void" /\ error' = error /\ call.op = "closeConsumer"
  <2>1. CASE Fails
    BY <2>1 DEF Fails
  <2>2. CASE CloseFails
    BY <2>2 DEF CloseFails
  <2> QED BY <2>1, <2>2
<1>2. WrapperTyped
  BY DEF WrapperInv
<1>3. PICK o, op : o = call.channel /\ op = call.op
  OBVIOUS
<1>4. o # nil /\ o \in DOMAIN channels /\ channels' = Marked(o)
  BY <1>1, <1>3, CallingFacts DEF Fails, CloseFails
<1>5. /\ OnlyMarked /\ Channel' = Channel /\ channels' \in Seq(ChannelRecord)
      /\ ~channels'[o].isOpen
  BY <1>2, <1>4, MarkFacts
<1>6. /\ BrokerTyped' /\ LateInv' /\ OpenInv'
      /\ result' \in {"none", "normal", "library", "server"}
      /\ op # "closeConsumer" => ~stale
  <2>1. TRUE \in BOOLEAN
    OBVIOUS
  <2> QED BY <1>1, <1>3, <1>5, <2>1, CallsFacts
<1>7. ResultTyped'
  BY <1>1, <1>2, <1>6 DEF ResultTyped, WrapperTyped
<1>8. ObjectsTyped'
  <2>1. /\ held \in [Holder -> {NoObject} \union Channel]
        /\ held.program # NoObject /\ held.exchange # nil
    BY <1>2 DEF WrapperTyped
  <2>2. \/ held' = [held EXCEPT !.exchange = NoObject]
        \/ held' = [held EXCEPT !.queue = NoObject]
        \/ held' = held
    BY DEF Fails, CloseFails
  <2> QED BY <1>5, <2>1, <2>2 DEF ObjectsTyped, Holder, NoObject, nil
<1>9. CallTyped' /\ DidTyped' /\ CallInv' /\ ToldInv'
  BY <1>1, <1>2, FinishFacts
<1>10. did'.told = told /\ did'.op = op /\ did'.late = stale
  BY <1>1, <1>2, <1>3, FinishFacts
<1>11. SuccessIsTrue' /\ ErrorTells'
  BY <1>1, <1>3, <1>6, <1>10 DEF SuccessIsTrue, ErrorTells
<1> QED BY <1>6, <1>7, <1>8, <1>9, <1>11, TypedAgain DEF WrapperInv

(* A failure after which the operation goes on.                            *)
LEMMA GoesOnFailing ==
  ASSUME WrapperInv, NEW step \in {"reopen", "again"}, NEW deep \in 0 .. Deep,
         NEW done \in BOOLEAN, NEW stale \in BOOLEAN, Calls(TRUE, done, stale),
         NEW op, op = call.op, NEW o, o = call.channel, NEW e \in BOOLEAN, error' = e,
         \/ step = "again" /\ op = "unbind" /\ channels' = Marked(o)
         \/ /\ step = "reopen" /\ op = "startConsumer" /\ ~e
            /\ channels' = [channels EXCEPT ![o].calls = "left"],
         call' = [call EXCEPT !.step = step, !.deep = deep], UNCHANGED <<held, did>>
  PROVE  WrapperInv'
<1>1. WrapperTyped /\ CallInv /\ ToldInv
  BY DEF WrapperInv
<1>2. /\ o # nil /\ o \in DOMAIN channels /\ did' = NothingDone
      /\ call # NoCall
  BY CallingFacts
<1>3. /\ OnlyMarked /\ Channel' = Channel /\ channels' \in Seq(ChannelRecord)
      /\ ~channels'[o].isOpen \/ (op = "startConsumer" /\ channels'[o].calls # "fine")
  BY <1>1, <1>2, MarkFacts
<1>4. /\ BrokerTyped' /\ LateInv' /\ OpenInv'
      /\ result' \in {"none", "normal", "library", "server"}
  <2>1. TRUE \in BOOLEAN
    OBVIOUS
  <2> QED BY <1>3, <2>1, CallsFacts
<1>5. ObjectsTyped' /\ ResultTyped'
  BY <1>1, <1>3, <1>4 DEF ObjectsTyped, ResultTyped, WrapperTyped
<1>6. DidTyped' /\ SuccessIsTrue' /\ ErrorTells'
  BY <1>2, NothingTold
<1>7. call \in [op : Operation \union {"open", "none"}, channel : Channel, deep : 0 .. Deep,
                step : {"idle", "reopen", "method", "again", "crashed"}]
  BY <1>1 DEF WrapperTyped
<1>8. call'.op = op /\ call'.step = step /\ call'.channel = o /\ call' # NoCall
  BY <1>7 DEF NoCall
<1>9. CallTyped'
  BY <1>3, <1>7, <1>8 DEF CallTyped
<1>10. ToldInv'
  BY <1>2, <1>8 DEF ToldInv, KeepsError
<1>11. CallInv'
  <2>1. op \in ProgramOps => held.program # nil
    BY <1>1 DEF CallInv
  <2>2. op \in QueueOps => o = held.queue
    BY <1>1 DEF CallInv
  <2> QED BY <1>2, <1>8, <2>1, <2>2 DEF CallInv
<1> QED BY <1>4, <1>5, <1>6, <1>9, <1>10, <1>11, TypedAgain DEF WrapperInv

LEMMA UnbindFailsKeeps == WrapperInv /\ UnbindFails => WrapperInv'
<1> SUFFICES ASSUME WrapperInv, UnbindFails PROVE WrapperInv'
  OBVIOUS
<1>1. PICK done \in BOOLEAN, stale \in BOOLEAN : Calls(TRUE, done, stale)
  BY DEF UnbindFails
<1>2. PICK o, op, deep : o = call.channel /\ op = call.op /\ deep = call.deep
  OBVIOUS
<1>3. /\ op = "unbind" /\ channels' = Marked(o) /\ error' = TRUE
      /\ call' = [call EXCEPT !.step = "again"] /\ UNCHANGED <<held, did>>
  BY <1>2 DEF UnbindFails
<1>4. call \in [op : Operation \union {"open", "none"}, channel : Channel, deep : 0 .. Deep,
                step : {"idle", "reopen", "method", "again", "crashed"}]
  BY DEF WrapperInv, WrapperTyped
<1>5. deep \in 0 .. Deep /\ call' = [call EXCEPT !.step = "again", !.deep = deep]
  BY <1>2, <1>3, <1>4
<1>6. "again" \in {"reopen", "again"} /\ TRUE \in BOOLEAN
  OBVIOUS
<1> QED BY <1>1, <1>2, <1>3, <1>5, <1>6, GoesOnFailing

LEMMA StartFailsKeeps == WrapperInv /\ StartFails => WrapperInv'
<1> SUFFICES ASSUME WrapperInv, StartFails PROVE WrapperInv'
  OBVIOUS
<1>1. PICK done \in BOOLEAN, stale \in BOOLEAN :
        /\ Calls(TRUE, done, stale)
        /\ IF LastTry
           THEN /\ channels' = Marked(call.channel)
                /\ held' = [held EXCEPT !.program = call.channel, !.consumer = NoObject]
                /\ error' = TRUE /\ Finish("error", done, stale)
           ELSE /\ channels' = [channels EXCEPT ![call.channel].calls = "left"]
                /\ call' = [call EXCEPT !.step = "reopen", !.deep = @ - 1]
                /\ UNCHANGED <<held, error, did>>
  BY DEF StartFails
<1>2. WrapperTyped /\ CallInv /\ ToldInv
  BY DEF WrapperInv
<1>3. PICK o, op, deep : o = call.channel /\ op = call.op /\ deep = call.deep
  OBVIOUS
<1>4. /\ op = "startConsumer" /\ o # nil /\ o \in DOMAIN channels /\ ~error
  BY <1>1, <1>3, CallingFacts DEF StartFails, KeepsError, NoError, Unchecked
<1>5. deep \in 0 .. Deep /\ Deep \in Nat
  BY <1>2, <1>3, WrapperAssumption DEF WrapperTyped
<1>6. CASE LastTry
  <2>1. /\ channels' = Marked(o)
        /\ held' = [held EXCEPT !.program = o, !.consumer = NoObject]
        /\ error' = TRUE /\ Finish("error", done, stale)
    BY <1>1, <1>3, <1>6
  <2>2. /\ OnlyMarked /\ Channel' = Channel /\ channels' \in Seq(ChannelRecord)
        /\ ~channels'[o].isOpen
    BY <1>2, <1>4, <2>1, MarkFacts
  <2>3. /\ BrokerTyped' /\ LateInv' /\ OpenInv'
        /\ result' \in {"none", "normal", "library", "server"}
        /\ ~stale
    <3>1. TRUE \in BOOLEAN
      OBVIOUS
    <3> QED BY <1>1, <1>3, <1>4, <2>2, <3>1, CallsFacts
  <2>4. ResultTyped'
    BY <2>1, <2>3 DEF ResultTyped
  <2>5. ObjectsTyped'
    <3>1. /\ held \in [Holder -> {NoObject} \union Channel]
          /\ held.exchange # nil /\ o \in Channel /\ o # NoObject
      <4>1. o # NoObject
        BY <1>2, <1>4, ChannelTypes DEF NoObject
      <4> QED BY <1>2, <1>4, <4>1 DEF WrapperTyped, Channel
    <3> QED BY <2>1, <2>2, <3>1 DEF ObjectsTyped, Holder
  <2>6. CallTyped' /\ DidTyped' /\ CallInv' /\ ToldInv'
    BY <1>2, <2>1, FinishFacts
  <2>7. did'.told = "error" /\ did'.op = op /\ did'.late = stale
    BY <1>2, <1>3, <2>1, FinishFacts
  <2>8. SuccessIsTrue' /\ ErrorTells'
    BY <2>1, <2>3, <2>7 DEF SuccessIsTrue, ErrorTells
  <2> QED BY <2>3, <2>4, <2>5, <2>6, <2>8, TypedAgain DEF WrapperInv
<1>7. CASE ~LastTry
  <2>1. /\ channels' = [channels EXCEPT ![o].calls = "left"]
        /\ call' = [call EXCEPT !.step = "reopen", !.deep = deep - 1]
        /\ error' = FALSE /\ UNCHANGED <<held, did>>
    BY <1>1, <1>3, <1>4, <1>7
  <2>2. deep - 1 \in 0 .. Deep
    BY <1>3, <1>5, <1>7 DEF LastTry
  <2>3. "reopen" \in {"reopen", "again"} /\ FALSE \in BOOLEAN
    OBVIOUS
  <2> QED BY <1>1, <1>3, <1>4, <2>1, <2>2, <2>3, GoesOnFailing
<1> QED BY <1>6, <1>7

LEMMA LineFailsKeeps == WrapperInv /\ LineFails => WrapperInv'
<1> SUFFICES ASSUME WrapperInv, LineFails PROVE WrapperInv'
  OBVIOUS
<1>1. ConnectionCloses /\ UNCHANGED <<channels, held, result, call, error, did>>
  BY DEF LineFails
<1>2. WrapperTyped /\ CallInv /\ ToldInv /\ SuccessIsTrue /\ ErrorTells
  BY DEF WrapperInv
<1>3. LateInv' /\ OpenInv'
  BY <1>1, LineDown
<1>4. WrapperTyped'
  <2>1. Channel' = Channel
    BY <1>1 DEF Channel
  <2>2. BrokerTyped'
    BY <1>1, <1>2 DEF ConnectionCloses, BrokerTyped, WrapperTyped
  <2>3. ObjectsTyped' /\ CallTyped' /\ DidTyped' /\ ResultTyped'
    BY <1>1, <1>2, <2>1, TypedParts DEF ObjectsTyped, CallTyped, DidTyped, ResultTyped
  <2> QED BY <2>2, <2>3, TypedAgain
<1>5. CallInv' /\ ToldInv'
  BY <1>1, <1>2 DEF CallInv, ToldInv
<1>6. SuccessIsTrue' /\ ErrorTells'
  BY <1>1, <1>2 DEF SuccessIsTrue, ErrorTells
<1> QED BY <1>3, <1>4, <1>5, <1>6 DEF WrapperInv

LEMMA WrapperStutters == WrapperInv /\ UNCHANGED wrapperVars => WrapperInv'
<1> SUFFICES ASSUME WrapperInv, UNCHANGED wrapperVars PROVE WrapperInv'
  OBVIOUS
<1>1. UNCHANGED <<channels, held, result, call, error, did, up, broker, late>>
  BY DEF wrapperVars, brokerState
<1>2. WrapperTyped'
  BY <1>1 DEF WrapperInv, WrapperTyped, Channel
<1>3. CallInv' /\ ToldInv' /\ SuccessIsTrue' /\ ErrorTells'
  BY <1>1 DEF WrapperInv, CallInv, ToldInv, SuccessIsTrue, ErrorTells
<1>4. LateInv' /\ OpenInv'
  BY <1>1 DEF WrapperInv, LateInv, OpenInv, OwnNumber
<1> QED BY <1>2, <1>3, <1>4 DEF WrapperInv

LEMMA WrapperStarts == WrapperInit => WrapperInv
<1> SUFFICES ASSUME WrapperInit PROVE WrapperInv
  OBVIOUS
<1>1. DOMAIN channels = {} /\ channels \in Seq(ChannelRecord)
  BY DEF WrapperInit
<1>2. WrapperTyped
  <2>1. ObjectsTyped
    BY <1>1 DEF WrapperInit, ObjectsTyped, Channel, Holder, nil, NoObject
  <2>2. CallTyped /\ DidTyped
    BY NoCallTyped DEF WrapperInit, CallTyped, DidTyped, NoCall
  <2>3. BrokerTyped /\ ResultTyped
    BY DEF WrapperInit, BrokerTyped, ResultTyped
  <2> QED BY <2>1, <2>2, <2>3, TypedParts
<1>3. CallInv /\ ToldInv
  BY DEF WrapperInit, CallInv, ToldInv, NoCall, ProgramOps, QueueOps, Reopens
<1>4. SuccessIsTrue /\ ErrorTells
  BY DEF WrapperInit, SuccessIsTrue, ErrorTells, NothingDone
<1>5. LateInv /\ OpenInv
  BY <1>1 DEF WrapperInit, LateInv, OpenInv
<1> QED BY <1>2, <1>3, <1>4, <1>5 DEF WrapperInv

LEMMA WrapperKeeps == WrapperInv /\ [WrapperNext]_wrapperVars => WrapperInv'
<1> SUFFICES ASSUME WrapperInv, [WrapperNext]_wrapperVars PROVE WrapperInv'
  OBVIOUS
<1>1. CASE \E op \in Operation : Begin(op)
  BY <1>1, BeginKeeps
<1>2. CASE BeginOpen \/ LineFails \/ UNCHANGED wrapperVars
  BY <1>2, BeginOpenKeeps, LineFailsKeeps, WrapperStutters
<1>3. CASE Reopened \/ ReopenFails \/ ReopensNil \/ Crashes
  BY <1>3, ReopenedKeeps, ReopenFailsKeeps, ReopensNilKeeps, CrashKeeps
<1>4. CASE Named \/ NotStarted \/ Succeeds
  BY <1>4, NamedKeeps, SucceedsKeeps
<1>5. CASE Fails \/ UnbindFails \/ CloseFails \/ StartFails
  BY <1>5, FailsKeeps, UnbindFailsKeeps, StartFailsKeeps
<1> QED BY <1>1, <1>2, <1>3, <1>4, <1>5 DEF WrapperNext, WrapperStep

LEMMA IsWrapperStep == [RpcCallNext]_rpcVars => [WrapperNext]_wrapperVars
<1> SUFFICES ASSUME [RpcCallNext]_rpcVars PROVE WrapperNext \/ UNCHANGED wrapperVars
  OBVIOUS
<1>1. CASE ProgramStep \/ WrapperSteps
  BY <1>1 DEF ProgramStep, WrapperSteps, WrapperNext
<1>2. CASE StartRpc \/ CallWithBody
  <2>1. "publish" \in Operation
    BY OperationFacts
  <2> QED BY <1>2, <2>1 DEF StartRpc, CallWithBody, WrapperNext
<1>3. CASE GoesOn
  <2>1. Script[rpc] \in Operation /\ Begin(Script[rpc])
    BY <1>3, OperationFacts DEF GoesOn, Script, ProgramOps
  <2> QED BY <2>1 DEF WrapperNext
<1>4. CASE Initialized \/ Published \/ PopAnswer \/ PopNothing \/ ServerAnswers
  BY <1>4 DEF Initialized, Published, PopAnswer, PopNothing, ServerAnswers
<1>5. CASE UNCHANGED rpcVars
  BY <1>5 DEF rpcVars
<1> QED BY <1>1, <1>2, <1>3, <1>4, <1>5 DEF RpcCallNext, AMQPRPCCall

LEMMA WrapperInvariant == RpcCallSpec => []WrapperInv
<1>1. RpcCallInit => WrapperInv
  BY WrapperStarts DEF RpcCallInit
<1>2. WrapperInv /\ [RpcCallNext]_rpcVars => WrapperInv'
  BY IsWrapperStep, WrapperKeeps
<1> QED BY <1>1, <1>2, PTL DEF RpcCallSpec

(* The operations of an AMQPExchange, AMQPQueue, AMQPConsumer and          *)
(* AMQPChannel return success only when the broker did what was asked, and *)
(* their NSError agrees with what they return, but for the cases named in  *)
(* SuccessIsTrue and ErrorTells; a checked program crashes only on a queue *)
(* without a channel.                                                      *)
THEOREM ProgramIsToldTheTruth == RpcCallSpec => []ReportsTrue
<1>1. WrapperInv => CrashesOnQueue
  <2> SUFFICES ASSUME WrapperInv, call.step = "crashed"
               PROVE  HolderOf[call.op] = "queue" /\ held.queue = nil
    BY DEF CrashesOnQueue
  <2>1. /\ call.op \in Operation \union {"open", "none"} /\ CallInv
        /\ call.channel = nil /\ call.op # "closeConsumer"
    BY DEF WrapperInv, WrapperTyped, CallInv
  <2>2. call.op \notin {"open", "none"}
    BY <2>1 DEF CallInv, NoCall
  <2>3. call.op \in QueueOps
    BY <2>1, <2>2, OperationFacts DEF CallInv
  <2> QED BY <2>1, <2>3, OperationFacts DEF CallInv
<1>2. WrapperInv => ReportsTrue
  BY <1>1 DEF WrapperInv, ReportsTrue
<1> QED BY <1>2, WrapperInvariant, PTL

(* isOpen of an AMQPChannel: a channel that is marked open is not one the  *)
(* broker has closed and told so, but for the calls that are not looked at *)
(* (AMQPConsumer.m, AMQPQueue.m) and for numbers that repeat.              *)
THEOREM MarkedChannelsAreOpen == RpcCallSpec => []MarkedOpenIsOpen
<1>1. WrapperInv => MarkedOpenIsOpen
  BY DEF WrapperInv, OpenInv, OwnNumber, MarkedOpenIsOpen
<1> QED BY <1>1, WrapperInvariant, PTL

-----------------------------------------------------------------------------
(* An AMQPRPCCall asks no more than MaxAsks times.                         *)
RpcInv ==
  /\ rpc \in DOMAIN Script \union {"none", "startConsumer", "ready", "publishing", "popping", "nil"}
  /\ begun \in 0 .. MaxBegins
  /\ returned \in Seq(0 .. MaxAsks) /\ Len(returned) <= MaxAsks
  /\ rpc \in {"publishing", "popping"} => Len(returned) < MaxAsks

LEMMA RpcInvInit == RpcCallInit => RpcInv
  BY RpcCallAssumption DEF RpcCallInit, RpcInv

LEMMA RpcInvStep == RpcInv /\ AnswerInv /\ [RpcCallNext]_rpcVars => RpcInv'
<1> SUFFICES ASSUME RpcInv, AnswerInv, [RpcCallNext]_rpcVars PROVE RpcInv'
  OBVIOUS
<1>1. Len(returned) \in Nat /\ MaxAsks \in Nat /\ MaxBegins \in Nat
  BY RpcCallAssumption DEF RpcInv
<1>2. CASE ProgramStep
  BY <1>1, <1>2 DEF ProgramStep, RpcInv
<1>3. CASE WrapperSteps \/ ServerAnswers \/ UNCHANGED rpcVars
  BY <1>3 DEF WrapperSteps, ServerAnswers, rpcVars, RpcInv
<1>4. CASE StartRpc \/ GoesOn \/ Initialized
  BY <1>4 DEF StartRpc, GoesOn, Initialized, Script, RpcInv
<1>5. CASE CallWithBody \/ Published
  BY <1>1, <1>5 DEF CallWithBody, Published, Asking, RpcInv
<1>6. ASSUME NEW x \in 0 .. MaxAsks, rpc = "popping", rpc' = "ready", begun' = begun,
             returned' = Append(returned, x)
      PROVE  RpcInv'
  <2>1. returned' \in Seq(0 .. MaxAsks) /\ Len(returned') = Len(returned) + 1
    BY <1>6 DEF RpcInv
  <2> QED BY <1>1, <1>6, <2>1 DEF RpcInv
<1>7. CASE PopAnswer
  <2>1. PICK x : x = Head(answers)
    OBVIOUS
  <2>2. x \in 1 .. Len(returned) + 1
    BY <1>7, <2>1 DEF PopAnswer, AnswerInv, AnswerTypeOK, Asked
  <2>3. x \in 0 .. MaxAsks
    BY <1>1, <1>7, <2>2 DEF PopAnswer, RpcInv
  <2> QED BY <1>6, <1>7, <2>1, <2>3 DEF PopAnswer
<1>8. CASE PopNothing
  <2>1. 0 \in 0 .. MaxAsks
    BY <1>1
  <2> QED BY <1>6, <1>8, <2>1 DEF PopNothing
<1> QED BY <1>2, <1>3, <1>4, <1>5, <1>7, <1>8 DEF RpcCallNext, AMQPRPCCall

(* The variables of Wrapper and RpcCall keep their types: what an object   *)
(* holds is a channel that exists, and an answer one that was asked for.   *)
THEOREM RpcTyped == RpcCallSpec => []RpcTypeOK
<1>1. RpcCallInit => AnswerInv /\ RpcInv
  BY AnswerInit, RpcInvInit
<1>2. AnswerInv /\ RpcInv /\ [RpcCallNext]_rpcVars => AnswerInv' /\ RpcInv'
  BY AnswerStep, RpcInvStep
<1>3. WrapperInv /\ AnswerInv /\ RpcInv => RpcTypeOK
  <2> SUFFICES ASSUME WrapperInv, AnswerInv, RpcInv PROVE RpcTypeOK
    OBVIOUS
  <2>1. Len(returned) \in Nat /\ MaxAsks \in Nat /\ Asked \subseteq 1 .. MaxAsks
    BY RpcCallAssumption DEF RpcInv, Asked
  <2>2. requests \subseteq 1 .. MaxAsks
    BY <2>1 DEF AnswerInv, AnswerTypeOK
  <2>3. answers \in Seq(1 .. MaxAsks)
    BY <2>1, SeqMonotonic DEF AnswerInv, AnswerTypeOK
  <2> QED BY <2>2, <2>3 DEF WrapperInv, WrapperTyped, RpcInv, RpcTypeOK
<1> QED BY <1>1, <1>2, <1>3, WrapperInvariant, PTL DEF RpcCallSpec
=============================================================================
