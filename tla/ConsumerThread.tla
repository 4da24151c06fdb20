--------------------------- MODULE ConsumerThread ---------------------------
(***************************************************************************)
(* The thread that pops messages for a delegate: main of                   *)
(* AMQPConsumerThread.m over ConsumerPop.  In loop mode it pops without a  *)
(* timer until it is cancelled or has come back empty-handed countTry      *)
(* times; otherwise it pops once, with a timer.                            *)
(***************************************************************************)
EXTENDS ConsumerPop, FiniteSets

Tries == 3

VARIABLES
  isLoopMode,    \* persistentListen, fixed when the thread is made
  up,            \* whether the connection works
  running,       \* the thread has not exited
  cancelled,     \* cancel was called on it
  countTry,
  told,          \* history: what the delegate got, 0 for a nil message
  toldAtCancel,  \* history: how much of it before the cancellation
  lost           \* amqpConsumerThreadLoseConnection was called

thread == <<isLoopMode, running, countTry, told, lost>>
threadVars == <<vars, up, thread, cancelled, toldAtCancel>>

ThreadInit ==
  /\ Init
  /\ isLoopMode \in BOOLEAN
  /\ up = TRUE /\ running = TRUE /\ cancelled = FALSE
  /\ countTry = Tries /\ told = <<>> /\ toldAtCancel = 0 /\ lost = FALSE

(* Mutant: isCancelled is not looked at in the loop.                       *)
StartsAnyway ==
  /\ running
  /\ StartPop
  /\ UNCHANGED <<up, thread, cancelled, toldAtCancel>>

Starts ==
  /\ running
  /\ isLoopMode => ~cancelled
  /\ StartPop
  /\ UNCHANGED <<up, thread, cancelled, toldAtCancel>>

(* Mutant: the timer is not passed on to the pop.                          *)
PopStepUntimed ==
  \/ PopSkips \/ PopMethod \/ PopHeader \/ PopBody \/ PopGivesUp
  \/ ~up /\ PopWaitFails

(* Without a timer a wait only fails with the connection.                  *)
PopStep ==
  \/ PopSkips \/ PopMethod \/ PopHeader \/ PopBody \/ PopGivesUp
  \/ (isLoopMode => ~up) /\ PopWaitFails

Pops ==
  /\ PopStep /\ at' # "idle"
  /\ UNCHANGED <<up, thread, cancelled, toldAtCancel>>

GotMessage == Len(returned') > Len(returned)

LoopGetsMessage ==
  /\ isLoopMode /\ PopStep /\ at' = "idle" /\ GotMessage
  /\ told' = Append(told, delivery)
  /\ UNCHANGED <<up, isLoopMode, running, countTry, lost, cancelled, toldAtCancel>>

(* Mutants: a try that costs nothing, and a last try that ends nothing.    *)
LoopGetsNilForFree ==
  /\ isLoopMode /\ PopStep /\ at' = "idle" /\ ~GotMessage
  /\ UNCHANGED <<up, thread, cancelled, toldAtCancel>>
LoopGetsNilForever ==
  /\ isLoopMode /\ PopStep /\ at' = "idle" /\ ~GotMessage
  /\ countTry' = countTry - 1
  /\ lost' = (countTry' = 0)
  /\ UNCHANGED <<up, isLoopMode, running, told, cancelled, toldAtCancel>>

(* The delegate is told that the connection is lost.                       *)
LoopGetsNil ==
  /\ isLoopMode /\ PopStep /\ at' = "idle" /\ ~GotMessage
  /\ countTry' = countTry - 1
  /\ lost' = (countTry' = 0)
  /\ running' = (countTry' # 0)
  /\ UNCHANGED <<up, isLoopMode, told, cancelled, toldAtCancel>>

(* isCancelled is looked at when the thread starts and, in loop mode,      *)
(* before every pop.                                                       *)
EndsCancelled ==
  /\ running /\ cancelled /\ at = "idle"
  /\ running' = FALSE
  /\ UNCHANGED <<vars, up, isLoopMode, countTry, told, lost, cancelled, toldAtCancel>>

(* The consumer is closed (an RPC), and the delegate gets the message, or  *)
(* nil.                                                                    *)
SingleShot ==
  /\ ~isLoopMode /\ PopStep /\ at' = "idle"
  /\ told' = Append(told, IF GotMessage THEN delivery ELSE 0)
  /\ running' = FALSE
  /\ UNCHANGED <<up, isLoopMode, countTry, lost, cancelled, toldAtCancel>>

ThreadRuns ==
  Starts \/ Pops \/ LoopGetsMessage \/ LoopGetsNil \/ EndsCancelled \/ SingleShot

Cancel ==
  /\ ~cancelled
  /\ cancelled' = TRUE
  /\ toldAtCancel' = Len(told)
  /\ UNCHANGED <<vars, up, thread>>

(* What the broker had sent before can still be read.                      *)
ConnectionFails ==
  /\ up
  /\ up' = FALSE
  /\ UNCHANGED <<vars, thread, cancelled, toldAtCancel>>

Surroundings ==
  /\ \/ up /\ \E ch \in Channel : BrokerDelivers(ch) \/ BrokerSends(ch)
     \/ up /\ BrokerSendsOther
     \/ running /\ RpcTakesReply
  /\ UNCHANGED <<up, thread, cancelled, toldAtCancel>>

ThreadNext == ThreadRuns \/ Cancel \/ ConnectionFails \/ Surroundings

(* A thread that can run does.                                             *)
ThreadSpec == ThreadInit /\ [][ThreadNext]_threadVars /\ WF_threadVars(ThreadRuns)

-----------------------------------------------------------------------------
ThreadTypeOK ==
  /\ TypeOK
  /\ isLoopMode \in BOOLEAN
  /\ up \in BOOLEAN /\ running \in BOOLEAN /\ cancelled \in BOOLEAN /\ lost \in BOOLEAN
  /\ countTry \in 0 .. Tries
  /\ told \in Seq(Delivery \union {0}) /\ toldAtCancel \in 0 .. Len(told)

(* In its whole life a looping thread loses at most as many messages as it *)
(* has tries.                                                              *)
LossesCostTries ==
  isLoopMode => Cardinality(gaveUp) <= Tries - countTry

(* A cancelled thread hands over at most the message it was popping.       *)
AtMostOneAfterCancel ==
  cancelled => Len(told) <= toldAtCancel + 1

(* A message that was sent completely is handed to the delegate, unless    *)
(* its pop gave up or the thread has ended.                                *)
Sent(d) == \A ch \in Channel : \A i \in DOMAIN toSend[ch] : toSend[ch][i].d # d
SentIsTold ==
  \A d \in 1 .. MaxContents :
    (d \in Delivery /\ Sent(d)) ~>
      (~running \/ d \in gaveUp \/ \E k \in DOMAIN told : told[k] = d)

(* A thread whose connection fails ends; the delegate of a looping one is  *)
(* told, unless the thread was cancelled.                                  *)
EndsWhenConnectionFails == ~up ~> (~running /\ (isLoopMode => lost \/ cancelled))

(* A single-shot thread ends, also when no message comes.                  *)
SingleShotEnds == ~isLoopMode ~> ~running
=============================================================================
