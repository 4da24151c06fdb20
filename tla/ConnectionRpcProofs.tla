------------------------- MODULE ConnectionRpcProofs -------------------------
(***************************************************************************)
(* For any channels, calls and reply kinds, and without the bounds of the  *)
(* runs: the types, what a reply that an RPC returns can be the answer to, *)
(* that the connection implements the mailbox, and what the mailbox keeps. *)
(***************************************************************************)
EXTENDS ConnectionRpc, SequenceLemmas, TLAPS

-----------------------------------------------------------------------------
(* The inductive invariant.                                                *)

(* A frame that answers a request carries one of its reply kinds on its    *)
(* channel; any other frame carries none.                                  *)
AnswersWell(f) ==
  IF f.for = NoRequest THEN f.kind \in CloseKind \union PushedKind
  ELSE f.ch = f.for.ch /\ f.kind \in Replies[f.for.op]

(* A request the broker may still answer, or has answered on the socket,   *)
(* is the one the client waits for or one it gave up; answers that were    *)
(* put aside are all to requests it gave up.                               *)
Owed(r) == r = req \/ r \in unanswered

OwedInv ==
  /\ \A r \in pending : Owed(r)
  /\ \A i \in DOMAIN inbound : AnswersWell(inbound[i]) /\
       (inbound[i].for # NoRequest => Owed(inbound[i].for))
  /\ \A i \in DOMAIN queued : AnswersWell(queued[i]) /\
       (queued[i].for # NoRequest => queued[i].for \in unanswered)

(* The request in progress is the newest, no failed one, and is answered   *)
(* at most once.                                                           *)
CurrentInv ==
  /\ \A u \in unanswered : u.n <= calls
  /\ pc = "rpc" =>
       /\ req.n = calls
       /\ \A u \in unanswered : u.n < calls
       /\ ~ReuseAfterFailure => \A u \in unanswered : u.ch # req.ch
       /\ req \in pending => \A i \in DOMAIN inbound : inbound[i].for # req
       /\ \A i, j \in DOMAIN inbound :
            inbound[i].for = req /\ inbound[j].for = req => i = j

ResultInv == StaleReplyWasAbandoned /\ ReplyIsOurs

RpcInv == TypeOK /\ OwedInv /\ CurrentInv /\ ResultInv

-----------------------------------------------------------------------------
(* The constants: the requests and the kinds of frames.                    *)
LEMMA RequestFacts ==
  ASSUME NEW op \in Op, NEW ch \in ChannelsOf(op), calls \in Nat
  PROVE  [n |-> calls + 1, op |-> op, ch |-> ch] \in Request
  BY DEF Request, ChannelsOf

(* A kind of frame is a reply, a close or another frame, never two of them.*)
LEMMA KindFacts ==
  /\ \A op \in Op : Replies[op] \subseteq ReplyKind
  /\ ReplyKind \intersect (CloseKind \union PushedKind) = {}
  /\ NoRequest \notin Request
  BY RpcAssumption DEF ReplyKind, NoRequest, Request

(* What a broker step appends to the socket is a frame.                    *)
LEMMA SentFrameType ==
  ASSUME TypeOK, NEW kind \in Kind, NEW ch \in Channel \union {0},
         NEW for \in Request \union {NoRequest}
  PROVE  [n |-> sent + 1, ch |-> ch, kind |-> kind, for |-> for] \in Frame
  BY DEF TypeOK, Frame

(* A broker step keeps the types.                                          *)
LEMMA BrokerSendsType ==
  ASSUME TypeOK, NEW kind \in Kind, NEW ch \in Channel \union {0},
         NEW for \in Request \union {NoRequest}, BrokerSends(kind, ch, for),
         pending' \subseteq Request, closed' \subseteq Channel \union {0},
         midContent' \subseteq Channel
  PROVE  TypeOK'
<1>1. inbound' \in Seq(Frame)
  BY SentFrameType, AppendFacts DEF BrokerSends, TypeOK
<1> QED BY <1>1 DEF TypeOK, BrokerSends, client

(* The end of a call keeps the types.                                      *)
LEMMA RpcReturnsType ==
  ASSUME TypeOK, pc = "rpc", NEW type \in ReplyType,
         NEW for \in Request \union {NoRequest}, RpcReturns(type, for),
         inbound' \in Seq(Frame), queued' = queued,
         taken' \subseteq Nat, dropped' \subseteq Nat
  PROVE  TypeOK'
  BY DEF TypeOK, RpcReturns, broker

(* Every step keeps the types.                                             *)
LEMMA TypeStep == TypeOK /\ [Next]_vars => TypeOK'
<1> SUFFICES ASSUME TypeOK, [Next]_vars PROVE TypeOK'
  OBVIOUS
<1>0. /\ inbound \in Seq(Frame) /\ queued \in Seq(Frame)
      /\ \A f \in Frame : f.n \in Nat /\ f.for \in Request \union {NoRequest}
  BY DEF TypeOK, Frame
<1>h. inbound # <<>> => Head(inbound) \in Frame /\ Tail(inbound) \in Seq(Frame)
  BY <1>0
<1>1. ASSUME NEW op \in Op, NEW ch \in ChannelsOf(op), StartRpc(op, ch) PROVE TypeOK'
  BY <1>1, RequestFacts DEF TypeOK, StartRpc
<1>2. ASSUME NEW op \in Op, NEW ch \in ChannelsOf(op), RpcSendFails(op, ch) PROVE TypeOK'
  BY <1>2, RequestFacts DEF TypeOK, RpcSendFails, broker, ReplyType
<1>3. ASSUME NEW withTimer \in BOOLEAN, StartWait(withTimer) PROVE TypeOK'
  BY <1>3 DEF TypeOK, StartWait, broker
<1>4. CASE WaitFromQueue
  <2>1. queued' \in Seq(Frame) /\ Head(queued) \in Frame
    BY <1>0, <1>4 DEF WaitFromQueue
  <2>2. handed' \in Seq(Nat)
    BY <1>0, <1>4, <2>1 DEF WaitFromQueue, TypeOK
  <2> QED BY <1>4, <2>1, <2>2 DEF TypeOK, WaitFromQueue, client, broker
<1>5. CASE RpcTakesFrame
  <2>1. PICK type \in {"NORMAL", "SERVER_EXCEPTION"} : RpcReturns(type, Head(inbound).for)
    BY <1>5 DEF RpcTakesFrame
  <2>2. /\ pc = "rpc" /\ queued' = queued /\ dropped' \subseteq Nat /\ taken' \subseteq Nat
        /\ inbound' \in Seq(Frame) /\ Head(inbound).for \in Request \union {NoRequest}
    BY <1>0, <1>h, <1>5 DEF RpcTakesFrame, TypeOK
  <2> QED BY <2>1, <2>2, RpcReturnsType DEF ReplyType
<1>6. CASE RpcSetsAside
  <2>1. queued' \in Seq(Frame) /\ inbound' \in Seq(Frame)
    BY <1>0, <1>h, <1>6 DEF RpcSetsAside
  <2> QED BY <1>6, <2>1 DEF TypeOK, RpcSetsAside, client, broker
<1>7. CASE RpcNoMemory
  <2>1. /\ pc = "rpc" /\ queued' = queued /\ dropped' \subseteq Nat /\ taken' \subseteq Nat
        /\ inbound' \in Seq(Frame)
    BY <1>0, <1>h, <1>7 DEF RpcNoMemory, TypeOK
  <2> QED BY <1>7, <2>1, RpcReturnsType DEF RpcNoMemory, ReplyType
<1>8. CASE RpcTimeout \/ RpcReadFails
  BY <1>0, <1>8, RpcReturnsType DEF RpcTimeout, RpcReadFails, ReplyType, TypeOK
<1>9. CASE WaitFromSocket
  <2>1. inbound' \in Seq(Frame) /\ Head(inbound).n \in Nat
    BY <1>0, <1>h, <1>9 DEF WaitFromSocket
  <2>2. handed' \in Seq(Nat)
    BY <1>9, <2>1 DEF WaitFromSocket, TypeOK
  <2> QED BY <1>9, <2>1, <2>2 DEF TypeOK, WaitFromSocket, WaitReturns, broker
<1>10. CASE WaitTimeout \/ WaitReadFails
  <2>1. WaitReturns /\ UNCHANGED <<inbound, handed>> /\ pc = "wait"
    BY <1>10 DEF WaitTimeout, WaitReadFails
  <2>2. req \in {NoRequest} /\ timed' = FALSE /\ pc' = "idle" /\ req' = req
    BY <2>1 DEF TypeOK, WaitReturns
  <2>3. inbound' = inbound /\ handed' = handed
    BY <2>1
  <2> QED BY <2>1, <2>2, <2>3 DEF TypeOK, WaitReturns, broker
<1>11. ASSUME NEW r \in pending, BrokerAnswers(r) PROVE TypeOK'
  <2>1. r \in Request /\ r.ch \in Channel \union {0} /\ r.op \in Op
    BY DEF TypeOK, Request
  <2>2. PICK kind \in Replies[r.op] : BrokerSends(kind, r.ch, r)
    BY <1>11 DEF BrokerAnswers
  <2>3. kind \in Kind
    BY <2>1, KindFacts DEF Kind
  <2>4. /\ pending' \subseteq Request /\ closed' \subseteq Channel \union {0}
        /\ midContent' \subseteq Channel
    BY <1>11 DEF BrokerAnswers, TypeOK
  <2> QED BY <2>1, <2>2, <2>3, <2>4, BrokerSendsType
<1>12. ASSUME NEW ch \in Channel,
              BrokerDelivers(ch) \/ BrokerSendsContent(ch) \/ BrokerClosesChannel(ch)
       PROVE  TypeOK'
  <2>1. PICK kind \in Kind : BrokerSends(kind, ch, NoRequest)
    BY <1>12 DEF BrokerDelivers, BrokerSendsContent, BrokerClosesChannel,
                 Kind, PushedKind, CloseKind
  <2>2. /\ pending' \subseteq Request /\ closed' \subseteq Channel \union {0}
        /\ midContent' \subseteq Channel
    BY <1>12 DEF BrokerDelivers, BrokerSendsContent, BrokerClosesChannel, TypeOK
  <2> QED BY <2>1, <2>2, BrokerSendsType
<1>13. CASE BrokerHeartbeat \/ BrokerClosesConnection
  <2>1. PICK kind \in Kind : BrokerSends(kind, 0, NoRequest)
    BY <1>13 DEF BrokerHeartbeat, BrokerClosesConnection, Kind, PushedKind, CloseKind
  <2>2. /\ pending' \subseteq Request /\ closed' \subseteq Channel \union {0}
        /\ midContent' \subseteq Channel
    BY <1>13 DEF BrokerHeartbeat, BrokerClosesConnection, TypeOK
  <2> QED BY <2>1, <2>2, BrokerSendsType
<1>14. ASSUME NEW how \in {"garbled", "closed"}, LineFails(how) PROVE TypeOK'
  BY <1>14 DEF TypeOK, LineFails, client
<1>15. CASE UNCHANGED vars
  BY <1>15 DEF TypeOK, vars, client, broker
<1>16. midContent \subseteq Channel
  BY DEF TypeOK
<1> QED
  BY <1>1, <1>2, <1>3, <1>4, <1>5, <1>6, <1>7, <1>8, <1>9, <1>10, <1>11, <1>12,
     <1>13, <1>14, <1>15, <1>16 DEF Next, ClientCalls, ClientRuns, Broker

(* The initial state has the types.                                        *)
LEMMA TypeCorrectInit == Init => TypeOK
<1> SUFFICES ASSUME Init PROVE TypeOK
  OBVIOUS
<1>1. inbound \in Seq(Frame) /\ queued \in Seq(Frame) /\ handed \in Seq(Nat)
  BY DEF Init
<1>2. /\ timed \in BOOLEAN /\ pc = "idle" /\ req = NoRequest /\ result = NoResult
      /\ line = "up" /\ calls = 0 /\ sent = 0
  BY DEF Init
<1>3. /\ unanswered = {} /\ pending = {} /\ taken = {} /\ dropped = {}
      /\ closed = {} /\ midContent = {}
  BY DEF Init
<1> QED BY <1>1, <1>2, <1>3 DEF TypeOK

(* Every variable keeps its type.                                          *)
THEOREM TypeCorrect == Spec => []TypeOK
  BY TypeCorrectInit, TypeStep, PTL DEF Spec

-----------------------------------------------------------------------------
(* The invariant is inductive.                                             *)

(* The invariant of the calls holds before the first call.                 *)
LEMMA RpcInit == Init => RpcInv
<1> SUFFICES ASSUME Init PROVE RpcInv
  OBVIOUS
<1>1. TypeOK
  BY TypeCorrectInit
<1>2. OwedInv /\ CurrentInv
  BY DEF Init, OwedInv, CurrentInv
<1>3. ResultInv
  BY DEF Init, ResultInv, StaleReplyWasAbandoned, ReplyIsOurs, NoResult
<1> QED BY <1>1, <1>2, <1>3 DEF RpcInv

(* A call that returns with the request its reply is for, or with none.    *)
LEMMA ReturnInv ==
  ASSUME RpcInv, TypeOK', pc = "rpc", NEW type, NEW for, RpcReturns(type, for),
         queued' = queued,
         \/ inbound' = inbound /\ for = NoRequest
         \/ /\ inbound # <<>> /\ inbound' = Tail(inbound)
            /\ for \in {NoRequest, Head(inbound).for},
         type = "NORMAL" => /\ Owed(for) /\ for.ch = req.ch
                            /\ Replies[for.op] \intersect Replies[req.op] # {}
  PROVE  RpcInv'
<1>0. /\ TypeOK /\ OwedInv /\ CurrentInv /\ inbound \in Seq(Frame)
      /\ req \in Request /\ req # NoRequest
      /\ unanswered \subseteq Request /\ calls \in Nat
      /\ \A r \in Request : r.n \in Nat /\ r # NoRequest
  BY KindFacts DEF RpcInv, TypeOK, Request
<1>1. /\ pc' = "idle" /\ req' = NoRequest /\ calls' = calls /\ pending' = pending
      /\ result' = [type |-> type, req |-> req, for |-> for]
      /\ unanswered' = IF for = req THEN unanswered ELSE unanswered \union {req}
  BY DEF RpcReturns, broker
<1>2. ASSUME NEW i \in DOMAIN inbound'
      PROVE  \E j \in DOMAIN inbound : /\ inbound'[i] = inbound[j]
                                       /\ for = req => j # 1
  <2>1. CASE inbound' = inbound /\ for = NoRequest
    <3>1. i \in DOMAIN inbound /\ inbound'[i] = inbound[i] /\ for # req
      BY <1>0, <2>1
    <3> QED BY <3>1
  <2>2. CASE inbound # <<>> /\ inbound' = Tail(inbound)
    <3>1. /\ i \in Nat \ {0} /\ i + 1 \in DOMAIN inbound
          /\ inbound'[i] = inbound[i + 1]
      BY <1>0, <2>2, TailFacts
    <3>2. i + 1 # 1
      BY <3>1
    <3> QED BY <3>1, <3>2
  <2> QED BY <2>1, <2>2
<1>3. for = req => /\ inbound # <<>> /\ 1 \in DOMAIN inbound /\ inbound[1].for = req
  BY <1>0, TailFacts
<1>4. for = req => /\ req \notin pending
                   /\ \A j \in DOMAIN inbound : j # 1 => inbound[j].for # req
  BY <1>3, <1>0 DEF CurrentInv
<1>5. OwedInv'
  <2>1. \A r \in pending' : r \in {req'} \union unanswered'
    BY <1>0, <1>1, <1>4 DEF OwedInv, Owed
  <2>2. ASSUME NEW i \in DOMAIN inbound'
        PROVE  AnswersWell(inbound'[i]) /\
                 (inbound'[i].for # NoRequest => inbound'[i].for \in {req'} \union unanswered')
    <3>1. PICK j \in DOMAIN inbound : inbound'[i] = inbound[j] /\ (for = req => j # 1)
      BY <1>2
    <3> QED BY <1>0, <1>1, <1>4, <3>1 DEF OwedInv, Owed
  <2>3. \A i \in DOMAIN queued' : AnswersWell(queued'[i]) /\
          (queued'[i].for # NoRequest => queued'[i].for \in unanswered')
    BY <1>0, <1>1 DEF OwedInv
  <2> QED BY <2>1, <2>2, <2>3 DEF OwedInv, Owed
<1>6. CurrentInv'
  BY <1>0, <1>1 DEF CurrentInv
<1>7. ResultInv'
  <2> SUFFICES ASSUME type = "NORMAL", for # req
               PROVE  /\ ReuseAfterFailure
                      /\ for \in unanswered /\ for.n < req.n /\ for.ch = req.ch
                      /\ Replies[for.op] \intersect Replies[req.op] # {}
    BY <1>1 DEF ResultInv, StaleReplyWasAbandoned, ReplyIsOurs
  <2>1. for \in unanswered /\ for.ch = req.ch
    BY DEF Owed
  <2> QED BY <1>0, <2>1 DEF CurrentInv
<1> QED BY <1>5, <1>6, <1>7 DEF RpcInv

(* A frame the broker sends: no answer, or the answer to r, which is       *)
(* pending no more.                                                        *)
LEMMA BrokerSendsInv ==
  ASSUME RpcInv, TypeOK', NEW kind \in Kind, NEW ch \in Channel \union {0}, NEW for,
         BrokerSends(kind, ch, for),
         \/ /\ for = NoRequest /\ kind \in CloseKind \union PushedKind
            /\ pending' \subseteq pending
         \/ /\ for \in pending /\ pending' = pending \ {for}
            /\ ch = for.ch /\ kind \in Replies[for.op]
  PROVE  RpcInv'
<1> DEFINE f == [n |-> sent + 1, ch |-> ch, kind |-> kind, for |-> for]
<1>0. /\ TypeOK /\ OwedInv /\ CurrentInv /\ ResultInv /\ inbound \in Seq(Frame)
      /\ pending \subseteq Request /\ NoRequest \notin Request
      /\ req \in IF pc = "rpc" THEN Request ELSE {NoRequest}
      /\ f \in Frame
  BY KindFacts, SentFrameType DEF RpcInv, TypeOK
<1>1. /\ inbound' = Append(inbound, f)
      /\ UNCHANGED <<queued, pc, req, result, calls, unanswered>>
  BY DEF BrokerSends, client
<1>2. \A i \in DOMAIN inbound' :
        \/ i \in DOMAIN inbound /\ inbound'[i] = inbound[i]
        \/ i = Len(inbound) + 1 /\ inbound'[i] = f
  BY <1>0, <1>1, AppendFacts
<1>3. /\ AnswersWell(f)
      /\ f.for # NoRequest => Owed(f.for) /\ f.for \in pending /\ f.for \notin pending'
      /\ f.for = for /\ pending' \subseteq pending
  BY <1>0 DEF AnswersWell, OwedInv
<1> HIDE DEF f
<1>4. OwedInv'
  <2>1. \A r \in pending' : r \in {req'} \union unanswered'
    BY <1>0, <1>1, <1>3 DEF OwedInv, Owed
  <2>2. \A i \in DOMAIN inbound' : AnswersWell(inbound'[i]) /\
          (inbound'[i].for # NoRequest => inbound'[i].for \in {req'} \union unanswered')
    BY <1>0, <1>1, <1>2, <1>3 DEF OwedInv, Owed
  <2>3. \A i \in DOMAIN queued' : AnswersWell(queued'[i]) /\
          (queued'[i].for # NoRequest => queued'[i].for \in unanswered')
    BY <1>0, <1>1 DEF OwedInv
  <2> QED BY <2>1, <2>2, <2>3 DEF OwedInv, Owed
<1>5. CurrentInv'
  <2>1. pc = "rpc" =>
          /\ req \in pending' => \A i \in DOMAIN inbound' : inbound'[i].for # req
          /\ \A i, j \in DOMAIN inbound' :
               inbound'[i].for = req /\ inbound'[j].for = req => i = j
    <3> SUFFICES ASSUME pc = "rpc", req # NoRequest
                 PROVE  /\ req \in pending' => \A i \in DOMAIN inbound' : inbound'[i].for # req
                        /\ \A i, j \in DOMAIN inbound' :
                             inbound'[i].for = req /\ inbound'[j].for = req => i = j
      BY <1>0
    <3>1. f.for = req => \A i \in DOMAIN inbound : inbound[i].for # req
      BY <1>0, <1>3 DEF CurrentInv
    <3>2. req \in pending' => \A i \in DOMAIN inbound' : inbound'[i].for # req
      BY <1>0, <1>2, <1>3 DEF CurrentInv
    <3>3. \A i, j \in DOMAIN inbound' :
            inbound'[i].for = req /\ inbound'[j].for = req => i = j
      BY <1>0, <1>2, <3>1 DEF CurrentInv
    <3> QED BY <3>2, <3>3
  <2> QED BY <1>0, <1>1, <2>1 DEF CurrentInv
<1>6. ResultInv'
  BY <1>0, <1>1 DEF ResultInv, StaleReplyWasAbandoned, ReplyIsOurs
<1> QED BY <1>4, <1>5, <1>6 DEF RpcInv

(* Every step keeps the invariant of the calls.                            *)
LEMMA RpcStep == RpcInv /\ [Next]_vars => RpcInv'
<1> SUFFICES ASSUME RpcInv, [Next]_vars PROVE RpcInv'
  OBVIOUS
<1>0. /\ TypeOK /\ TypeOK' /\ OwedInv /\ CurrentInv /\ ResultInv
      /\ inbound \in Seq(Frame) /\ queued \in Seq(Frame)
      /\ NoRequest \notin Request /\ pending \subseteq Request /\ unanswered \subseteq Request
      /\ \A r \in Request : r.n \in Nat
      /\ calls \in Nat
  BY TypeStep, KindFacts DEF RpcInv, TypeOK, Request
<1>f. \A f \in Frame : f.for \in Request \union {NoRequest}
  BY DEF Frame
<1>i. \A i \in DOMAIN inbound : inbound[i].for \in Request \union {NoRequest}
  BY <1>0, <1>f
<1>r. pc # "rpc" => req = NoRequest
  BY <1>0 DEF TypeOK
<1>1. ASSUME NEW op \in Op, NEW ch \in ChannelsOf(op), StartRpc(op, ch) PROVE RpcInv'
  <2> DEFINE r == [n |-> calls + 1, op |-> op, ch |-> ch]
  <2>1. /\ pc = "idle" /\ req' = r /\ calls' = calls + 1 /\ r.n = calls + 1
        /\ pending' \subseteq pending \union {r}
        /\ ReuseAfterFailure \/ \A u \in unanswered : u.ch # r.ch
        /\ UNCHANGED <<inbound, queued, unanswered, result>>
    BY <1>1 DEF StartRpc
  <2> HIDE DEF r
  <2>2. /\ \A u \in unanswered : u.n < calls + 1
        /\ \A i \in DOMAIN inbound : inbound[i].for # NoRequest => inbound[i].for \in unanswered
        /\ \A p \in pending : p \in unanswered
    BY <1>0, <1>i, <1>r, <2>1 DEF CurrentInv, OwedInv, Owed
  <2>3. \A i \in DOMAIN inbound : inbound[i].for # r
    BY <1>0, <2>1, <2>2 DEF NoRequest
  <2>4. OwedInv'
    BY <1>0, <2>1, <2>2 DEF OwedInv, Owed
  <2>5. CurrentInv'
    BY <1>0, <2>1, <2>2, <2>3 DEF CurrentInv
  <2>6. ResultInv'
    BY <1>0, <2>1 DEF ResultInv, StaleReplyWasAbandoned, ReplyIsOurs
  <2> QED BY <1>0, <2>4, <2>5, <2>6 DEF RpcInv
<1>2. ASSUME NEW op \in Op, NEW ch \in ChannelsOf(op), RpcSendFails(op, ch) PROVE RpcInv'
  <2> DEFINE r == [n |-> calls + 1, op |-> op, ch |-> ch]
  <2>1. /\ pc = "idle" /\ pc' = pc /\ calls' = calls + 1 /\ r.n = calls + 1
        /\ unanswered' = unanswered \union {r}
        /\ result'.type = "LIBRARY_EXCEPTION"
        /\ UNCHANGED <<inbound, queued, req, pending>>
    BY <1>2 DEF RpcSendFails, broker
  <2> HIDE DEF r
  <2>2. OwedInv'
    BY <1>0, <2>1 DEF OwedInv, Owed
  <2>3. CurrentInv'
    BY <1>0, <2>1 DEF CurrentInv
  <2>4. ResultInv'
    BY <2>1 DEF ResultInv, StaleReplyWasAbandoned, ReplyIsOurs
  <2> QED BY <1>0, <2>2, <2>3, <2>4 DEF RpcInv
<1>3. CASE RpcTakesFrame
  <2> DEFINE f == Head(inbound)
  <2>1. /\ pc = "rpc" /\ inbound # <<>> /\ inbound' = Tail(inbound) /\ queued' = queued
        /\ Affects(f, req)
        /\ RpcReturns(IF f.kind \in Replies[req.op] THEN "NORMAL" ELSE "SERVER_EXCEPTION", f.for)
    BY <1>3 DEF RpcTakesFrame
  <2>2. /\ f = inbound[1] /\ 1 \in DOMAIN inbound
        /\ AnswersWell(f) /\ (f.for # NoRequest => Owed(f.for))
    BY <1>0, <2>1, TailFacts DEF OwedInv
  <2>3. req \in Request /\ req.op \in Op
    BY <1>0, <2>1 DEF TypeOK, Request
  <2> HIDE DEF f
  <2>4. f.kind \in Replies[req.op] =>
          /\ f.for # NoRequest /\ f.ch = req.ch /\ f.ch = f.for.ch
          /\ f.kind \in Replies[f.for.op]
    BY <2>1, <2>2, <2>3, KindFacts DEF Affects, AnswersWell, CloseKind
  <2>5. f.kind \in Replies[req.op] =>
          /\ Owed(f.for) /\ f.for.ch = req.ch
          /\ Replies[f.for.op] \intersect Replies[req.op] # {}
    BY <2>2, <2>4
  <2> DEFINE type == IF f.kind \in Replies[req.op] THEN "NORMAL" ELSE "SERVER_EXCEPTION"
  <2>6. type = "NORMAL" => f.kind \in Replies[req.op]
    OBVIOUS
  <2>7. RpcReturns(type, f.for)
    BY <2>1
  <2>8. f.for = Head(inbound).for
    BY DEF f
  <2> HIDE DEF type
  <2> QED BY <1>0, <2>1, <2>5, <2>6, <2>7, <2>8, ReturnInv
<1>4. CASE RpcSetsAside
  <2> DEFINE f == Head(inbound)
  <2>1. /\ pc = "rpc" /\ inbound # <<>> /\ inbound' = Tail(inbound)
        /\ queued' = Append(queued, f) /\ ~Affects(f, req)
        /\ UNCHANGED <<pc, req, result, calls, unanswered, pending>>
    BY <1>4 DEF RpcSetsAside, client, broker
  <2>2. /\ f = inbound[1] /\ 1 \in DOMAIN inbound /\ f \in Frame
        /\ AnswersWell(f) /\ (f.for # NoRequest => Owed(f.for))
    BY <1>0, <2>1, TailFacts DEF OwedInv
  <2> HIDE DEF f
  <2>3. f.for # req
    BY <1>0, <2>1, <2>2, KindFacts DEF TypeOK, AnswersWell, Affects
  <2>4. \A i \in DOMAIN inbound' : /\ i \in Nat \ {0} /\ i + 1 \in DOMAIN inbound
                                  /\ inbound'[i] = inbound[i + 1]
    BY <1>0, <2>1, TailFacts
  <2>5. \A i \in DOMAIN queued' :
          \/ i \in DOMAIN queued /\ queued'[i] = queued[i]
          \/ i = Len(queued) + 1 /\ queued'[i] = f
    BY <1>0, <2>1, <2>2, AppendFacts
  <2>6. OwedInv'
    BY <1>0, <2>1, <2>2, <2>3, <2>4, <2>5 DEF OwedInv, Owed
  <2>7. CurrentInv'
    <3>1. \A i, j \in DOMAIN inbound' :
            inbound'[i].for = req /\ inbound'[j].for = req => i = j
      BY <1>0, <2>1, <2>4 DEF CurrentInv
    <3>2. req \in pending => \A i \in DOMAIN inbound' : inbound'[i].for # req
      BY <1>0, <2>1, <2>4 DEF CurrentInv
    <3> QED BY <1>0, <2>1, <3>1, <3>2 DEF CurrentInv
  <2>8. ResultInv'
    BY <1>0, <2>1 DEF ResultInv, StaleReplyWasAbandoned, ReplyIsOurs
  <2> QED BY <1>0, <2>6, <2>7, <2>8 DEF RpcInv
<1>5. CASE RpcNoMemory
  <2>1. /\ pc = "rpc" /\ inbound # <<>> /\ inbound' = Tail(inbound) /\ queued' = queued
        /\ RpcReturns("LIBRARY_EXCEPTION", NoRequest)
    BY <1>5 DEF RpcNoMemory
  <2> QED BY <1>0, <2>1, ReturnInv
<1>6. CASE RpcTimeout \/ RpcReadFails
  <2>1. /\ pc = "rpc" /\ inbound' = inbound /\ queued' = queued
        /\ RpcReturns("LIBRARY_EXCEPTION", NoRequest)
    BY <1>6 DEF RpcTimeout, RpcReadFails
  <2> QED BY <1>0, <2>1, ReturnInv
<1>7. CASE WaitFromQueue
  <2>1. /\ queued # <<>> /\ queued' = Tail(queued) /\ pc = "idle"
        /\ UNCHANGED <<inbound, pc, req, result, calls, unanswered, pending>>
    BY <1>7 DEF WaitFromQueue, client, broker
  <2>2. \A i \in DOMAIN queued' : i + 1 \in DOMAIN queued /\ queued'[i] = queued[i + 1]
    BY <1>0, <2>1, TailFacts
  <2>3. OwedInv'
    BY <1>0, <2>1, <2>2 DEF OwedInv, Owed
  <2>4. CurrentInv' /\ ResultInv'
    BY <1>0, <2>1 DEF CurrentInv, ResultInv, StaleReplyWasAbandoned, ReplyIsOurs
  <2> QED BY <1>0, <2>3, <2>4 DEF RpcInv
<1>8. CASE WaitFromSocket
  <2>1. /\ inbound # <<>> /\ inbound' = Tail(inbound) /\ pc' = "idle"
        /\ UNCHANGED <<queued, req, result, calls, unanswered, pending>>
    BY <1>8 DEF WaitFromSocket, WaitReturns, broker
  <2>2. \A i \in DOMAIN inbound' : i + 1 \in DOMAIN inbound /\ inbound'[i] = inbound[i + 1]
    BY <1>0, <2>1, TailFacts
  <2>3. OwedInv'
    BY <1>0, <2>1, <2>2 DEF OwedInv, Owed
  <2>4. CurrentInv' /\ ResultInv'
    BY <1>0, <2>1 DEF CurrentInv, ResultInv, StaleReplyWasAbandoned, ReplyIsOurs
  <2> QED BY <1>0, <2>3, <2>4 DEF RpcInv
<1>9. ASSUME \/ WaitTimeout \/ WaitReadFails \/ UNCHANGED vars
             \/ \E withTimer \in BOOLEAN : StartWait(withTimer)
      PROVE  RpcInv'
  <2>1. /\ UNCHANGED <<inbound, queued, req, result, calls, unanswered, pending>>
        /\ pc' = "rpc" => pc = "rpc"
    BY <1>9 DEF WaitTimeout, WaitReadFails, WaitReturns, StartWait, vars, client, broker
  <2>2. OwedInv' /\ CurrentInv' /\ ResultInv'
    BY <1>0, <2>1 DEF OwedInv, Owed, CurrentInv, ResultInv, StaleReplyWasAbandoned, ReplyIsOurs
  <2> QED BY <1>0, <2>2 DEF RpcInv
<1>10. ASSUME NEW how \in {"garbled", "closed"}, LineFails(how) PROVE RpcInv'
  <2>1. /\ UNCHANGED <<inbound, queued, pc, req, result, calls, unanswered>>
        /\ pending' = {}
    BY <1>10 DEF LineFails, client
  <2>2. OwedInv' /\ CurrentInv' /\ ResultInv'
    BY <1>0, <2>1 DEF OwedInv, Owed, CurrentInv, ResultInv, StaleReplyWasAbandoned, ReplyIsOurs
  <2> QED BY <1>0, <2>2 DEF RpcInv
<1>11. ASSUME NEW r \in pending, BrokerAnswers(r) PROVE RpcInv'
  <2>1. PICK kind \in Replies[r.op] : BrokerSends(kind, r.ch, r)
    BY <1>11 DEF BrokerAnswers
  <2>2. r \in Request /\ r.op \in Op /\ r.ch \in Channel \union {0}
    BY <1>0 DEF Request
  <2>3. kind \in Kind /\ pending' = pending \ {r}
    BY <1>11, <2>2, KindFacts DEF Kind, BrokerAnswers
  <2> QED BY <1>0, <2>1, <2>2, <2>3, BrokerSendsInv
<1>12. ASSUME \/ \E ch \in Channel : BrokerDelivers(ch) \/ BrokerClosesChannel(ch)
              \/ \E ch \in midContent : BrokerSendsContent(ch)
              \/ BrokerHeartbeat \/ BrokerClosesConnection
       PROVE  RpcInv'
  <2>1. PICK kind \in CloseKind \union PushedKind, ch \in Channel \union {0} :
          BrokerSends(kind, ch, NoRequest)
    BY <1>0, <1>12 DEF TypeOK, BrokerDelivers, BrokerSendsContent, BrokerClosesChannel,
       BrokerHeartbeat, BrokerClosesConnection, PushedKind, CloseKind
  <2>2. pending' \subseteq pending
    BY <1>12 DEF BrokerDelivers, BrokerSendsContent, BrokerClosesChannel,
       BrokerHeartbeat, BrokerClosesConnection
  <2>3. kind \in Kind
    BY DEF Kind
  <2> QED BY <1>0, <2>1, <2>2, <2>3, BrokerSendsInv
<1> QED
  BY <1>1, <1>2, <1>3, <1>4, <1>5, <1>6, <1>7, <1>8, <1>9, <1>10, <1>11, <1>12
     DEF Next, ClientCalls, ClientRuns, Broker

(* A reply that is not the answer to the call's own request is the late    *)
(* answer to a call that gave up, on the same channel and of a kind both   *)
(* expect.                                                                 *)
THEOREM StaleRepliesWereAbandoned == Spec => []StaleReplyWasAbandoned
<1>1. RpcInv => StaleReplyWasAbandoned
  BY DEF RpcInv, ResultInv
<1> QED BY <1>1, RpcInit, RpcStep, PTL DEF Spec

(* A program that does not reuse a channel after a failed call never takes *)
(* another request's answer for its own.                                   *)
THEOREM RepliesAreOurs == Spec => []ReplyIsOurs
<1>1. RpcInv => ReplyIsOurs
  BY DEF RpcInv, ResultInv
<1> QED BY <1>1, RpcInit, RpcStep, PTL DEF Spec

(* The call that waits for an answer never queues it.                      *)
THEOREM AnswersStayInReach == Spec => []AnswerNotSetAside
<1>1. RpcInv => AnswerNotSetAside
  <2> SUFFICES ASSUME RpcInv, pc = "rpc", NEW i \in DOMAIN queued PROVE queued[i].for # req
    BY DEF AnswerNotSetAside
  <2>1. req \in Request /\ req.n = calls /\ calls \in Nat /\ req # NoRequest
    BY KindFacts DEF RpcInv, TypeOK, CurrentInv
  <2>2. \A u \in unanswered : u.n < calls
    BY DEF RpcInv, CurrentInv
  <2> QED BY <2>1, <2>2 DEF RpcInv, OwedInv
<1> QED BY <1>1, RpcInit, RpcStep, PTL DEF Spec

-----------------------------------------------------------------------------
(* The connection implements the mailbox: read with queued \o inbound as   *)
(* the box, every step is a step of FrameMailbox or changes nothing of it. *)

(* A call waits on the socket only when nothing is put aside.              *)
WaitInv == pc = "wait" => queued = <<>>

(* Every step keeps the invariant of the frames read past.                 *)
LEMMA WaitStep == WaitInv /\ [Next]_vars => WaitInv'
<1> SUFFICES ASSUME WaitInv, [Next]_vars PROVE WaitInv'
  OBVIOUS
<1> USE DEF WaitInv
<1>1. CASE UNCHANGED vars
  BY <1>1 DEF vars, client
<1>2. CASE ClientCalls
  BY <1>2 DEF ClientCalls, StartRpc, RpcSendFails, StartWait, WaitFromQueue, client
<1>3. CASE ClientRuns
  BY <1>3 DEF ClientRuns, RpcTakesFrame, RpcSetsAside, RpcNoMemory, RpcTimeout, RpcReadFails,
              RpcReturns, WaitFromSocket, WaitTimeout, WaitReadFails, WaitReturns, client
<1>4. CASE Broker
  BY <1>4 DEF Broker, BrokerAnswers, BrokerDelivers, BrokerSendsContent, BrokerHeartbeat,
              BrokerClosesChannel, BrokerClosesConnection, LineFails, BrokerSends, client
<1> QED BY <1>1, <1>2, <1>3, <1>4 DEF Next

(* The box and the counters of FrameMailbox.                               *)
box == queued \o inbound
Unseen == UNCHANGED <<sent, queued, inbound, handed, taken, dropped>>

(* The reader's moves: from the socket to the queue, to an RPC, or lost.   *)
LEMMA SocketFrameLeaves ==
  ASSUME TypeOK, inbound # <<>>, inbound' = Tail(inbound)
  PROVE  /\ queued' = Append(queued, Head(inbound)) => box' = box
         /\ queued' = queued =>
              \E i \in DOMAIN box : box[i] = Head(inbound) /\ box' = RemoveAt(box, i)
         /\ queued = <<>> /\ queued' = <<>> =>
              box # <<>> /\ Head(box) = Head(inbound) /\ box' = Tail(box)
<1>0. queued \in Seq(Frame) /\ inbound \in Seq(Frame)
  BY DEF TypeOK
<1>1. ASSUME queued' = Append(queued, Head(inbound)) PROVE box' = box
  BY <1>0, <1>1, MoveAcross DEF box
<1>2. ASSUME queued' = queued
      PROVE  \E i \in DOMAIN box : box[i] = Head(inbound) /\ box' = RemoveAt(box, i)
  <2>1. /\ Len(queued) + 1 \in DOMAIN (queued \o inbound)
        /\ (queued \o inbound)[Len(queued) + 1] = Head(inbound)
        /\ RemoveAt(queued \o inbound, Len(queued) + 1) = queued \o Tail(inbound)
    BY <1>0, RemoveMiddle
  <2> QED BY <1>2, <2>1 DEF box
<1>3. ASSUME queued = <<>>, queued' = <<>>
      PROVE  box # <<>> /\ Head(box) = Head(inbound) /\ box' = Tail(box)
  <2>1. box = inbound /\ box' = Tail(inbound)
    BY <1>0, <1>3, ConcatEmptySeq DEF box
  <2> QED BY <2>1
<1> QED BY <1>1, <1>2, <1>3

(* The serials of a sequence of frames change with it.                     *)
LEMMA SerialsType ==
  ASSUME NEW s \in Seq(Frame)
  PROVE  /\ Serials(s) \in Seq(Nat) /\ Len(Serials(s)) = Len(s)
         /\ \A i \in 1 .. Len(s) : Serials(s)[i] = s[i].n
<1>1. \A i \in 1 .. Len(s) : s[i].n \in Nat
  <2>1. \A f \in Frame : f.n \in Nat
    BY DEF Frame
  <2> QED BY <2>1, ElementOfSeq
<1>2. Serials(s) = [i \in 1 .. Len(s) |-> s[i].n] /\ Len(s) \in Nat
  BY DEF Serials
<1>3. [i \in 1 .. Len(s) |-> s[i].n] \in Seq(Nat)
  BY <1>1, <1>2, IsASeq
<1> QED BY <1>2, <1>3

(* A frame more is a serial number more.                                   *)
LEMMA SerialsAppend ==
  ASSUME NEW s \in Seq(Frame), NEW f \in Frame
  PROVE  Serials(Append(s, f)) = Append(Serials(s), f.n)
<1>1. /\ Append(s, f) \in Seq(Frame) /\ Len(Append(s, f)) = Len(s) + 1 /\ f.n \in Nat
      /\ \A i \in 1 .. Len(s) + 1 : Append(s, f)[i] = IF i = Len(s) + 1 THEN f ELSE s[i]
      /\ Len(s) \in Nat
  BY DEF Frame
<1>2. /\ Serials(Append(s, f)) \in Seq(Nat) /\ Len(Serials(Append(s, f))) = Len(s) + 1
      /\ \A i \in 1 .. Len(s) + 1 : Serials(Append(s, f))[i] = Append(s, f)[i].n
  BY <1>1, SerialsType
<1>3. /\ Serials(s) \in Seq(Nat) /\ Len(Serials(s)) = Len(s)
      /\ \A i \in 1 .. Len(s) : Serials(s)[i] = s[i].n
  BY SerialsType
<1>4. /\ Append(Serials(s), f.n) \in Seq(Nat) /\ Len(Append(Serials(s), f.n)) = Len(s) + 1
      /\ \A i \in 1 .. Len(s) + 1 :
           Append(Serials(s), f.n)[i] = IF i = Len(s) + 1 THEN f.n ELSE Serials(s)[i]
  BY <1>1, <1>3
<1>5. \A i \in 1 .. Len(s) + 1 : i # Len(s) + 1 => i \in 1 .. Len(s)
  BY <1>1
<1>6. \A i \in 1 .. Len(s) + 1 : Serials(Append(s, f))[i] = Append(Serials(s), f.n)[i]
  BY <1>1, <1>2, <1>3, <1>4, <1>5
<1> QED BY <1>2, <1>4, <1>6, SeqEqual

(* A frame less is a serial number less.                                   *)
LEMMA SerialsTail ==
  ASSUME NEW s \in Seq(Frame), s # <<>>
  PROVE  /\ Serials(s) # <<>> /\ Head(Serials(s)) = Head(s).n
         /\ Tail(Serials(s)) = Serials(Tail(s))
<1>1. /\ Tail(s) \in Seq(Frame) /\ Len(Tail(s)) = Len(s) - 1 /\ Len(s) \in Nat \ {0}
      /\ Head(s) = s[1] /\ 1 \in 1 .. Len(s)
      /\ \A i \in 1 .. Len(s) - 1 : Tail(s)[i] = s[i + 1] /\ i + 1 \in 1 .. Len(s)
  OBVIOUS
<1>2. /\ Serials(s) \in Seq(Nat) /\ Len(Serials(s)) = Len(s)
      /\ \A i \in 1 .. Len(s) : Serials(s)[i] = s[i].n
  BY SerialsType
<1>3. /\ Serials(Tail(s)) \in Seq(Nat) /\ Len(Serials(Tail(s))) = Len(s) - 1
      /\ \A i \in 1 .. Len(s) - 1 : Serials(Tail(s))[i] = Tail(s)[i].n
  <2>1. /\ Serials(Tail(s)) \in Seq(Nat) /\ Len(Serials(Tail(s))) = Len(Tail(s))
        /\ \A i \in 1 .. Len(Tail(s)) : Serials(Tail(s))[i] = Tail(s)[i].n
    BY <1>1, SerialsType
  <2> QED BY <1>1, <2>1
<1>4. /\ Serials(s) # <<>> /\ Head(Serials(s)) = Serials(s)[1]
      /\ Tail(Serials(s)) \in Seq(Nat) /\ Len(Tail(Serials(s))) = Len(s) - 1
      /\ \A i \in 1 .. Len(s) - 1 : Tail(Serials(s))[i] = Serials(s)[i + 1]
  BY <1>1, <1>2
<1>5. \A i \in 1 .. Len(s) - 1 : Tail(Serials(s))[i] = Serials(Tail(s))[i]
  BY <1>1, <1>2, <1>3, <1>4
<1>6. Tail(Serials(s)) = Serials(Tail(s))
  BY <1>3, <1>4, <1>5, SeqEqual
<1> QED BY <1>1, <1>2, <1>4, <1>6

(* Taking a frame out takes its serial number out.                         *)
LEMMA SerialsRemoveAt ==
  ASSUME NEW s \in Seq(Frame), NEW i \in DOMAIN s
  PROVE  /\ i \in DOMAIN Serials(s) /\ Serials(s)[i] = s[i].n
         /\ Serials(RemoveAt(s, i)) = RemoveAt(Serials(s), i)
<1>1. i \in 1 .. Len(s) /\ Len(s) \in Nat
  OBVIOUS
<1>2. /\ Serials(s) \in Seq(Nat) /\ Len(Serials(s)) = Len(s)
      /\ \A k \in 1 .. Len(s) : Serials(s)[k] = s[k].n
  BY SerialsType
<1>3. /\ RemoveAt(s, i) \in Seq(Frame) /\ Len(RemoveAt(s, i)) = Len(s) - 1
      /\ \A k \in 1 .. Len(s) - 1 : RemoveAt(s, i)[k] = IF k < i THEN s[k] ELSE s[k + 1]
  BY <1>1, RemoveAtFacts
<1>4. /\ RemoveAt(Serials(s), i) \in Seq(Nat) /\ Len(RemoveAt(Serials(s), i)) = Len(s) - 1
      /\ \A k \in 1 .. Len(s) - 1 :
           RemoveAt(Serials(s), i)[k] = IF k < i THEN Serials(s)[k] ELSE Serials(s)[k + 1]
  <2>1. i \in 1 .. Len(Serials(s))
    BY <1>1, <1>2
  <2>2. /\ RemoveAt(Serials(s), i) \in Seq(Nat)
        /\ Len(RemoveAt(Serials(s), i)) = Len(Serials(s)) - 1
        /\ \A k \in 1 .. Len(Serials(s)) - 1 :
             RemoveAt(Serials(s), i)[k] = IF k < i THEN Serials(s)[k] ELSE Serials(s)[k + 1]
    BY <1>2, <2>1, RemoveAtFacts
  <2> QED BY <1>2, <2>2
<1>5. /\ Serials(RemoveAt(s, i)) \in Seq(Nat) /\ Len(Serials(RemoveAt(s, i))) = Len(s) - 1
      /\ \A k \in 1 .. Len(s) - 1 : Serials(RemoveAt(s, i))[k] = RemoveAt(s, i)[k].n
  <2>1. /\ Serials(RemoveAt(s, i)) \in Seq(Nat)
        /\ Len(Serials(RemoveAt(s, i))) = Len(RemoveAt(s, i))
        /\ \A k \in 1 .. Len(RemoveAt(s, i)) : Serials(RemoveAt(s, i))[k] = RemoveAt(s, i)[k].n
    BY <1>3, SerialsType
  <2> QED BY <1>3, <2>1
<1>6. \A k \in 1 .. Len(s) - 1 : k \in 1 .. Len(s) /\ k + 1 \in 1 .. Len(s)
  BY <1>1
<1>7. \A k \in 1 .. Len(s) - 1 : Serials(RemoveAt(s, i))[k] = RemoveAt(Serials(s), i)[k]
  BY <1>2, <1>3, <1>4, <1>5, <1>6
<1>8. Serials(RemoveAt(s, i)) = RemoveAt(Serials(s), i)
  BY <1>4, <1>5, <1>7, SeqEqual
<1>9. i \in DOMAIN Serials(s)
  <2>1. DOMAIN Serials(s) = 1 .. Len(Serials(s))
    BY <1>2
  <2> QED BY <1>1, <1>2, <2>1
<1> QED BY <1>1, <1>2, <1>8, <1>9

(* What the client does.                                                   *)
LEMMA ClientImplements ==
  ASSUME TypeOK, WaitInv, ClientCalls \/ ClientRuns
  PROVE  Mailbox!Next \/ UNCHANGED Mailbox!vars
<1> USE DEF Mailbox!vars, box
<1>0. box \in Seq(Frame)
  BY ConcatProperties DEF TypeOK
<1>1. CASE Unseen
  BY <1>1 DEF Unseen
<1>2. CASE RpcTakesFrame
  <2>1. PICK i \in DOMAIN box : box[i] = Head(inbound) /\ box' = RemoveAt(box, i)
    BY <1>2, SocketFrameLeaves DEF RpcTakesFrame
  <2>2. /\ i \in DOMAIN Serials(box) /\ Serials(box)[i] = Head(inbound).n
        /\ Serials(box)' = RemoveAt(Serials(box), i)
    BY <1>0, <2>1, SerialsRemoveAt
  <2>3. Mailbox!Take
    BY <1>2, <2>1, <2>2 DEF Mailbox!Take, Mailbox!RemoveAt, RemoveAt, RpcTakesFrame, RpcReturns, broker
  <2> QED BY <2>3 DEF Mailbox!Next
<1>3. CASE RpcSetsAside
  BY <1>3, SocketFrameLeaves DEF RpcSetsAside, broker
<1>4. CASE RpcNoMemory
  <2>1. PICK i \in DOMAIN box : box[i] = Head(inbound) /\ box' = RemoveAt(box, i)
    BY <1>4, SocketFrameLeaves DEF RpcNoMemory
  <2>2. /\ i \in DOMAIN Serials(box) /\ Serials(box)[i] = Head(inbound).n
        /\ Serials(box)' = RemoveAt(Serials(box), i)
    BY <1>0, <2>1, SerialsRemoveAt
  <2>3. Mailbox!Drop
    BY <1>4, <2>1, <2>2 DEF Mailbox!Drop, Mailbox!RemoveAt, RemoveAt, RpcNoMemory, RpcReturns, broker
  <2> QED BY <2>3 DEF Mailbox!Next
<1>5. CASE WaitFromSocket
  <2>1. box # <<>> /\ Head(box) = Head(inbound) /\ box' = Tail(box)
    BY <1>5, SocketFrameLeaves DEF WaitFromSocket, WaitReturns, WaitInv
  <2>2. /\ Serials(box) # <<>> /\ Head(Serials(box)) = Head(box).n
        /\ Serials(box)' = Tail(Serials(box))
    BY <1>0, <2>1, SerialsTail
  <2>3. Mailbox!Hand
    BY <1>5, <2>1, <2>2 DEF Mailbox!Hand, WaitFromSocket, WaitReturns, broker
  <2> QED BY <2>3 DEF Mailbox!Next
<1>6. CASE WaitFromQueue
  <2>1. box # <<>> /\ Head(box) = Head(queued) /\ box' = Tail(box)
    BY <1>6, TakeLeft DEF WaitFromQueue, TypeOK
  <2>2. /\ Serials(box) # <<>> /\ Head(Serials(box)) = Head(box).n
        /\ Serials(box)' = Tail(Serials(box))
    BY <1>0, <2>1, SerialsTail
  <2>3. Mailbox!Hand
    BY <1>6, <2>1, <2>2 DEF Mailbox!Hand, WaitFromQueue, broker
  <2> QED BY <2>3 DEF Mailbox!Next
<1>7. ClientCalls \/ ClientRuns => \/ Unseen \/ RpcTakesFrame \/ RpcSetsAside \/ RpcNoMemory
                                 \/ WaitFromSocket \/ WaitFromQueue
  BY DEF Unseen, ClientCalls, ClientRuns, StartRpc, RpcSendFails, StartWait,
         RpcTimeout, RpcReadFails, RpcReturns, WaitTimeout, WaitReadFails, WaitReturns, broker
<1> QED BY <1>1, <1>2, <1>3, <1>4, <1>5, <1>6, <1>7

(* What the broker and the network do.                                     *)
LEMMA BrokerImplements ==
  ASSUME TypeOK, TypeOK', Broker
  PROVE  Mailbox!Next \/ UNCHANGED Mailbox!vars
<1> USE DEF Mailbox!vars, box
<1>1. ASSUME NEW kind, NEW ch, NEW for, BrokerSends(kind, ch, for)
      PROVE  Mailbox!Next
  <2> DEFINE f == [n |-> sent + 1, ch |-> ch, kind |-> kind, for |-> for]
  <2>1. /\ sent' = sent + 1 /\ inbound' = Append(inbound, f)
        /\ UNCHANGED <<queued, handed, taken, dropped>> /\ f.n = sent + 1
    BY <1>1 DEF BrokerSends
  <2> HIDE DEF f
  <2>2. queued \in Seq(Frame) /\ inbound \in Seq(Frame) /\ inbound' \in Seq(Frame)
    BY DEF TypeOK
  <2>3. f \in Frame
    <3>1. Len(inbound) \in Nat /\ Len(inbound') = Len(inbound) + 1 /\ inbound'[Len(inbound) + 1] = f
      BY <2>1, <2>2
    <3>2. Len(inbound) + 1 \in 1 .. Len(inbound')
      BY <3>1
    <3> QED BY <2>2, <3>1, <3>2, ElementOfSeq
  <2>4. box \in Seq(Frame) /\ box' = Append(box, f)
    BY <2>1, <2>2, <2>3, AppendRight, ConcatProperties
  <2>5. Serials(box)' = Append(Serials(box), f.n)
    BY <2>3, <2>4, SerialsAppend
  <2>6. Mailbox!Arrive
    BY <2>1, <2>5 DEF Mailbox!Arrive
  <2> QED BY <2>6 DEF Mailbox!Next
<1>2. CASE \E how \in {"garbled", "closed"} : LineFails(how)
  BY <1>2 DEF LineFails
<1>3. CASE \E kind, ch, for : BrokerSends(kind, ch, for)
  BY <1>1, <1>3
<1>4. Broker => \/ \E how \in {"garbled", "closed"} : LineFails(how)
                \/ \E kind, ch, for : BrokerSends(kind, ch, for)
  BY DEF Broker, BrokerAnswers, BrokerDelivers, BrokerSendsContent, BrokerHeartbeat,
         BrokerClosesChannel, BrokerClosesConnection
<1> QED BY <1>2, <1>3, <1>4

(* The connection, whatever its channels and calls, is a mailbox: RPCs that *)
(* read past frames neither lose, double nor reorder them.                 *)
THEOREM ConnectionIsMailbox == Spec => MailboxSpec
<1>1. Init => Mailbox!Init
  <2>1. <<>> \o <<>> = <<>> /\ Serials(<<>>) = <<>>
    BY ConcatEmptySeq, EmptySeq DEF Serials
  <2> QED BY <2>1 DEF Init, Mailbox!Init
<1>2. Init => WaitInv
  BY DEF Init, WaitInv
<1>3. TypeOK /\ TypeOK' /\ WaitInv /\ [Next]_vars => [Mailbox!Next]_(Mailbox!vars)
  <2>1. UNCHANGED vars => UNCHANGED Mailbox!vars
    BY DEF vars, broker, Mailbox!vars
  <2> QED BY <2>1, ClientImplements, BrokerImplements DEF Next
<1> QED BY <1>1, <1>2, <1>3, WaitStep, TypeCorrect, PTL DEF Spec, MailboxSpec, Mailbox!Spec

-----------------------------------------------------------------------------
(* What the mailbox promises.                                              *)

(* The box, as FrameMailbox sees it.                                      *)
Mail == Serials(queued \o inbound)

(* The initial mailbox.                                                    *)
LEMMA MailboxInit == Mailbox!Init => Mailbox!MailboxInv
  BY DEF Mailbox!Init, Mailbox!MailboxInv, Mailbox!TypeOK, Mailbox!InOrder,
     Mailbox!EachOnce, Mailbox!Kept, Mailbox!Handed, Mail

(* Removing one frame from the box, and nothing else, keeps what is left   *)
(* in order, takes away that frame's serial and no other.                  *)
LEMMA MailboxRemoval ==
  ASSUME Mailbox!TypeOK, Mailbox!InOrder, NEW i \in DOMAIN Mail, Mail' = RemoveAt(Mail, i)
  PROVE  /\ Mail' \in Seq(Nat)
         /\ \A j, k \in DOMAIN Mail' : j < k => Mail'[j] < Mail'[k]
         /\ \A j \in DOMAIN handed, k \in DOMAIN Mail' : handed[j] < Mail'[k]
         /\ Mailbox!Kept' = Mailbox!Kept \ {Mail[i]}
         /\ Mail[i] \in Mailbox!Kept
<1>0. Mail \in Seq(Nat) /\ i \in 1 .. Len(Mail) /\ DOMAIN Mail = 1 .. Len(Mail) /\ Len(Mail) \in Nat
  BY DEF Mailbox!TypeOK, Mail
<1>1. /\ Mail' \in Seq(Nat) /\ Len(Mail') = Len(Mail) - 1 /\ DOMAIN Mail' = 1 .. Len(Mail) - 1
      /\ \A k \in 1 .. Len(Mail) - 1 : Mail'[k] = IF k < i THEN Mail[k] ELSE Mail[k + 1]
  <2>1. /\ RemoveAt(Mail, i) \in Seq(Nat)
        /\ Len(RemoveAt(Mail, i)) = Len(Mail) - 1
        /\ \A k \in 1 .. Len(Mail) - 1 :
             RemoveAt(Mail, i)[k] = IF k < i THEN Mail[k] ELSE Mail[k + 1]
    BY <1>0, RemoveAtFacts
  <2>2. \A t \in Seq(Nat) : DOMAIN t = 1 .. Len(t)
    OBVIOUS
  <2> QED BY <2>1, <2>2
<1>2. \A k \in DOMAIN Mail : Mail[k] \in Nat
  BY <1>0
<1> DEFINE old(k) == IF k < i THEN k ELSE k + 1
<1>3. \A k \in DOMAIN Mail' : old(k) \in DOMAIN Mail /\ old(k) # i /\ Mail'[k] = Mail[old(k)]
  <2> SUFFICES ASSUME NEW k \in DOMAIN Mail'
               PROVE  old(k) \in DOMAIN Mail /\ old(k) # i /\ Mail'[k] = Mail[old(k)]
    OBVIOUS
  <2>1. k \in 1 .. Len(Mail) - 1
    BY <1>1
  <2>2. Mail'[k] = IF k < i THEN Mail[k] ELSE Mail[k + 1]
    BY <1>1, <2>1
  <2>3. CASE k < i
    BY <1>0, <2>1, <2>2, <2>3
  <2>4. CASE ~(k < i)
    BY <1>0, <2>1, <2>2, <2>4
  <2> QED BY <2>3, <2>4
<1>4. \A j, k \in DOMAIN Mail' : j < k => old(j) < old(k)
  <2>1. \A j, k \in Nat : j < k => old(j) < old(k)
    BY <1>0
  <2>2. DOMAIN Mail' \subseteq Nat
    BY <1>0, <1>1
  <2> QED BY <2>1, <2>2
<1> HIDE DEF old
<1>6. \A j, k \in DOMAIN Mail' : j < k => Mail'[j] < Mail'[k]
  BY <1>3, <1>4 DEF Mailbox!InOrder, Mail
<1>7. \A j \in DOMAIN handed, k \in DOMAIN Mail' : handed[j] < Mail'[k]
  BY <1>3 DEF Mailbox!InOrder, Mail
<1>8. \A j, k \in DOMAIN Mail : j # k => Mail[j] # Mail[k]
  BY <1>0, <1>2 DEF Mailbox!InOrder, Mail
<1>5. Mailbox!Kept' = Mailbox!Kept \ {Mail[i]}
  <2>1. \A k \in DOMAIN Mail' : Mail'[k] \in Mailbox!Kept \ {Mail[i]}
    BY <1>3, <1>8 DEF Mailbox!Kept, Mail
  <2>2. \A k \in DOMAIN Mail : Mail[k] # Mail[i] => Mail[k] \in Mailbox!Kept'
    <3> SUFFICES ASSUME NEW k \in DOMAIN Mail, k # i PROVE Mail[k] \in Mailbox!Kept'
      OBVIOUS
    <3>1. CASE k < i
      <4>1. k \in DOMAIN Mail' /\ Mail'[k] = Mail[k]
        BY <1>0, <1>1, <3>1
      <4> QED BY <4>1 DEF Mailbox!Kept, Mail
    <3>2. CASE k > i
      <4>1. k - 1 \in DOMAIN Mail' /\ Mail'[k - 1] = Mail[k]
        BY <1>0, <1>1, <3>2
      <4> QED BY <4>1 DEF Mailbox!Kept, Mail
    <3> QED BY <1>0, <3>1, <3>2
  <2>3. Mailbox!Kept' \subseteq Mailbox!Kept \ {Mail[i]}
    BY <2>1 DEF Mailbox!Kept, Mail
  <2>4. Mailbox!Kept \ {Mail[i]} \subseteq Mailbox!Kept'
    BY <2>2 DEF Mailbox!Kept, Mail
  <2> QED BY <2>3, <2>4
<1> QED BY <1>0, <1>1, <1>5, <1>6, <1>7 DEF Mailbox!Kept, Mail

(* An arrival keeps the invariant.                                         *)
LEMMA MailboxArrives == Mailbox!MailboxInv /\ Mailbox!Arrive => Mailbox!MailboxInv'
<1> SUFFICES ASSUME Mailbox!MailboxInv, Mailbox!Arrive PROVE Mailbox!MailboxInv'
  OBVIOUS
<1>0. /\ sent' = sent + 1 /\ Mail' = Append(Mail, sent + 1)
      /\ UNCHANGED <<handed, taken, dropped>>
  BY DEF Mailbox!Arrive, Mail
<1>1. /\ Mailbox!TypeOK /\ Mailbox!InOrder /\ Mailbox!EachOnce
      /\ Mail \in Seq(Nat) /\ sent \in Nat /\ Len(Mail) \in Nat /\ DOMAIN Mail = 1 .. Len(Mail)
  BY DEF Mailbox!MailboxInv, Mailbox!TypeOK, Mail
<1>2. /\ Mail' \in Seq(Nat) /\ DOMAIN Mail' = 1 .. Len(Mail) + 1
      /\ Mail'[Len(Mail) + 1] = sent + 1
      /\ \A k \in 1 .. Len(Mail) : Mail'[k] = Mail[k]
  BY <1>0, <1>1
<1>3. Mailbox!Kept \subseteq 1 .. sent /\ Mailbox!Handed \subseteq 1 .. sent
  BY <1>1 DEF Mailbox!EachOnce
<1>4. \A k \in 1 .. Len(Mail) : Mail[k] \in 1 .. sent
  BY <1>1, <1>3 DEF Mailbox!Kept, Mail
<1>5. \A k \in DOMAIN handed : handed[k] \in 1 .. sent
  BY <1>3 DEF Mailbox!Handed
<1>6. Mailbox!TypeOK'
  BY <1>0, <1>1, <1>2 DEF Mailbox!TypeOK, Mail
<1>7. Mailbox!InOrder'
  BY <1>0, <1>1, <1>2, <1>4, <1>5 DEF Mailbox!InOrder, Mail
<1>8. Mailbox!Kept' = Mailbox!Kept \union {sent + 1}
  <2>1. Mailbox!Kept' \subseteq Mailbox!Kept \union {sent + 1}
    BY <1>0, <1>1, <1>2 DEF Mailbox!Kept, Mail
  <2>2. sent + 1 \in Mailbox!Kept'
    <3>1. Len(Mail) + 1 \in DOMAIN Mail' /\ Mail'[Len(Mail) + 1] = sent + 1
      BY <1>0, <1>1, <1>2
    <3> QED BY <3>1 DEF Mailbox!Kept, Mail
  <2>3. Mailbox!Kept \subseteq Mailbox!Kept'
    <3>1. \A k \in DOMAIN Mail : k \in DOMAIN Mail' /\ Mail'[k] = Mail[k]
      BY <1>1, <1>2
    <3> QED BY <3>1 DEF Mailbox!Kept, Mail
  <2> QED BY <2>1, <2>2, <2>3
<1>9. Mailbox!EachOnce'
  <2>1. Mailbox!Handed' = Mailbox!Handed /\ 1 .. sent' = 1 .. sent \union {sent + 1} /\ sent + 1 \notin 1 .. sent
    BY <1>0, <1>1 DEF Mailbox!Handed
  <2> QED BY <1>0, <1>1, <1>3, <1>8, <2>1 DEF Mailbox!EachOnce, Mailbox!TypeOK, Mail
<1> QED BY <1>6, <1>7, <1>9 DEF Mailbox!MailboxInv

(* Handing out the first frame, or a later one, keeps the invariant.       *)
LEMMA MailboxHands == Mailbox!MailboxInv /\ Mailbox!Hand => Mailbox!MailboxInv'
<1> SUFFICES ASSUME Mailbox!MailboxInv, Mailbox!Hand PROVE Mailbox!MailboxInv'
  OBVIOUS
<1> DEFINE n == Mail[1]
<1>0. /\ Mailbox!TypeOK /\ Mailbox!InOrder /\ Mailbox!EachOnce
      /\ Mail \in Seq(Nat) /\ Mail # <<>> /\ Len(Mail) \in Nat \ {0}
      /\ handed \in Seq(Nat) /\ Len(handed) \in Nat /\ DOMAIN handed = 1 .. Len(handed)
      /\ 1 \in DOMAIN Mail
  BY DEF Mailbox!MailboxInv, Mailbox!TypeOK, Mailbox!Hand, Mail
<1>1. Head(Mail) = Mail[1] /\ Mail' = RemoveAt(Mail, 1)
  BY <1>0 DEF Mailbox!Hand, RemoveAt, Mail
<1>2. /\ handed' = Append(handed, n) /\ UNCHANGED <<sent, taken, dropped>>
  BY <1>1 DEF Mailbox!Hand, Mail
<1>3. /\ Mail' \in Seq(Nat)
      /\ \A j, k \in DOMAIN Mail' : j < k => Mail'[j] < Mail'[k]
      /\ \A j \in DOMAIN handed, k \in DOMAIN Mail' : handed[j] < Mail'[k]
      /\ Mailbox!Kept' = Mailbox!Kept \ {n}
      /\ n \in Mailbox!Kept
  BY <1>0, <1>1, MailboxRemoval
<1>4. n \in Nat
  BY <1>0
<1>5. /\ DOMAIN handed' = 1 .. Len(handed) + 1
      /\ handed'[Len(handed) + 1] = n
      /\ \A k \in 1 .. Len(handed) : handed'[k] = handed[k]
      /\ handed' \in Seq(Nat)
  BY <1>0, <1>2, <1>4
<1>6. \A k \in DOMAIN Mail' : n < Mail'[k]
  <2>1. /\ DOMAIN Mail' = 1 .. Len(Mail) - 1
        /\ \A k \in 1 .. Len(Mail) - 1 : Mail'[k] = Mail[k + 1]
    <3>1. Mail' = Tail(Mail)
      BY DEF Mailbox!Hand, Mail
    <3> QED BY <1>0, <3>1
  <2>2. \A k \in DOMAIN Mail' : k + 1 \in DOMAIN Mail /\ 1 < k + 1 /\ Mail'[k] = Mail[k + 1]
    BY <1>0, <2>1
  <2> QED BY <1>0, <2>2 DEF Mailbox!InOrder, Mail
<1>7. \A k \in DOMAIN handed : handed[k] < n
  BY <1>0 DEF Mailbox!InOrder, Mail
<1>8. Mailbox!TypeOK'
  BY <1>0, <1>2, <1>3, <1>5 DEF Mailbox!TypeOK, Mail
<1>9. Mailbox!InOrder'
  <2>1. \A j, k \in DOMAIN handed' : j < k => handed'[j] < handed'[k]
    <3> SUFFICES ASSUME NEW j \in DOMAIN handed', NEW k \in DOMAIN handed', j < k
                 PROVE  handed'[j] < handed'[k]
      OBVIOUS
    <3>1. j \in DOMAIN handed /\ handed'[j] = handed[j]
      BY <1>0, <1>5
    <3>2. k \in DOMAIN handed \/ k = Len(handed) + 1
      BY <1>0, <1>5
    <3> QED BY <1>0, <1>5, <1>7, <3>1, <3>2 DEF Mailbox!InOrder, Mail
  <2>2. \A j \in DOMAIN handed', k \in DOMAIN Mail' : handed'[j] < Mail'[k]
    <3> TAKE j \in DOMAIN handed', k \in DOMAIN Mail'
    <3>1. CASE j \in DOMAIN handed
      BY <1>0, <1>3, <1>5, <3>1
    <3>2. CASE j = Len(handed) + 1
      BY <1>5, <1>6, <3>2
    <3> QED BY <1>0, <1>5, <3>1, <3>2
  <2> QED BY <1>3, <2>1, <2>2 DEF Mailbox!InOrder, Mail
<1>10. Mailbox!Handed' = Mailbox!Handed \union {n}
  <2>1. Mailbox!Handed' \subseteq Mailbox!Handed \union {n}
    <3>1. \A k \in DOMAIN handed' :
            \/ k \in DOMAIN handed /\ handed'[k] = handed[k]
            \/ handed'[k] = n
      BY <1>0, <1>5
    <3> QED BY <3>1 DEF Mailbox!Handed
  <2>2. \A k \in DOMAIN handed : k \in DOMAIN handed' /\ handed'[k] = handed[k]
    BY <1>0, <1>5
  <2>3. Len(handed) + 1 \in DOMAIN handed' /\ handed'[Len(handed) + 1] = n
    BY <1>0, <1>5
  <2> QED BY <2>1, <2>2, <2>3 DEF Mailbox!Handed
<1>11. Mailbox!EachOnce'
  BY <1>0, <1>2, <1>3, <1>10 DEF Mailbox!EachOnce
<1> QED BY <1>8, <1>9, <1>11 DEF Mailbox!MailboxInv

(* Taking a frame keeps the invariant.                                     *)
LEMMA MailboxTakes == Mailbox!MailboxInv /\ Mailbox!Take => Mailbox!MailboxInv'
<1> SUFFICES ASSUME Mailbox!MailboxInv,
                    NEW i \in DOMAIN Mail,
                    taken' = taken \union {Mail[i]}, Mail' = RemoveAt(Mail, i),
                    UNCHANGED <<sent, handed, dropped>>
             PROVE  Mailbox!MailboxInv'
  BY DEF Mailbox!Take, Mail, Mailbox!RemoveAt, RemoveAt
<1>1. Mailbox!TypeOK /\ Mailbox!InOrder /\ Mailbox!EachOnce
  BY DEF Mailbox!MailboxInv
<1>2. /\ Mail' \in Seq(Nat)
      /\ \A j, k \in DOMAIN Mail' : j < k => Mail'[j] < Mail'[k]
      /\ \A j \in DOMAIN handed, k \in DOMAIN Mail' : handed[j] < Mail'[k]
      /\ Mailbox!Kept' = Mailbox!Kept \ {Mail[i]}
      /\ Mail[i] \in Mailbox!Kept
  BY <1>1, MailboxRemoval
<1>3. Mailbox!Handed' = Mailbox!Handed /\ Mail[i] \in 1 .. sent
  BY <1>1, <1>2 DEF Mailbox!Handed, Mailbox!EachOnce
<1>4. Mailbox!TypeOK' /\ Mailbox!InOrder'
  BY <1>1, <1>2, <1>3 DEF Mailbox!TypeOK, Mailbox!InOrder, Mail
<1>5. Mailbox!EachOnce'
  BY <1>1, <1>2, <1>3 DEF Mailbox!EachOnce
<1> QED BY <1>4, <1>5 DEF Mailbox!MailboxInv

(* Dropping a frame keeps the invariant.                                   *)
LEMMA MailboxDrops == Mailbox!MailboxInv /\ Mailbox!Drop => Mailbox!MailboxInv'
<1> SUFFICES ASSUME Mailbox!MailboxInv, AllocMayFail,
                    NEW i \in DOMAIN Mail,
                    dropped' = dropped \union {Mail[i]}, Mail' = RemoveAt(Mail, i),
                    UNCHANGED <<sent, handed, taken>>
             PROVE  Mailbox!MailboxInv'
  BY DEF Mailbox!Drop, Mail, Mailbox!RemoveAt, RemoveAt
<1>1. Mailbox!TypeOK /\ Mailbox!InOrder /\ Mailbox!EachOnce
  BY DEF Mailbox!MailboxInv
<1>2. /\ Mail' \in Seq(Nat)
      /\ \A j, k \in DOMAIN Mail' : j < k => Mail'[j] < Mail'[k]
      /\ \A j \in DOMAIN handed, k \in DOMAIN Mail' : handed[j] < Mail'[k]
      /\ Mailbox!Kept' = Mailbox!Kept \ {Mail[i]}
      /\ Mail[i] \in Mailbox!Kept
  BY <1>1, MailboxRemoval
<1>3. Mailbox!Handed' = Mailbox!Handed /\ Mail[i] \in 1 .. sent
  BY <1>1, <1>2 DEF Mailbox!Handed, Mailbox!EachOnce
<1>4. Mailbox!TypeOK' /\ Mailbox!InOrder'
  BY <1>1, <1>2, <1>3 DEF Mailbox!TypeOK, Mailbox!InOrder, Mail
<1>5. Mailbox!EachOnce'
  BY <1>1, <1>2, <1>3 DEF Mailbox!EachOnce
<1> QED BY <1>4, <1>5 DEF Mailbox!MailboxInv

(* Every behaviour of the mailbox keeps the frames in order and accounts   *)
(* for each one exactly once.                                              *)
LEMMA MailboxKeepsFrames == Mailbox!Spec => []Mailbox!MailboxInv
<1>1. Mailbox!MailboxInv /\ [Mailbox!Next]_(Mailbox!vars) => Mailbox!MailboxInv'
  <2>1. ASSUME Mailbox!MailboxInv, UNCHANGED Mailbox!vars PROVE Mailbox!MailboxInv'
    BY <2>1 DEF Mailbox!MailboxInv, Mailbox!TypeOK, Mailbox!InOrder, Mailbox!EachOnce,
       Mailbox!Kept, Mailbox!Handed, Mailbox!vars, Mail
  <2> QED
    BY <2>1, MailboxArrives, MailboxHands, MailboxTakes, MailboxDrops DEF Mailbox!Next
<1> QED BY <1>1, MailboxInit, PTL DEF Mailbox!Spec

(* ... and so every frame the broker sent is in exactly one place, and the *)
(* frames come out in the order they were sent: FrameMailbox's invariant,  *)
(* read in the connection's own state.                                     *)
THEOREM ConnectionKeepsFrames == Spec => []Mailbox!MailboxInv
BY ConnectionIsMailbox, MailboxKeepsFrames, PTL DEF MailboxSpec
=============================================================================
