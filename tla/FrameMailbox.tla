---------------------------- MODULE FrameMailbox ----------------------------
(***************************************************************************)
(* What amqp_socket.c promises about incoming frames, with the socket, the *)
(* buffer and the queue of set-aside frames seen as one mailbox.  The      *)
(* broker numbers its frames 1, 2, 3...  A frame that arrives is kept      *)
(* until it leaves the mailbox in one of three ways: it is handed to a     *)
(* caller of amqp_simple_wait_frame (only ever the oldest one), or it is   *)
(* taken out of turn by the amqp_simple_rpc it answers, or, if memory may  *)
(* run out, it is dropped.                                                 *)
(***************************************************************************)
EXTENDS Integers, Sequences, SequencesExt

CONSTANT MayDrop    \* whether a frame may be dropped for want of memory

VARIABLES
  sent,      \* how many frames the broker has sent
  box,       \* the serials of the frames that are kept, oldest first
  handed,    \* the serials handed to amqp_simple_wait_frame's callers, in order
  taken,     \* the serials taken by an RPC
  dropped    \* the serials dropped for want of memory

vars == <<sent, box, handed, taken, dropped>>

Init ==
  /\ sent = 0
  /\ box = <<>>
  /\ handed = <<>>
  /\ taken = {}
  /\ dropped = {}

Arrive ==
  /\ sent' = sent + 1
  /\ box' = Append(box, sent')
  /\ UNCHANGED <<handed, taken, dropped>>

Hand ==
  /\ box # <<>>
  /\ handed' = Append(handed, Head(box))
  /\ box' = Tail(box)
  /\ UNCHANGED <<sent, taken, dropped>>

Take ==
  \E i \in DOMAIN box :
    /\ taken' = taken \union {box[i]}
    /\ box' = RemoveAt(box, i)
    /\ UNCHANGED <<sent, handed, dropped>>

Drop ==
  /\ MayDrop
  /\ \E i \in DOMAIN box :
       /\ dropped' = dropped \union {box[i]}
       /\ box' = RemoveAt(box, i)
  /\ UNCHANGED <<sent, handed, taken>>

Next == Arrive \/ Hand \/ Take \/ Drop

Spec == Init /\ [][Next]_vars

-----------------------------------------------------------------------------
TypeOK ==
  /\ sent \in Nat
  /\ box \in Seq(Nat)
  /\ handed \in Seq(Nat)
  /\ taken \subseteq 1 .. sent
  /\ dropped \subseteq 1 .. sent

Kept == {box[i] : i \in DOMAIN box}
Handed == {handed[i] : i \in DOMAIN handed}

(* Frames that no RPC takes are handed out in the order they were sent,    *)
(* however many RPCs read the socket in between; what is still kept comes  *)
(* after what was handed out.                                              *)
InOrder ==
  /\ \A i, j \in DOMAIN handed : i < j => handed[i] < handed[j]
  /\ \A i, j \in DOMAIN box : i < j => box[i] < box[j]
  /\ \A i \in DOMAIN handed, j \in DOMAIN box : handed[i] < box[j]

(* No frame is lost and none is delivered twice: each one sent is in       *)
(* exactly one of the four places.                                         *)
EachOnce ==
  /\ Kept \union Handed \union taken \union dropped = 1 .. sent
  /\ Kept \intersect (Handed \union taken \union dropped) = {}
  /\ Handed \intersect (taken \union dropped) = {}
  /\ taken \intersect dropped = {}
  /\ ~MayDrop => dropped = {}

MailboxInv == TypeOK /\ InOrder /\ EachOnce
=============================================================================
