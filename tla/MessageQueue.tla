---------------------------- MODULE MessageQueue ----------------------------
(***************************************************************************)
(* What publishing promises, with the frames, the connections they go over *)
(* and the broker's side of them left out: the program publishes one       *)
(* message after another, a publish returns 0 or an error, and the broker  *)
(* keeps a message only if its publish returned 0, at most once, and after *)
(* the ones published before it.  It need not keep it at all: the          *)
(* connection may go first, and nothing is confirmed.                      *)
(***************************************************************************)
EXTENDS Integers, Sequences

VARIABLES
  results,  \* of the publishes, in order: "none" while one goes on
  kept      \* the messages that the broker keeps, by their number

vars == <<results, kept>>

Pending == results # <<>> /\ results[Len(results)] = "none"

Init == results = <<>> /\ kept = <<>>

Begin ==
  /\ ~Pending
  /\ results' = Append(results, "none")
  /\ UNCHANGED kept

Return ==
  /\ Pending
  /\ \E r \in {"ok", "error"} : results' = [results EXCEPT ![Len(results)] = r]
  /\ UNCHANGED kept

Keep ==
  /\ \E m \in DOMAIN results :
       /\ results[m] = "ok"
       /\ \A k \in DOMAIN kept : kept[k] < m
       /\ kept' = Append(kept, m)
  /\ UNCHANGED results

Next == Begin \/ Return \/ Keep

Spec == Init /\ [][Next]_vars

-----------------------------------------------------------------------------
TypeOK ==
  /\ results \in Seq({"none", "ok", "error"})
  /\ kept \in Seq(DOMAIN results)

(* The program has one publish at a time; what is kept was published       *)
(* without an error, and is in the order of the publishes, each one once.  *)
OneAtATime == \A m \in DOMAIN results : results[m] = "none" => m = Len(results)
KeptInOrder ==
  /\ \A k \in DOMAIN kept : results[kept[k]] = "ok"
  /\ \A j, k \in DOMAIN kept : j < k => kept[j] < kept[k]

QueueInv == TypeOK /\ OneAtATime /\ KeptInOrder
=============================================================================
