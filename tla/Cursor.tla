------------------------------- MODULE Cursor -------------------------------
(***************************************************************************)
(* What an iterator of the library promises its caller: a pass hands out   *)
(* the items, the first of those it has not handed out each time, and ends *)
(* because the caller stopped it, because a resource ran out, or because   *)
(* no item is left.                                                        *)
(***************************************************************************)
EXTENDS Naturals, Sequences

CONSTANT MaxItems

VARIABLES
  items,   \* the positions at which there is an item
  served,  \* the positions handed out in the current pass, in this order
  phase,   \* "out" before the first pass, "in" a loop body, "ended"
  why      \* how the last pass ended: "none", "stopped", "failed", "exhausted"

vars == <<items, served, phase, why>>

Init ==
  /\ items \in SUBSET (1 .. MaxItems)
  /\ served = <<>>
  /\ phase = "out"
  /\ why = "none"

\* The items that are left when those in done have been handed out.
Left(done) == {i \in items : \A k \in 1 .. Len(done) : done[k] # i}

\* The caller asks for an item; done is what it has had in this pass.
Serve(done) ==
  /\ \E i \in Left(done) : /\ \A j \in Left(done) : i <= j
                           /\ served' = Append(done, i)
  /\ phase' = "in"
  /\ why' = "none"

End(done) ==
  /\ served' = done
  /\ phase' = "ended"
  /\ why' \in {"stopped", "failed"} \cup (IF Left(done) = {} THEN {"exhausted"} ELSE {})

Begin == phase # "in" /\ (Serve(<<>>) \/ End(<<>>)) /\ UNCHANGED items

Continue == phase = "in" /\ (Serve(served) \/ End(served)) /\ UNCHANGED items

Next == Begin \/ Continue

Spec == Init /\ [][Next]_vars
=============================================================================
