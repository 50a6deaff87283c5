----------------------------- MODULE LinkedList -----------------------------
(***************************************************************************)
(* The circular doubly linked list of list.h.  A memory m maps every       *)
(* list_head, the head of the list among them, to its two pointers; each   *)
(* operator is the memory after the function, its assignments in the order *)
(* of the code.  Pointers of a node outside the list stay as they were.    *)
(***************************************************************************)
EXTENDS Naturals, Sequences

SetNext(m, p, q) == [m EXCEPT ![p].next = q]
SetPrev(m, p, q) == [m EXCEPT ![p].prev = q]

\* INIT_LIST_HEAD_PTR
InitHead(m, head) == SetPrev(SetNext(m, head, head), head, head)

\* Mutant: the predecessor is not told.
ListInsertHalf(m, new, prev, next) ==
  SetPrev(SetNext(SetPrev(m, next, new), new, next), new, prev)

\* __list_add
ListInsert(m, new, prev, next) ==
  SetNext(SetPrev(SetNext(SetPrev(m, next, new), new, next), new, prev), prev, new)

ListAdd(m, new, head) == ListInsert(m, new, head, m[head].next)

\* Mutant: put behind the head, as list_add does.
ListAddTailSwapped(m, new, head) == ListInsert(m, new, head, m[head].next)

ListAddTail(m, new, head) == ListInsert(m, new, m[head].prev, head)

\* The second assignment reads p->next and p->prev after the first.
ListDel(m, p) ==
  LET n == SetNext(m, m[p].prev, m[p].next) IN SetPrev(n, n[p].next, n[p].prev)

ListReplace(m, old, new) ==
  LET m1 == SetNext(m, new, m[old].next)
      m2 == SetPrev(m1, m1[new].next, new)
      m3 == SetPrev(m2, new, m2[old].prev)
  IN  SetNext(m3, m3[new].prev, new)

ListEmpty(m, head) == m[head].next = head

ListFront(m, head) == m[head].next

-----------------------------------------------------------------------------
(***************************************************************************)
(* The nodes of the list in order, following next: at most limit of them,  *)
(* so that a broken list still has an image.                               *)
(***************************************************************************)
NodesFrom(m, head, limit) ==
  LET walk[n \in 0 .. limit] ==
        IF n = 0 THEN <<>>
        ELSE LET before == walk[n - 1]
                 at == m[IF before = <<>> THEN head ELSE before[Len(before)]].next
             IN  IF Len(before) < n - 1 \/ at = head THEN before ELSE Append(before, at)
  IN  walk[limit]

(***************************************************************************)
(* The two chains through members and head are inverse to each other.      *)
(***************************************************************************)
WellLinked(m, members, head) ==
  \A p \in members \cup {head} :
    /\ m[p].next \in members \cup {head} /\ m[m[p].next].prev = p
    /\ m[p].prev \in members \cup {head} /\ m[m[p].prev].next = p
=============================================================================
