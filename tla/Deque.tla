------------------------------- MODULE Deque -------------------------------
(***************************************************************************)
(* What list.h promises: a sequence of distinct nodes.  Each action is one *)
(* function, with its effect on the sequence and the record of the call:   *)
(* its name, its arguments and its result.                                 *)
(***************************************************************************)
EXTENDS Naturals, Sequences

CONSTANT Nodes

VARIABLES items, call

vars == <<items, call>>

InList(x) == \E i \in DOMAIN items : items[i] = x

Init == items = <<>> /\ call = <<"INIT_LIST_HEAD_PTR", <<>>, "void">>

AddTail(x) ==
  /\ ~InList(x)
  /\ items' = Append(items, x)
  /\ call' = <<"list_add_tail", <<x>>, "void">>

AddFront(x) ==
  /\ ~InList(x)
  /\ items' = <<x>> \o items
  /\ call' = <<"list_add", <<x>>, "void">>

Without(i) == SubSeq(items, 1, i - 1) \o SubSeq(items, i + 1, Len(items))

Remove(i) ==
  /\ items' = Without(i)
  /\ call' = <<"list_del", <<items[i]>>, "void">>

Replace(i, y) ==
  /\ ~InList(y)
  /\ items' = [items EXCEPT ![i] = y]
  /\ call' = <<"list_replace", <<items[i], y>>, "void">>

First == IF items = <<>> THEN "NULL" ELSE items[1]

PopFront ==
  /\ items' = IF items = <<>> THEN items ELSE Without(1)
  /\ call' = <<"list_pop_front", <<>>, First>>

Front == UNCHANGED items /\ call' = <<"list_front", <<>>, First>>

Size == UNCHANGED items /\ call' = <<"list_size", <<>>, Len(items)>>

Next ==
  \/ \E x \in Nodes : AddTail(x) \/ AddFront(x)
  \/ \E i \in DOMAIN items : Remove(i) \/ \E y \in Nodes : Replace(i, y)
  \/ PopFront
  \/ Front
  \/ Size

Spec == Init /\ [][Next]_vars
============================================================================
