------------------------------- MODULE Lists -------------------------------
(***************************************************************************)
(* A program that puts the functions of list.h to use in any order, each   *)
(* with arguments it may be given: a node is added or put in place of      *)
(* another one only while it is in no list, and taken out only while it    *)
(* is.                                                                     *)
(***************************************************************************)
EXTENDS LinkedList, FiniteSets

CONSTANTS Nodes, ListHead

ASSUME HeadAssumption == ListHead \notin Nodes
ASSUME FiniteAssumption == IsFiniteSet(Nodes)

VARIABLES
  m,        \* the pointers of every list_head
  members,  \* nodes in the list, as the program believes
  call      \* the last call: its function, its arguments and what it returned

vars == <<m, members, call>>

Cells == Nodes \cup {ListHead}

\* A node that was never in a list points to itself, as malloc leaves anything.
Init ==
  /\ m = InitHead([c \in Cells |-> [prev |-> c, next |-> c]], ListHead)
  /\ members = {}
  /\ call = <<"INIT_LIST_HEAD_PTR", <<>>, "void">>

AddTail(x) ==
  /\ x \notin members
  /\ m' = ListAddTail(m, x, ListHead)
  /\ members' = members \cup {x}
  /\ call' = <<"list_add_tail", <<x>>, "void">>

AddFront(x) ==
  /\ x \notin members
  /\ m' = ListAdd(m, x, ListHead)
  /\ members' = members \cup {x}
  /\ call' = <<"list_add", <<x>>, "void">>

Remove(x) ==
  /\ x \in members
  /\ m' = ListDel(m, x)
  /\ members' = members \ {x}
  /\ call' = <<"list_del", <<x>>, "void">>

Replace(x, y) ==
  /\ x \in members /\ y \notin members
  /\ m' = ListReplace(m, x, y)
  /\ members' = (members \ {x}) \cup {y}
  /\ call' = <<"list_replace", <<x, y>>, "void">>

\* NULL for an empty list, else the first node, which leaves the list.
PopFront ==
  \/ /\ ListEmpty(m, ListHead)
     /\ call' = <<"list_pop_front", <<>>, "NULL">>
     /\ UNCHANGED <<m, members>>
  \/ /\ ~ListEmpty(m, ListHead)
     /\ LET pos == ListFront(m, ListHead) IN
        /\ call' = <<"list_pop_front", <<>>, pos>>
        /\ m' = ListDel(m, pos)
        /\ members' = members \ {pos}

\* NULL for an empty list, else the first node, which stays.
Front ==
  /\ call' = <<"list_front", <<>>,
               IF ListEmpty(m, ListHead) THEN "NULL" ELSE ListFront(m, ListHead)>>
  /\ UNCHANGED <<m, members>>

\* list_size counts what list_for_each_safe visits; the limit is one that no
\* list of these nodes reaches.
Size ==
  /\ call' = <<"list_size", <<>>, Len(NodesFrom(m, ListHead, Cardinality(Nodes) + 1))>>
  /\ UNCHANGED <<m, members>>

Next ==
  \/ \E x \in Nodes : AddTail(x) \/ AddFront(x) \/ Remove(x)
  \/ \E x, y \in Nodes : Replace(x, y)
  \/ PopFront
  \/ Front
  \/ Size

Spec == Init /\ [][Next]_vars

-----------------------------------------------------------------------------
(***************************************************************************)
(* After any sequence of list operations the chains of next and of prev    *)
(* pointers through the members and the head are inverse to each other: no *)
(* stale pointer of a node that was taken out, replaced or put back        *)
(* elsewhere is reachable.                                                 *)
(***************************************************************************)
ChainsAgree == WellLinked(m, members, ListHead)

Items == NodesFrom(m, ListHead, Cardinality(Nodes))

(***************************************************************************)
(* The list of pointers is a sequence of distinct nodes, and each function *)
(* of list.h does to it what its name says and returns what it should:     *)
(* list_add_tail appends its argument and list_add prepends it, list_del   *)
(* takes out its argument and no other node, list_replace puts its second  *)
(* argument at the place of its first, list_pop_front takes out the first  *)
(* node and returns it, list_front returns it and changes nothing,         *)
(* list_size returns the length.                                           *)
(***************************************************************************)
Abstract == INSTANCE Deque WITH items <- Items, call <- call
ImplementsDeque == Abstract!Spec
=============================================================================
