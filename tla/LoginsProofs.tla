---------------------------- MODULE LoginsProofs ----------------------------
(***************************************************************************)
(* Proofs about Logins, for files of any length and any terminals.  Nodes  *)
(* are named by their place in the file and enter at the tail, so the list *)
(* is in the order of the file all the time: its pointers are described    *)
(* without a recursion over the list.                                      *)
(***************************************************************************)
EXTENDS Logins, NaturalsInduction, WellFoundedInduction, TLAPS

-----------------------------------------------------------------------------
(***************************************************************************)
(* What the functions of list.h do to the two pointers of each cell.       *)
(***************************************************************************)
Memory(C) == [C -> [prev : C, next : C]]

\* What the assignment of a next pointer changes.
LEMMA SetNextIs ==
  ASSUME NEW C, NEW mm \in Memory(C), NEW p \in C, NEW q \in C
  PROVE  /\ SetNext(mm, p, q) \in Memory(C)
         /\ \A c \in C : SetNext(mm, p, q)[c].next = IF c = p THEN q ELSE mm[c].next
         /\ \A c \in C : SetNext(mm, p, q)[c].prev = mm[c].prev
  BY DEF SetNext, Memory

\* What the assignment of a prev pointer changes.
LEMMA SetPrevIs ==
  ASSUME NEW C, NEW mm \in Memory(C), NEW p \in C, NEW q \in C
  PROVE  /\ SetPrev(mm, p, q) \in Memory(C)
         /\ \A c \in C : SetPrev(mm, p, q)[c].prev = IF c = p THEN q ELSE mm[c].prev
         /\ \A c \in C : SetPrev(mm, p, q)[c].next = mm[c].next
  BY DEF SetPrev, Memory

\* __list_add: the new node and its two neighbours.
LEMMA InsertIs ==
  ASSUME NEW C, NEW mm \in Memory(C), NEW a \in C, NEW p \in C, NEW n \in C
  PROVE  /\ ListInsert(mm, a, p, n) \in Memory(C)
         /\ \A c \in C :
              /\ ListInsert(mm, a, p, n)[c].next =
                   IF c = p THEN a ELSE IF c = a THEN n ELSE mm[c].next
              /\ ListInsert(mm, a, p, n)[c].prev =
                   IF c = a THEN p ELSE IF c = n THEN a ELSE mm[c].prev
<1> DEFINE m1 == SetPrev(mm, n, a)
           m2 == SetNext(m1, a, n)
           m3 == SetPrev(m2, a, p)
           m4 == SetNext(m3, p, a)
<1>1. m1 \in Memory(C) /\ \A c \in C : m1[c].prev = (IF c = n THEN a ELSE mm[c].prev) /\ m1[c].next = mm[c].next
  BY SetPrevIs
<1> HIDE DEF m1
<1>2. m2 \in Memory(C) /\ \A c \in C : m2[c].next = (IF c = a THEN n ELSE m1[c].next) /\ m2[c].prev = m1[c].prev
  BY <1>1, SetNextIs
<1> HIDE DEF m2
<1>3. m3 \in Memory(C) /\ \A c \in C : m3[c].prev = (IF c = a THEN p ELSE m2[c].prev) /\ m3[c].next = m2[c].next
  BY <1>2, SetPrevIs
<1> HIDE DEF m3
<1>4. m4 \in Memory(C) /\ \A c \in C : m4[c].next = (IF c = p THEN a ELSE m3[c].next) /\ m4[c].prev = m3[c].prev
  BY <1>3, SetNextIs
<1>5. m4 = ListInsert(mm, a, p, n)
  BY DEF ListInsert, m1, m2, m3
<1> HIDE DEF m4
<1>6. \A c \in C : /\ m4[c].next = IF c = p THEN a ELSE IF c = a THEN n ELSE mm[c].next
                   /\ m4[c].prev = IF c = a THEN p ELSE IF c = n THEN a ELSE mm[c].prev
  BY <1>1, <1>2, <1>3, <1>4
<1>7. QED
  BY <1>4, <1>5, <1>6

\* list_del: the two neighbours, the pointers of the node itself stay.
LEMMA DelIs ==
  ASSUME NEW C, NEW mm \in Memory(C), NEW x \in C
  PROVE  /\ ListDel(mm, x) \in Memory(C)
         /\ \A c \in C :
              /\ ListDel(mm, x)[c].next = IF c = mm[x].prev THEN mm[x].next ELSE mm[c].next
              /\ ListDel(mm, x)[c].prev = IF c = mm[x].next THEN mm[x].prev ELSE mm[c].prev
<1> DEFINE p == mm[x].prev
           n == mm[x].next
<1>1. p \in C /\ n \in C
  BY DEF Memory
<1>2. p = mm[x].prev /\ n = mm[x].next /\ ListDel(mm, x) =
        SetPrev(SetNext(mm, p, n), SetNext(mm, p, n)[x].next, SetNext(mm, p, n)[x].prev)
  BY DEF ListDel
<1> HIDE DEF p, n
<1> DEFINE m1 == SetNext(mm, p, n)
<1>3. m1 \in Memory(C) /\ \A c \in C : m1[c].next = (IF c = p THEN n ELSE mm[c].next) /\ m1[c].prev = mm[c].prev
  BY <1>1, SetNextIs
<1>4. m1[x].next = n /\ m1[x].prev = p /\ ListDel(mm, x) = SetPrev(m1, m1[x].next, m1[x].prev)
  BY <1>1, <1>2, <1>3
<1> HIDE DEF m1
<1> DEFINE m2 == SetPrev(m1, n, p)
<1>5. m2 \in Memory(C) /\ \A c \in C : m2[c].prev = (IF c = n THEN p ELSE m1[c].prev) /\ m2[c].next = m1[c].next
  BY <1>1, <1>3, SetPrevIs
<1>6. m2 = ListDel(mm, x)
  BY <1>4
<1> HIDE DEF m2
<1>7. \A c \in C : /\ m2[c].next = IF c = p THEN n ELSE mm[c].next
                   /\ m2[c].prev = IF c = n THEN p ELSE mm[c].prev
  BY <1>3, <1>5
<1>8. QED
  BY <1>2, <1>5, <1>6, <1>7


Cells == {Anchor} \cup Nodes

\* The list has the nodes of S in the order of their numbers.
Ordered(mm, S) ==
  \A x \in S \cup {Anchor} :
    /\ mm[x].next \in S \cup {Anchor} /\ mm[x].prev \in S \cup {Anchor}
    /\ mm[x].next # Anchor => x < mm[x].next /\ \A y \in S : y <= x \/ mm[x].next <= y
    /\ mm[x].next = Anchor => \A y \in S : y <= x
    /\ x # Anchor => mm[x].prev < x /\ \A y \in S : y <= mm[x].prev \/ x <= y
    /\ x = Anchor => \A y \in S : y <= mm[x].prev

Logouts == Loaded("DEAD")
Made == Loaded("USER") \cup Logouts

\* The pairs that have left the list: a callback that ends the loop leaves its
\* pair where it is.
Freed == {k \in DOMAIN reports : aborted => k < Len(reports)}
Ins == {reports[k][1] : k \in Freed}
Outs == {reports[k][2] : k \in Freed}

\* The list once every node up to last has been taken from it, and the logins
\* among these that are left behind.
Listed(last) == {r \in Made : r > last /\ r \notin Outs}
Left(last) == {r \in Loaded("USER") : r <= last /\ r \notin Ins}

\* What FirstFreeLogout says of login i, with the minimum spelt out.
MayEndIt(i) == {j \in Logouts : MayEnd(i, j) /\ ~ TakenBefore(i, j)}
FirstFree(i) ==
  \/ MayEndIt(i) = {} /\ i \notin LoginsReported
  \/ \E k \in DOMAIN reports :
       /\ reports[k][1] = i
       /\ reports[k][2] \in MayEndIt(i)
       /\ \A h \in MayEndIt(i) : reports[k][2] <= h

TypeInv ==
  /\ wtmp \in Seq(Records) /\ Len(wtmp) <= MaxRecords
  /\ read \in 0 .. Len(wtmp)
  /\ m \in Memory(Cells)
  /\ heap \subseteq Nodes /\ failures \subseteq 1 .. read
  /\ pc \in {"open", "load", "pop", "scan", "exit", "free", "done"}
  /\ pNode \in Cells /\ pos \in Cells /\ next \in Cells
  /\ reports \in Seq(Nodes \X Nodes)
  /\ aborted \in BOOLEAN

ReportInv ==
  /\ \A k \in DOMAIN reports : reports[k][1] \in Loaded("USER") /\ reports[k][2] \in Logouts
  /\ \A k, l \in DOMAIN reports : k < l => reports[k][1] < reports[l][1] /\ reports[k][2] # reports[l][2]

\* The logins before last have been looked at, and no other one.
Answered(last) ==
  /\ \A k \in DOMAIN reports : reports[k][1] < last
  /\ \A i \in Loaded("USER") : i < last => FirstFree(i)

Walk(last) ==
  /\ last \in 0 .. read
  /\ Ordered(m, Listed(last))
  /\ heap = Listed(last) \cup Left(last)

\* Where the loop ended, and what is known there.
Cut == IF aborted THEN pNode ELSE read
Ended ==
  /\ \A i \in Loaded("USER") : i <= Cut => FirstFree(i)
  /\ aborted => reports # <<>> /\ reports[Len(reports)][1] = pNode

LoadInv ==
  pc \in {"open", "load"} =>
    /\ reports = <<>> /\ ~ aborted /\ ret = "none"
    /\ pc = "open" => read = 0
    /\ Ordered(m, Made) /\ heap = Made

PopInv ==
  pc = "pop" => ~ aborted /\ ret = "none" /\ \E last \in 0 .. read : Walk(last) /\ Answered(last + 1)

ScanInv ==
  pc = "scan" =>
    /\ ~ aborted /\ ret = "none"
    /\ pNode \in Loaded("USER") /\ Walk(pNode) /\ Answered(pNode)
    /\ pos \in Listed(pNode) \cup {Anchor}
    /\ next = m[pos].next
    /\ \A y \in Listed(pNode) : pos = Anchor \/ y < pos => ~ Matches(pNode, y)

\* exit_login_list takes the list from its front.
ExitInv ==
  pc \in {"exit", "free"} =>
    /\ ret = "none" /\ Ended
    /\ \E last \in Cut .. read : Ordered(m, Listed(last)) /\ heap = Listed(last) \cup Left(Cut)
    /\ pc = "free" => pos = m[Anchor].next /\ next = m[pos].next

DoneInv ==
  pc = "done" =>
    \/ ret = "-1" /\ heap = {} /\ read = 0 /\ ~ aborted
    \/ ret = "0" /\ heap = Left(Cut) /\ Ended

IInv ==
  /\ TypeInv /\ ReportInv
  /\ pc \notin {"open", "load"} /\ ret # "-1" => read = Len(wtmp)
  /\ LoadInv /\ PopInv /\ ScanInv /\ ExitInv /\ DoneInv
  /\ faults = {}

-----------------------------------------------------------------------------
(***************************************************************************)
(* The list in order.                                                      *)
(***************************************************************************)
LEMMA NodeNumbers ==
  /\ Nodes \subseteq Nat /\ Cells \subseteq Nat /\ Anchor = 0 /\ Anchor \notin Nodes
  /\ \A x \in Nodes : x > 0
BY BoundAssumption DEF Nodes, Cells, Anchor

\* Unlinking a node leaves the others in order.
LEMMA OrderedDel ==
  ASSUME NEW mm \in Memory(Cells), NEW S \in SUBSET Nodes, Ordered(mm, S), NEW x \in S
  PROVE  /\ ListDel(mm, x) \in Memory(Cells)
         /\ Ordered(ListDel(mm, x), S \ {x})
         /\ mm[Anchor].next = x => ListDel(mm, x)[Anchor].next = mm[x].next
<1> DEFINE p == mm[x].prev
           n == mm[x].next
           m2 == ListDel(mm, x)
<1>1. /\ x \in Cells /\ x \in Nat /\ x # Anchor /\ S \subseteq Nat /\ Anchor = 0
      /\ S \cup {Anchor} \subseteq Cells /\ Anchor \notin S /\ \A y \in S : y > 0
  BY NodeNumbers DEF Cells
<1>2. /\ m2 \in Memory(Cells)
      /\ \A c \in Cells : /\ m2[c].next = IF c = p THEN n ELSE mm[c].next
                          /\ m2[c].prev = IF c = n THEN p ELSE mm[c].prev
  BY <1>1, DelIs
<1>3. /\ p \in S \cup {Anchor} /\ n \in S \cup {Anchor}
      /\ n # Anchor => x < n /\ \A y \in S : y <= x \/ n <= y
      /\ n = Anchor => \A y \in S : y <= x
      /\ p < x /\ \A y \in S : y <= p \/ x <= y
  BY <1>1 DEF Ordered
<1> HIDE DEF p, n, m2
<1>4. ASSUME NEW c \in (S \ {x}) \cup {Anchor}
      PROVE  /\ m2[c].next \in (S \ {x}) \cup {Anchor}
             /\ m2[c].next # Anchor => c < m2[c].next /\ \A y \in S \ {x} : y <= c \/ m2[c].next <= y
             /\ m2[c].next = Anchor => \A y \in S \ {x} : y <= c
  <2>1. /\ mm[c].next \in S \cup {Anchor}
        /\ mm[c].next # Anchor => c < mm[c].next /\ \A y \in S : y <= c \/ mm[c].next <= y
        /\ mm[c].next = Anchor => \A y \in S : y <= c
    BY DEF Ordered
  <2>2. c \in Cells /\ c \in Nat /\ m2[c].next = IF c = p THEN n ELSE mm[c].next
    BY <1>1, <1>2
  <2>3. CASE c = p
    <3>1. m2[c].next = n
      BY <2>2, <2>3
    <3>2. n # x
      BY <1>1, <1>3
    <3>3. n # Anchor => c < n /\ \A y \in S \ {x} : y <= c \/ n <= y
      BY <1>1, <1>3, <2>2, <2>3
    <3>4. n = Anchor => \A y \in S \ {x} : y <= c
      BY <1>1, <1>3, <2>2, <2>3
    <3>5. QED
      BY <1>3, <3>1, <3>2, <3>3, <3>4
  <2>4. CASE c # p
    <3>1. mm[c].next # x
      <4> SUFFICES ASSUME mm[c].next = x
                   PROVE  FALSE
        OBVIOUS
      <4>1. c < x /\ \A y \in S : y <= c \/ x <= y
        BY <1>1, <2>1
      <4>2. p <= c
        <5>1. CASE p = Anchor
          BY <1>1, <2>2, <5>1
        <5>2. CASE p \in S
          <6>1. p \in Nat /\ p < x /\ (p <= c \/ x <= p)
            BY <1>1, <1>3, <4>1, <5>2
          <6>2. QED
            BY <1>1, <2>2, <6>1
        <5>3. QED
          BY <1>3, <5>1, <5>2
      <4>3. c <= p
        BY <1>1, <1>3, <2>2, <4>1
      <4>4. QED
        <5>1. p \in Nat
          BY <1>1, <1>3
        <5>2. p = c
          BY <2>2, <4>2, <4>3, <5>1
        <5>3. QED
          BY <2>4, <5>2
    <3>2. QED
      BY <2>1, <2>2, <2>4, <3>1
  <2>5. QED
    BY <2>3, <2>4
<1>5. ASSUME NEW c \in (S \ {x}) \cup {Anchor}
      PROVE  /\ m2[c].prev \in (S \ {x}) \cup {Anchor}
             /\ c # Anchor => m2[c].prev < c /\ \A y \in S \ {x} : y <= m2[c].prev \/ c <= y
             /\ c = Anchor => \A y \in S \ {x} : y <= m2[c].prev
  <2>1. /\ mm[c].prev \in S \cup {Anchor}
        /\ c # Anchor => mm[c].prev < c /\ \A y \in S : y <= mm[c].prev \/ c <= y
        /\ c = Anchor => \A y \in S : y <= mm[c].prev
    BY DEF Ordered
  <2>2. c \in Cells /\ c \in Nat /\ m2[c].prev = IF c = n THEN p ELSE mm[c].prev
    BY <1>1, <1>2
  <2>3. CASE c = n
    <3>1. m2[c].prev = p /\ p # x
      BY <1>1, <1>3, <2>2, <2>3
    <3>2. c # Anchor => p < c /\ \A y \in S \ {x} : y <= p \/ c <= y
      BY <1>1, <1>3, <2>2, <2>3
    <3>3. c = Anchor => \A y \in S \ {x} : y <= p
      BY <1>1, <1>3, <2>2, <2>3
    <3>4. QED
      BY <1>3, <3>1, <3>2, <3>3
  <2>4. CASE c # n
    <3>1. mm[c].prev # x
      <4> SUFFICES ASSUME mm[c].prev = x
                   PROVE  FALSE
        OBVIOUS
      <4>1. CASE c = Anchor
        BY <1>1, <1>3, <2>1, <2>4, <4>1
      <4>2. CASE c # Anchor
        BY <1>1, <1>3, <2>1, <2>2, <2>4, <4>2
      <4>3. QED
        BY <4>1, <4>2
    <3>2. QED
      BY <2>1, <2>2, <2>4, <3>1
  <2>5. QED
    BY <2>3, <2>4
<1>6. Ordered(m2, S \ {x})
  BY <1>4, <1>5 DEF Ordered
<1>7. ASSUME mm[Anchor].next = x
      PROVE  m2[Anchor].next = n
  <2>1. \A y \in S : x <= y
    BY <1>1, <1>7 DEF Ordered
  <2>2. p = Anchor
    BY <1>1, <1>3, <2>1
  <2>3. QED
    BY <1>1, <1>2, <2>2
<1>8. QED
  BY <1>2, <1>6, <1>7 DEF m2, n

\* list_add_tail of a node with the greatest number.
LEMMA OrderedAdd ==
  ASSUME NEW mm \in Memory(Cells), NEW S \in SUBSET Nodes, Ordered(mm, S),
         NEW r \in Nodes, \A y \in S : y < r
  PROVE  /\ ListAddTail(mm, r, Anchor) \in Memory(Cells)
         /\ Ordered(ListAddTail(mm, r, Anchor), S \cup {r})
<1> DEFINE p == mm[Anchor].prev
           m2 == ListAddTail(mm, r, Anchor)
<1>1. /\ r \in Cells /\ r \in Nat /\ r # Anchor /\ S \subseteq Nat /\ Anchor = 0 /\ r > 0
      /\ S \cup {Anchor} \subseteq Cells /\ Anchor \notin S /\ r \notin S
  BY NodeNumbers DEF Cells
<1>2. p \in S \cup {Anchor} /\ \A y \in S : y <= p
  BY DEF Ordered
<1>3. /\ m2 \in Memory(Cells)
      /\ \A c \in Cells : /\ m2[c].next = IF c = p THEN r ELSE IF c = r THEN Anchor ELSE mm[c].next
                          /\ m2[c].prev = IF c = r THEN p ELSE IF c = Anchor THEN r ELSE mm[c].prev
  <2>1. m2 = ListInsert(mm, r, p, Anchor)
    BY DEF ListAddTail
  <2>2. r \in Cells /\ p \in Cells /\ Anchor \in Cells
    BY <1>1, <1>2
  <2> HIDE DEF m2, p
  <2>3. /\ ListInsert(mm, r, p, Anchor) \in Memory(Cells)
        /\ \A c \in Cells :
             /\ ListInsert(mm, r, p, Anchor)[c].next =
                  IF c = p THEN r ELSE IF c = r THEN Anchor ELSE mm[c].next
             /\ ListInsert(mm, r, p, Anchor)[c].prev =
                  IF c = r THEN p ELSE IF c = Anchor THEN r ELSE mm[c].prev
    BY <2>2, InsertIs
  <2>4. QED
    BY <2>1, <2>3
<1> HIDE DEF p, m2
<1>4. p \in Nat /\ p < r /\ p # r
  BY <1>1, <1>2
<1>5. ASSUME NEW c \in S \cup {r, Anchor}
      PROVE  /\ m2[c].next \in S \cup {r, Anchor}
             /\ m2[c].next # Anchor => c < m2[c].next /\ \A y \in S \cup {r} : y <= c \/ m2[c].next <= y
             /\ m2[c].next = Anchor => \A y \in S \cup {r} : y <= c
  <2>1. CASE c = r
    BY <1>1, <1>3, <1>4, <2>1
  <2>2. CASE c = p
    BY <1>1, <1>2, <1>3, <1>4, <2>2
  <2>3. CASE c # r /\ c # p
    <3>1. /\ mm[c].next \in S \cup {Anchor}
          /\ mm[c].next # Anchor => c < mm[c].next /\ \A y \in S : y <= c \/ mm[c].next <= y
          /\ mm[c].next = Anchor => \A y \in S : y <= c
      BY <2>3 DEF Ordered
    <3>2. m2[c].next = mm[c].next /\ c \in Nat
      BY <1>1, <1>3, <2>3
    <3>3. mm[c].next # Anchor
      BY <1>1, <1>2, <2>3, <3>1, <3>2
    <3>4. mm[c].next \in S /\ mm[c].next <= r
      <4>1. mm[c].next \in S
        BY <3>1, <3>3
      <4>2. mm[c].next \in Nat /\ mm[c].next < r
        BY <1>1, <4>1
      <4>3. QED
        BY <1>1, <4>1, <4>2
    <3>5. QED
      BY <1>1, <3>1, <3>2, <3>3, <3>4
  <2>4. QED
    BY <2>1, <2>2, <2>3
<1>6. ASSUME NEW c \in S \cup {r, Anchor}
      PROVE  /\ m2[c].prev \in S \cup {r, Anchor}
             /\ c # Anchor => m2[c].prev < c /\ \A y \in S \cup {r} : y <= m2[c].prev \/ c <= y
             /\ c = Anchor => \A y \in S \cup {r} : y <= m2[c].prev
  <2>1. CASE c = r
    BY <1>1, <1>2, <1>3, <1>4, <2>1
  <2>2. CASE c = Anchor
    BY <1>1, <1>3, <2>2
  <2>3. CASE c \in S
    <3>1. /\ mm[c].prev \in S \cup {Anchor}
          /\ mm[c].prev < c /\ \A y \in S : y <= mm[c].prev \/ c <= y
      BY <1>1, <2>3 DEF Ordered
    <3>2. m2[c].prev = mm[c].prev /\ c <= r
      BY <1>1, <1>3, <2>3
    <3>3. QED
      BY <1>1, <2>3, <3>1, <3>2
  <2>4. QED
    BY <2>1, <2>2, <2>3
<1>7. Ordered(m2, S \cup {r})
  BY <1>5, <1>6 DEF Ordered
<1>8. QED
  BY <1>3, <1>7 DEF m2

\* The first node of the list, and the one after x.
LEMMA FirstNode ==
  ASSUME NEW mm, NEW S \in SUBSET Nodes, Ordered(mm, S)
  PROVE  /\ mm[Anchor].next = Anchor => S = {}
         /\ mm[Anchor].next # Anchor => mm[Anchor].next \in S /\ \A y \in S : mm[Anchor].next <= y
<1>1. S \subseteq Nat /\ Anchor = 0 /\ \A y \in S : y > 0
  BY NodeNumbers
<1>2. QED
  BY <1>1 DEF Ordered

LEMMA NodeAfter ==
  ASSUME NEW mm, NEW S \in SUBSET Nodes, Ordered(mm, S), NEW x \in S
  PROVE  /\ mm[x].next \in S \cup {Anchor} /\ mm[x].prev \in S \cup {Anchor}
         /\ mm[x].next = Anchor => \A y \in S : y <= x
         /\ mm[x].next # Anchor => \A y \in S : y < mm[x].next => y <= x
<1>1. S \subseteq Nat
  BY NodeNumbers
<1>2. QED
  BY <1>1 DEF Ordered

\* The records that were made nodes.
LEMMA LoadedAre ==
  ASSUME TypeInv
  PROVE  /\ Loaded("USER") \subseteq 1 .. read /\ Logouts \subseteq 1 .. read /\ 1 .. read \subseteq Nodes
         /\ Made \subseteq Nodes /\ read \in Nat
         /\ \A r \in Loaded("USER") : r \notin Logouts /\ r \in Made /\ wtmp[r].type = "USER"
         /\ \A r \in Logouts : r \in Made /\ wtmp[r].type = "DEAD"
         /\ \A r \in Made : r \in Loaded("USER") \/ r \in Logouts
<1>1. read \in Nat /\ read <= MaxRecords
  BY BoundAssumption DEF TypeInv
<1>2. 1 .. read \subseteq Nodes
  BY <1>1, BoundAssumption DEF Nodes
<1>3. QED
  BY <1>1, <1>2 DEF Loaded, Logouts, Made

-----------------------------------------------------------------------------
(***************************************************************************)
(* What a step leaves alone.                                               *)
(***************************************************************************)
LEMMA SameRecords ==
  ASSUME UNCHANGED <<wtmp, read, failures>>
  PROVE  /\ Loaded("USER")' = Loaded("USER") /\ Logouts' = Logouts /\ Made' = Made
         /\ \A i, j \in Nodes : /\ MayEnd(i, j)' <=> MayEnd(i, j)
                                /\ Matches(i, j)' <=> Matches(i, j)
BY DEF Loaded, Logouts, Made, MayEnd, Matches

LEMMA SameReports ==
  ASSUME TypeInv, UNCHANGED <<wtmp, read, failures, reports, aborted>>
  PROVE  /\ LoginsReported' = LoginsReported /\ Ins' = Ins /\ Outs' = Outs
         /\ \A last \in Nat : Listed(last)' = Listed(last) /\ Left(last)' = Left(last)
         /\ \A i \in Nodes : FirstFree(i)' <=> FirstFree(i)
         /\ ReportInv => ReportInv'
<1>1. /\ Loaded("USER")' = Loaded("USER") /\ Logouts' = Logouts /\ Made' = Made
      /\ \A i, j \in Nodes : MayEnd(i, j)' <=> MayEnd(i, j)
  BY SameRecords
<1>2. Logouts \subseteq Nodes
  BY LoadedAre
<1>3. LoginsReported' = LoginsReported /\ Ins' = Ins /\ Outs' = Outs
  BY DEF LoginsReported, Ins, Outs, Freed
<1>4. \A last \in Nat : Listed(last)' = Listed(last) /\ Left(last)' = Left(last)
  BY <1>1, <1>3 DEF Listed, Left
<1>5. ASSUME NEW i \in Nodes
      PROVE  FirstFree(i)' <=> FirstFree(i)
  <2>1. MayEndIt(i)' = MayEndIt(i)
    BY <1>1, <1>2 DEF MayEndIt, TakenBefore
  <2>2. QED
    BY <1>3, <2>1 DEF FirstFree
<1>6. ReportInv => ReportInv'
  BY <1>1 DEF ReportInv
<1>7. QED
  BY <1>3, <1>4, <1>5, <1>6

\* Before anything is reported every node is in the list.
LEMMA NoReports ==
  ASSUME TypeInv, reports = <<>>
  PROVE  Ins = {} /\ Outs = {} /\ LoginsReported = {} /\ Listed(0) = Made /\ Left(0) = {}
<1>1. Ins = {} /\ Outs = {} /\ LoginsReported = {}
  BY DEF Ins, Outs, LoginsReported, Freed
<1>2. \A r \in Made : r > 0
  BY LoadedAre, NodeNumbers
<1>3. \A r \in Loaded("USER") : ~ (r <= 0)
  BY LoadedAre
<1>4. QED
  BY <1>1, <1>2, <1>3 DEF Listed, Left

-----------------------------------------------------------------------------
(***************************************************************************)
(* init_login_list.                                                        *)
(***************************************************************************)
LEMMA OpenKeeps ==
  ASSUME IInv, Open
  PROVE  IInv'
<1>1. /\ pc = "open" /\ pc' \in {"load", "done"}
      /\ pc' = "load" => ret' = ret
      /\ pc' = "done" => ret' = "-1"
      /\ UNCHANGED <<wtmp, read, m, heap, pNode, pos, next, reports, failures, aborted, faults>>
  BY DEF Open, Goto
<1>2. /\ reports = <<>> /\ ~ aborted /\ ret = "none" /\ read = 0
      /\ Ordered(m, Made) /\ heap = Made
  BY <1>1 DEF IInv, LoadInv
<1>3. TypeInv'
  BY <1>1 DEF IInv, TypeInv
<1>4. ReportInv' /\ Made' = Made
  BY <1>1, SameReports, SameRecords DEF IInv
<1>5. Made = {}
  BY <1>2, LoadedAre DEF IInv
<1>6. LoadInv' /\ DoneInv'
  BY <1>1, <1>2, <1>4, <1>5 DEF LoadInv, DoneInv
<1>7. PopInv' /\ ScanInv' /\ ExitInv'
  BY <1>1 DEF PopInv, ScanInv, ExitInv
<1>8. QED
  BY <1>1, <1>3, <1>4, <1>6, <1>7 DEF IInv

LEMMA LoadKeeps ==
  ASSUME IInv, Load
  PROVE  IInv'
<1> DEFINE r == read + 1
<1>1. /\ pc = "load" /\ UNCHANGED <<wtmp, pNode, pos, next, reports, aborted, ret>>
      /\ reports = <<>> /\ ~ aborted /\ ret = "none"
      /\ Ordered(m, Made) /\ heap = Made /\ faults = {}
      /\ TypeInv
  BY DEF Load, IInv, LoadInv
<1>2. Made \subseteq 1 .. read /\ Made \subseteq Nodes /\ read \in Nat /\ Logouts \subseteq Made
  BY <1>1, LoadedAre DEF Made
<1>3. CASE read = Len(wtmp) /\ Goto("pop") /\ UNCHANGED <<read, m, heap, failures, faults>>
  <2>1. pc' = "pop" /\ Made' = Made
    BY <1>1, <1>3, SameRecords DEF Goto
  <2>2. TypeInv'
    BY <1>1, <1>3, <2>1 DEF TypeInv
  <2>3. ReportInv'
    BY <1>1, <1>3, SameReports DEF IInv
  <2>4. Walk(0)'
    <3>1. Listed(0)' = Made /\ Left(0)' = {}
      BY <1>1, <1>3, NoReports, SameReports
    <3>2. QED
      BY <1>1, <1>2, <1>3, <3>1 DEF Walk
  <2>5. Answered(0 + 1)'
    <3>1. DOMAIN reports' = {}
      BY <1>1
    <3>2. \A i \in Loaded("USER")' : ~ (i < 1)
      BY <1>1, <1>3, LoadedAre, SameRecords
    <3>3. QED
      BY <3>1, <3>2 DEF Answered
  <2>6. PopInv'
    <3>1. 0 \in 0 .. read'
      BY <1>2, <1>3
    <3>2. QED
      BY <1>1, <2>4, <2>5, <3>1 DEF PopInv
  <2>7. LoadInv' /\ ScanInv' /\ ExitInv' /\ DoneInv'
    BY <2>1 DEF LoadInv, ScanInv, ExitInv, DoneInv
  <2>8. QED
    BY <1>1, <1>3, <2>2, <2>3, <2>6, <2>7 DEF IInv
<1>4. CASE read # Len(wtmp)
  <2>1. /\ r \in 1 .. Len(wtmp) /\ r \in Nodes /\ r \notin Made /\ \A y \in Made : y < r
        /\ read' = r /\ pc' = "load"
    <3>1. Len(wtmp) \in Nat /\ Len(wtmp) <= MaxRecords /\ read <= Len(wtmp)
      BY <1>1 DEF TypeInv
    <3>2. r \in 1 .. Len(wtmp)
      BY <1>2, <1>4, <3>1
    <3>3. r \in Nodes
      BY <3>1, <3>2, BoundAssumption DEF Nodes
    <3>4. QED
      BY <1>1, <1>2, <1>4, <3>2, <3>3 DEF Load
  <2>2. /\ \/ wtmp[r].type = "OTHER" /\ UNCHANGED <<m, heap, failures, faults>>
           \/ /\ wtmp[r].type # "OTHER"
              /\ heap' = heap \cup {r}
              /\ m' = ListAddTail(m, r, Anchor)
              /\ Touch({m[Anchor].prev})
              /\ UNCHANGED failures
           \/ /\ wtmp[r].type # "OTHER" /\ failures' = failures \cup {r}
              /\ UNCHANGED <<m, heap, faults>>
    BY <1>4 DEF Load
  <2>3. 1 .. read' = (1 .. read) \cup {r}
    BY <1>2, <2>1
  <2>4. wtmp[r] \in Records /\ wtmp[r].type \in {"USER", "DEAD", "OTHER"}
    <3>1. wtmp[r] \in Records
      BY <1>1, <2>1 DEF TypeInv
    <3>2. QED
      BY <3>1 DEF Records
  <2>5. /\ m' \in Memory(Cells) /\ heap' = Made' /\ Ordered(m', Made') /\ faults' = {}
        /\ heap' \subseteq Nodes
    <3>1. CASE wtmp[r].type = "OTHER" /\ UNCHANGED <<m, heap, failures, faults>>
      <4>1. Made' = Made
        BY <1>1, <2>1, <2>3, <3>1 DEF Made, Logouts, Loaded
      <4>2. QED
        BY <1>1, <3>1, <4>1 DEF TypeInv
    <3>2. CASE /\ wtmp[r].type # "OTHER"
               /\ heap' = heap \cup {r}
               /\ m' = ListAddTail(m, r, Anchor)
               /\ Touch({m[Anchor].prev})
               /\ UNCHANGED failures
      <4>0. r \notin failures /\ r \notin 1 .. read
        BY <1>1, <1>2, <2>1 DEF TypeInv
      <4>1. Made' = Made \cup {r}
        BY <1>1, <2>1, <2>3, <2>4, <3>2, <4>0 DEF Made, Logouts, Loaded
      <4>2. m' \in Memory(Cells) /\ Ordered(m', Made \cup {r})
        BY <1>1, <1>2, <2>1, <3>2, OrderedAdd DEF TypeInv
      <4>3. m[Anchor].prev \in Made \cup {Anchor}
        BY <1>1 DEF Ordered
      <4>4. faults' = {}
        BY <1>1, <3>2, <4>3 DEF Touch
      <4>5. QED
        BY <1>1, <1>2, <2>1, <3>2, <4>1, <4>2, <4>4
    <3>3. CASE /\ wtmp[r].type # "OTHER" /\ failures' = failures \cup {r}
               /\ UNCHANGED <<m, heap, faults>>
      <4>1. Made' = Made
        BY <1>1, <2>1, <2>3, <3>3 DEF Made, Logouts, Loaded
      <4>2. QED
        BY <1>1, <3>3, <4>1 DEF TypeInv
    <3>4. QED
      BY <2>2, <3>1, <3>2, <3>3
  <2>6. TypeInv'
    <3>1. failures' \subseteq 1 .. read'
      BY <1>1, <2>2, <2>3 DEF TypeInv
    <3>2. read' \in 0 .. Len(wtmp)
      BY <2>1
    <3>3. QED
      BY <1>1, <2>1, <2>5, <3>1, <3>2 DEF TypeInv
  <2>7. ReportInv'
    BY <1>1 DEF ReportInv
  <2>8. LoadInv' /\ PopInv' /\ ScanInv' /\ ExitInv' /\ DoneInv'
    BY <1>1, <2>1, <2>5 DEF LoadInv, PopInv, ScanInv, ExitInv, DoneInv
  <2>9. QED
    BY <1>1, <2>1, <2>5, <2>6, <2>7, <2>8 DEF IInv
<1>5. QED
  BY <1>3, <1>4 DEF Load

-----------------------------------------------------------------------------
(***************************************************************************)
(* The two loops.                                                          *)
(***************************************************************************)

\* The logins and logouts that have left the list.
LEMMA PairsAre ==
  ASSUME TypeInv, ReportInv
  PROVE  /\ Ins \subseteq LoginsReported /\ LoginsReported \subseteq Loaded("USER")
         /\ Outs \subseteq Logouts
         /\ \A last : Listed(last) \subseteq Made /\ Left(last) \subseteq Made
         /\ \A last : Listed(last) \subseteq Nodes
<1>1. Freed \subseteq DOMAIN reports
  BY DEF Freed
<1>2. Ins \subseteq LoginsReported /\ LoginsReported \subseteq Loaded("USER") /\ Outs \subseteq Logouts
  BY <1>1 DEF Ins, Outs, LoginsReported, ReportInv
<1>3. QED
  BY <1>2, LoadedAre DEF Listed, Left, Made

\* The front is taken from the list.
LEMMA FrontGoes ==
  ASSUME TypeInv, NEW last \in Nat, NEW x \in Listed(last), \A y \in Listed(last) : x <= y
  PROVE  Listed(x) = Listed(last) \ {x}
<1>1. (\A y \in Made : y \in Nat) /\ x \in Made /\ x > last /\ x \in Nat
  BY LoadedAre, NodeNumbers DEF Listed
<1>2. \A y \in Made : y > x => y > last
  BY <1>1
<1>3. \A y \in Listed(last) : y # x => y > x
  BY <1>1 DEF Listed
<1>4. ~ (x > x)
  BY <1>1
<1>5. QED
  BY <1>2, <1>3, <1>4 DEF Listed

\* The list is empty: every node has been taken from it.
LEMMA LoopEnds ==
  ASSUME IInv, NEW last \in 0 .. read, Listed(last) = {}, Answered(last + 1)
  PROVE  /\ Left(last) = Left(read)
         /\ \A i \in Loaded("USER") : i <= read => FirstFree(i)
<1>1. /\ TypeInv /\ ReportInv /\ read \in Nat
      /\ Loaded("USER") \subseteq 1 .. read
      /\ \A r \in Loaded("USER") : r \notin Logouts /\ r \in Made
      /\ Outs \subseteq Logouts
  BY LoadedAre, PairsAre DEF IInv
<1>2. \A r \in Loaded("USER") : r <= last
  BY <1>1 DEF Listed
<1>3. Left(last) = Left(read)
  BY <1>1, <1>2 DEF Left
<1>4. \A i \in Loaded("USER") : i < last + 1
  BY <1>1, <1>2
<1>5. QED
  BY <1>3, <1>4 DEF Answered

LEMMA PopEnds ==
  ASSUME IInv, pc = "pop", ListEmpty(m, Anchor), Goto("exit"),
         UNCHANGED <<wtmp, read, m, heap, pNode, pos, next, reports, failures, aborted, faults, ret>>
  PROVE  IInv'
<1>1. PICK last \in 0 .. read : Walk(last) /\ Answered(last + 1)
  BY DEF IInv, PopInv
<1>2. /\ ~ aborted /\ ret = "none" /\ TypeInv /\ ReportInv /\ read \in Nat /\ last \in Nat
      /\ read = Len(wtmp) /\ pc' = "exit" /\ faults = {}
  BY LoadedAre DEF IInv, PopInv, Goto
<1>3. Listed(last) = {}
  BY <1>1, <1>2, PairsAre, FirstNode DEF Walk, ListEmpty
<1>4. /\ Left(last) = Left(read)
      /\ \A i \in Loaded("USER") : i <= read => FirstFree(i)
  BY <1>1, <1>3, LoopEnds
<1>5. TypeInv'
  BY <1>2 DEF TypeInv
<1>6. /\ ReportInv' /\ Listed(read)' = Listed(last) /\ Left(Cut)' = Left(read) /\ Cut' = read
      /\ Loaded("USER")' = Loaded("USER")
      /\ \A i \in Loaded("USER") : FirstFree(i)' <=> FirstFree(i)
  <2>1. Cut' = read /\ Left(read)' = Left(read)
    BY <1>2, SameReports DEF Cut
  <2>2. Left(Cut)' = Left(read)
    BY <1>2, SameRecords DEF Left, Cut, Ins, Freed
  <2>3. Listed(read)' = Listed(last)
    <3>1. \A r \in Made : ~ (r > read)
      BY <1>2, LoadedAre DEF Made
    <3>2. Listed(read) = {}
      BY <3>1 DEF Listed
    <3>3. QED
      BY <1>2, <1>3, <3>2, SameReports DEF Listed
  <2>4. QED
    BY <1>2, <2>1, <2>2, <2>3, SameReports, SameRecords, LoadedAre
<1>7. ExitInv'
  <2>1. Ended'
    BY <1>2, <1>4, <1>6 DEF Ended
  <2>2. Ordered(m, Listed(last)) /\ heap = Listed(last) \cup Left(read)
    BY <1>1, <1>4 DEF Walk
  <2>3. PICK r : r = read
    OBVIOUS
  <2>4. Listed(r)' = Listed(last)
    BY <1>6, <2>3 DEF Listed
  <2>5. Ordered(m', Listed(r)') /\ heap' = Listed(r)' \cup Left(Cut)' /\ r \in Cut' .. read'
    BY <1>2, <1>6, <2>2, <2>3, <2>4
  <2>6. QED
    BY <1>2, <2>1, <2>5 DEF ExitInv
<1>8. LoadInv' /\ PopInv' /\ ScanInv' /\ DoneInv'
  BY <1>2 DEF LoadInv, PopInv, ScanInv, DoneInv
<1>9. QED
  BY <1>2, <1>5, <1>6, <1>7, <1>8 DEF IInv

\* The nodes between the one taken before and the front have left the list.
LEMMA PopMoves ==
  ASSUME IInv, NEW last \in 0 .. read, Walk(last), Answered(last + 1),
         NEW x \in Listed(last), \A y \in Listed(last) : x <= y
  PROVE  /\ Listed(x) = Listed(last) \ {x} /\ x \in 1 .. read /\ x \in Nodes /\ x # Anchor
         /\ wtmp[x].type = "USER" =>
              x \in Loaded("USER") /\ Left(x) = Left(last) \cup {x} /\ x \notin Left(last)
         /\ wtmp[x].type # "USER" => Left(x) = Left(last) /\ x \notin Left(last) /\ Answered(x + 1)
         /\ Answered(x)
<1>1. /\ TypeInv /\ ReportInv /\ read \in Nat /\ last \in Nat
      /\ Loaded("USER") \subseteq 1 .. read /\ Logouts \subseteq 1 .. read /\ 1 .. read \subseteq Nodes
      /\ \A r \in Loaded("USER") : r \notin Logouts /\ r \in Made /\ wtmp[r].type = "USER"
      /\ \A r \in Logouts : r \in Made /\ wtmp[r].type = "DEAD"
      /\ \A r \in Made : r \in Loaded("USER") \/ r \in Logouts
      /\ Outs \subseteq Logouts /\ Ins \subseteq LoginsReported
  BY LoadedAre, PairsAre DEF IInv
<1>2. x \in Made /\ x > last /\ x \notin Outs /\ x \in 1 .. read /\ x \in Nodes /\ x # Anchor
  BY <1>1, NodeNumbers DEF Listed
<1>3. \A r \in Made : r > last /\ r < x => r \in Outs
  BY <1>1, <1>2 DEF Listed
<1>4. Listed(x) = Listed(last) \ {x}
  BY <1>1, FrontGoes
<1>5. \A k \in DOMAIN reports : reports[k][1] < x
  <2>1. \A k \in DOMAIN reports : reports[k][1] < last + 1 /\ reports[k][1] \in Nat
    BY <1>1 DEF Answered, ReportInv
  <2>2. QED
    BY <1>2, <2>1
<1>6. \A i \in Loaded("USER") : i < x => i < last + 1
  BY <1>1, <1>2, <1>3
<1>7. Answered(x)
  BY <1>5, <1>6 DEF Answered
<1>8. x \notin Ins
  BY <1>1, <1>2, <1>5 DEF LoginsReported
<1>9. \A i \in Loaded("USER") : i <= x <=> i <= last \/ i = x
  BY <1>1, <1>2, <1>6
<1>10. ASSUME wtmp[x].type = "USER"
       PROVE  x \in Loaded("USER") /\ Left(x) = Left(last) \cup {x} /\ x \notin Left(last)
  <2>1. x \in Loaded("USER")
    BY <1>1, <1>2, <1>10
  <2>2. QED
    BY <1>1, <1>2, <1>8, <1>9, <2>1 DEF Left
<1>11. ASSUME wtmp[x].type # "USER"
       PROVE  Left(x) = Left(last) /\ x \notin Left(last) /\ Answered(x + 1)
  <2>1. x \notin Loaded("USER")
    BY <1>1, <1>11
  <2>2. Left(x) = Left(last) /\ x \notin Left(last)
    BY <1>9, <2>1 DEF Left
  <2>3. \A i \in Loaded("USER") : i < x + 1 => i < x
    BY <1>1, <1>2, <2>1
  <2>4. \A k \in DOMAIN reports : reports[k][1] < x + 1
    BY <1>1, <1>2, <1>5 DEF ReportInv
  <2>5. Answered(x + 1)
    BY <1>7, <2>3, <2>4 DEF Answered
  <2>6. QED
    BY <2>2, <2>5
<1>12. QED
  BY <1>2, <1>4, <1>7, <1>10, <1>11

LEMMA PopTakes ==
  ASSUME IInv, pc = "pop", ~ ListEmpty(m, Anchor), Pop
  PROVE  IInv'
<1>0. PICK x : x = m[Anchor].next
  OBVIOUS
<1>1. PICK last \in 0 .. read : Walk(last) /\ Answered(last + 1)
  BY DEF IInv, PopInv
<1>2. /\ ~ aborted /\ ret = "none" /\ TypeInv /\ ReportInv /\ read \in Nat /\ last \in Nat
      /\ read = Len(wtmp) /\ faults = {} /\ Listed(last) \in SUBSET Nodes
      /\ Ordered(m, Listed(last)) /\ heap = Listed(last) \cup Left(last)
  BY <1>1, LoadedAre, PairsAre DEF IInv, PopInv, Walk
<1>3. x \in Listed(last) /\ \A y \in Listed(last) : x <= y
  BY <1>0, <1>2, FirstNode DEF ListEmpty
<1>4. /\ UNCHANGED <<wtmp, read, reports, failures, aborted, ret>>
      /\ m' = ListDel(m, x)
      /\ Touch({x, m[x].next})
      /\ heap' = IF wtmp[x].type # "USER" THEN heap \ {x} ELSE heap
      /\ IF wtmp[x].type = "USER"
         THEN /\ pc' = "scan" /\ pNode' = x
              /\ pos' = m'[Anchor].next /\ next' = m'[pos'].next
         ELSE UNCHANGED <<pc, pNode, pos, next>>
  BY <1>0 DEF Pop, Take, PopFree, ListFront, Goto
<1>5. /\ Listed(x) = Listed(last) \ {x} /\ x \in 1 .. read /\ x \in Nodes /\ x # Anchor
      /\ wtmp[x].type = "USER" =>
           x \in Loaded("USER") /\ Left(x) = Left(last) \cup {x} /\ x \notin Left(last)
      /\ wtmp[x].type # "USER" => Left(x) = Left(last) /\ x \notin Left(last) /\ Answered(x + 1)
      /\ Answered(x)
  BY <1>1, <1>3, PopMoves
<1>6. m' \in Memory(Cells) /\ Ordered(m', Listed(x))
  <2>1. m \in Memory(Cells)
    BY <1>2 DEF TypeInv
  <2>2. ListDel(m, x) \in Memory(Cells) /\ Ordered(ListDel(m, x), Listed(last) \ {x})
    BY <1>2, <1>3, <2>1, OrderedDel
  <2>3. QED
    BY <1>4, <1>5, <2>2
<1>7. faults' = {}
  <2>1. m[x].next \in Listed(last) \cup {Anchor}
    BY <1>2, <1>3, NodeAfter
  <2>2. QED
    BY <1>2, <1>3, <1>4, <2>1 DEF Touch
<1>8. heap' = Listed(x) \cup Left(x)
  BY <1>2, <1>3, <1>4, <1>5
<1>9. /\ ReportInv' /\ Listed(x)' = Listed(x) /\ Left(x)' = Left(x)
      /\ Loaded("USER")' = Loaded("USER")
      /\ \A i \in Loaded("USER") : FirstFree(i)' <=> FirstFree(i)
      /\ \A i, j \in Nodes : Matches(i, j)' <=> Matches(i, j)
  <2>1. x \in Nat
    BY <1>5
  <2>2. QED
    BY <1>2, <1>4, <2>1, SameReports, SameRecords, LoadedAre
<1>10. Listed(x) \cup {Anchor} \subseteq Cells
  BY <1>2, <1>5 DEF Cells
<1>11. heap' \subseteq Nodes
  BY <1>2, <1>4 DEF TypeInv
<1>12. CASE wtmp[x].type = "USER"
  <2>1. /\ pc' = "scan" /\ pNode' = x /\ x \in Loaded("USER")
        /\ pos' = m'[Anchor].next /\ next' = m'[pos'].next
        /\ pos' \in Listed(x) \cup {Anchor} /\ next' \in Listed(x) \cup {Anchor}
    BY <1>4, <1>5, <1>6, <1>12 DEF Ordered
  <2>2. TypeInv'
    BY <1>2, <1>4, <1>5, <1>6, <1>10, <1>11, <2>1 DEF TypeInv, Cells
  <2>3. /\ Walk(pNode)' /\ Answered(pNode)'
    <3>1. Walk(x)' /\ Answered(x)'
      <4>1. Walk(x)'
        BY <1>4, <1>5, <1>6, <1>8, <1>9 DEF Walk
      <4>2. Answered(x)'
        BY <1>4, <1>5, <1>9 DEF Answered
      <4>3. QED
        BY <4>1, <4>2
    <3>2. Listed(pNode)' = Listed(x)' /\ Left(pNode)' = Left(x)'
      BY <2>1 DEF Listed, Left
    <3>3. QED
      BY <2>1, <3>1, <3>2 DEF Walk, Answered
  <2>4. ScanInv'
    <3>1. Listed(pNode)' = Listed(x)
      BY <1>9, <2>1 DEF Listed
    <3>2. \A y \in Listed(x) : ~ (pos' = Anchor \/ y < pos')
      <4>1. Listed(x) \subseteq Nat /\ Listed(x) \in SUBSET Nodes
        BY <1>2, <1>5, NodeNumbers
      <4>2. QED
        BY <1>6, <2>1, <4>1, FirstNode, NodeNumbers
    <3>3. QED
      BY <1>2, <1>4, <1>9, <2>1, <2>3, <3>1, <3>2 DEF ScanInv
  <2>5. LoadInv' /\ PopInv' /\ ExitInv' /\ DoneInv'
    BY <2>1 DEF LoadInv, PopInv, ExitInv, DoneInv
  <2>6. QED
    BY <1>2, <1>4, <1>7, <1>9, <2>2, <2>4, <2>5 DEF IInv
<1>13. CASE wtmp[x].type # "USER"
  <2>1. UNCHANGED <<pc, pNode, pos, next>>
    BY <1>4, <1>13
  <2>2. TypeInv'
    BY <1>2, <1>4, <1>6, <1>11, <2>1 DEF TypeInv
  <2>3. PopInv'
    <3>1. Walk(x)'
      BY <1>4, <1>5, <1>6, <1>8, <1>9 DEF Walk
    <3>2. Answered(x + 1)'
      BY <1>4, <1>5, <1>9, <1>13 DEF Answered
    <3>3. x \in 0 .. read'
      BY <1>4, <1>5
    <3>4. QED
      BY <1>2, <1>4, <3>1, <3>2, <3>3 DEF PopInv
  <2>4. LoadInv' /\ ScanInv' /\ ExitInv' /\ DoneInv'
    BY <2>1 DEF LoadInv, ScanInv, ExitInv, DoneInv
  <2>5. QED
    BY <1>2, <1>4, <1>7, <1>9, <2>1, <2>2, <2>3, <2>4 DEF IInv
<1>14. QED
  BY <1>12, <1>13

LEMMA PopKeepsIInv ==
  ASSUME IInv, Pop
  PROVE  IInv'
<1>1. pc = "pop"
  BY DEF Pop
<1>2. CASE ListEmpty(m, Anchor)
  BY <1>1, <1>2, PopEnds DEF Pop
<1>3. CASE ~ ListEmpty(m, Anchor)
  BY <1>1, <1>3, PopTakes
<1>4. QED
  BY <1>2, <1>3

\* What the inner loop knows of its login: none of the nodes it passed may be
\* its logout, and the candidates still in the list are all there are.
LEMMA ScanFacts ==
  ASSUME IInv, pc = "scan"
  PROVE  /\ ~ aborted /\ ret = "none" /\ TypeInv /\ ReportInv /\ read = Len(wtmp) /\ faults = {}
         /\ pNode \in Loaded("USER") /\ pNode \in Nodes /\ pNode \in Nat /\ pNode \in 0 .. read
         /\ Walk(pNode) /\ Answered(pNode)
         /\ pos \in Listed(pNode) \cup {Anchor} /\ next = m[pos].next
         /\ \A y \in Listed(pNode) : pos = Anchor \/ y < pos => ~ Matches(pNode, y)
         /\ Listed(pNode) \in SUBSET Nodes /\ Listed(pNode) \subseteq Made
         /\ Freed = DOMAIN reports /\ pNode \notin LoginsReported /\ pNode \notin Ins
         /\ MayEndIt(pNode) = {y \in Listed(pNode) : Matches(pNode, y)}
<1>1. /\ ~ aborted /\ ret = "none" /\ TypeInv /\ ReportInv /\ read = Len(wtmp) /\ faults = {}
      /\ pNode \in Loaded("USER") /\ Walk(pNode) /\ Answered(pNode)
      /\ pos \in Listed(pNode) \cup {Anchor} /\ next = m[pos].next
      /\ \A y \in Listed(pNode) : pos = Anchor \/ y < pos => ~ Matches(pNode, y)
  BY DEF IInv, ScanInv
<1>2. pNode \in Nodes /\ pNode \in Nat /\ pNode \in 0 .. read
  BY <1>1, LoadedAre, NodeNumbers DEF Walk
<1>3. /\ Listed(pNode) \in SUBSET Nodes /\ Listed(pNode) \subseteq Made
      /\ Ins \subseteq LoginsReported
  BY <1>1, PairsAre
<1>4. Freed = DOMAIN reports
  BY <1>1 DEF Freed
<1>5. \A k \in DOMAIN reports : reports[k][1] < pNode
  BY <1>1 DEF Answered
<1>6. pNode \notin LoginsReported
  BY <1>2, <1>5 DEF LoginsReported
<1>7. \A j : TakenBefore(pNode, j) <=> j \in Outs
  BY <1>4, <1>5 DEF TakenBefore, Outs
<1>8. MayEndIt(pNode) = {y \in Listed(pNode) : Matches(pNode, y)}
  <2>1. /\ \A r \in Logouts : r \in Made /\ wtmp[r].type = "DEAD" /\ r \in Nat
        /\ \A r \in Made : r \in Loaded("USER") \/ r \in Logouts
        /\ \A r \in Loaded("USER") : wtmp[r].type = "USER"
        /\ \A r \in Made : r \in Nat
    BY <1>1, LoadedAre, NodeNumbers
  <2>2. ASSUME NEW j \in MayEndIt(pNode)
        PROVE  j \in Listed(pNode) /\ Matches(pNode, j)
    BY <1>2, <1>7, <2>1 DEF MayEndIt, MayEnd, Listed, Matches
  <2>3. ASSUME NEW j \in Listed(pNode), Matches(pNode, j)
        PROVE  j \in MayEndIt(pNode)
    <3>1. j \in Made /\ j > pNode /\ j \notin Outs /\ j \in Nat
      BY <2>1 DEF Listed
    <3>2. j \in Logouts
      BY <2>1, <2>3, <3>1 DEF Matches
    <3>3. MayEnd(pNode, j)
      BY <1>2, <2>3, <3>1 DEF MayEnd, Matches
    <3>4. QED
      BY <1>7, <3>1, <3>2, <3>3 DEF MayEndIt
  <2>4. QED
    BY <2>2, <2>3
<1>9. QED
  BY <1>1, <1>2, <1>3, <1>4, <1>6, <1>8

LEMMA ScanEnds ==
  ASSUME IInv, pc = "scan", pos = Anchor, Goto("pop"),
         UNCHANGED <<wtmp, read, m, heap, pNode, pos, next, reports, failures, aborted, faults, ret>>
  PROVE  IInv'
<1>1. /\ ~ aborted /\ ret = "none" /\ TypeInv /\ ReportInv /\ read = Len(wtmp) /\ faults = {}
      /\ pNode \in Nodes /\ pNode \in Nat /\ pNode \in 0 .. read /\ pNode \in Loaded("USER")
      /\ Walk(pNode) /\ Answered(pNode) /\ pNode \notin LoginsReported
      /\ MayEndIt(pNode) = {y \in Listed(pNode) : Matches(pNode, y)}
      /\ \A y \in Listed(pNode) : ~ Matches(pNode, y)
      /\ pc' = "pop"
  BY ScanFacts DEF Goto
<1>2. FirstFree(pNode)
  BY <1>1 DEF FirstFree
<1>3. Answered(pNode + 1)
  <2>1. \A i \in Loaded("USER") : i < pNode + 1 => i < pNode \/ i = pNode
    BY <1>1, LoadedAre
  <2>2. \A k \in DOMAIN reports : reports[k][1] < pNode + 1
    BY <1>1, LoadedAre DEF Answered, ReportInv
  <2>3. QED
    BY <1>1, <1>2, <2>1, <2>2 DEF Answered
<1>4. PICK p : p = pNode
  OBVIOUS
<1>5. /\ ReportInv' /\ Listed(p)' = Listed(p) /\ Left(p)' = Left(p)
      /\ Loaded("USER")' = Loaded("USER") /\ Loaded("USER") \subseteq Nodes
      /\ \A i \in Nodes : FirstFree(i)' <=> FirstFree(i)
  BY <1>1, <1>4, SameReports, SameRecords, LoadedAre
<1>6. Walk(p)'
  BY <1>1, <1>4, <1>5 DEF Walk
<1>7. Answered(p + 1)'
  BY <1>3, <1>4, <1>5 DEF Answered
<1>8. PopInv'
  <2>1. p \in 0 .. read'
    BY <1>1, <1>4
  <2>2. QED
    BY <1>1, <1>6, <1>7, <2>1 DEF PopInv
<1>9. TypeInv' /\ LoadInv' /\ ScanInv' /\ ExitInv' /\ DoneInv'
  BY <1>1 DEF TypeInv, LoadInv, ScanInv, ExitInv, DoneInv
<1>10. QED
  BY <1>1, <1>5, <1>8, <1>9 DEF IInv

LEMMA ScanAdvances ==
  ASSUME IInv, pc = "scan", pos # Anchor, ~ Matches(pNode, pos),
         pos' = next, next' = m[next].next, Touch({pos, next}),
         UNCHANGED <<wtmp, read, m, heap, pc, pNode, reports, failures, aborted, ret>>
  PROVE  IInv'
<1>1. PICK p, x : p = pNode /\ x = pos
  OBVIOUS
<1>2. /\ ~ aborted /\ ret = "none" /\ TypeInv /\ ReportInv /\ read = Len(wtmp) /\ faults = {}
      /\ p \in Nodes /\ p \in Nat /\ p \in Loaded("USER")
      /\ Walk(p) /\ Answered(p) /\ x \in Listed(p) /\ next = m[x].next
      /\ \A y \in Listed(p) : y < x => ~ Matches(p, y)
      /\ ~ Matches(p, x)
      /\ Listed(p) \in SUBSET Nodes
  BY <1>1, ScanFacts
<1>3. /\ next \in Listed(p) \cup {Anchor}
      /\ next = Anchor => \A y \in Listed(p) : y <= x
      /\ next # Anchor => \A y \in Listed(p) : y < next => y <= x
  BY <1>2, NodeAfter DEF Walk
<1>4. m[next].next \in Listed(p) \cup {Anchor}
  BY <1>2, <1>3 DEF Walk, Ordered
<1>5. Listed(p) \cup {Anchor} \subseteq Cells
  BY <1>2 DEF Cells
<1>6. TypeInv'
  BY <1>2, <1>3, <1>4, <1>5 DEF TypeInv
<1>7. /\ ReportInv' /\ Listed(p)' = Listed(p) /\ Left(p)' = Left(p)
      /\ Loaded("USER")' = Loaded("USER") /\ Loaded("USER") \subseteq Nodes
      /\ \A i \in Nodes : FirstFree(i)' <=> FirstFree(i)
      /\ \A i, j \in Nodes : Matches(i, j)' <=> Matches(i, j)
  BY <1>2, SameReports, SameRecords, LoadedAre
<1>8. Walk(p)' /\ Answered(p)'
  <2>1. Walk(p)'
    BY <1>2, <1>7 DEF Walk
  <2>2. Answered(p)'
    BY <1>2, <1>7 DEF Answered
  <2>3. QED
    BY <2>1, <2>2
<1>9. \A y \in Listed(p) : next = Anchor \/ y < next => ~ Matches(p, y)
  <2>1. \A y \in Listed(p) : y <= x => y < x \/ y = x
    <3>1. Listed(p) \subseteq Nat
      BY <1>2, NodeNumbers
    <3>2. x \in Nat
      BY <1>2, <3>1
    <3>3. QED
      BY <3>1, <3>2
  <2>2. QED
    BY <1>2, <1>3, <2>1
<1>10. faults' = {}
  BY <1>1, <1>2, <1>3 DEF Walk, Touch
<1>11. ScanInv'
  <2>1. pNode' = p
    BY <1>1
  <2>2. Walk(pNode)' /\ Answered(pNode)' /\ Listed(pNode)' = Listed(p)
    <3>1. Listed(pNode)' = Listed(p)' /\ Left(pNode)' = Left(p)'
      BY <2>1 DEF Listed, Left
    <3>2. QED
      BY <1>7, <1>8, <2>1, <3>1 DEF Walk, Answered
  <2>3. \A y \in Listed(p) : Matches(pNode, y)' <=> Matches(p, y)
    BY <1>2, <2>1, <1>7 DEF Matches
  <2>4. QED
    BY <1>2, <1>3, <1>7, <1>9, <2>1, <2>2, <2>3 DEF ScanInv
<1>12. LoadInv' /\ PopInv' /\ ExitInv' /\ DoneInv'
  BY DEF LoadInv, PopInv, ExitInv, DoneInv
<1>13. QED
  BY <1>2, <1>6, <1>7, <1>10, <1>11, <1>12 DEF IInv

\* A pair is reported: what earlier logins got is as it was, and the login of
\* the scan has the first logout that nobody had.
LEMMA ReportAnswers ==
  ASSUME IInv, pc = "scan", pos # Anchor, Matches(pNode, pos),
         reports' = Append(reports, <<pNode, pos>>),
         UNCHANGED <<wtmp, read, failures>>
  PROVE  /\ ReportInv' /\ reports' \in Seq(Nodes \X Nodes)
         /\ Len(reports') = Len(reports) + 1 /\ Len(reports) \in Nat
         /\ DOMAIN reports = 1 .. Len(reports) /\ DOMAIN reports' = 1 .. Len(reports) + 1
         /\ \A k \in DOMAIN reports : reports'[k] = reports[k]
         /\ reports'[Len(reports) + 1] = <<pNode, pos>>
         /\ \A i \in Loaded("USER") : i <= pNode => FirstFree(i)'
<1>1. PICK p, x : p = pNode /\ x = pos
  OBVIOUS
<1>2. /\ TypeInv /\ ReportInv /\ Answered(p) /\ x \in Listed(p) /\ x \in Logouts
      /\ p \in Nodes /\ p \in Nat /\ p \in Loaded("USER") /\ x \in Nodes /\ x \in Nat
      /\ p \notin LoginsReported /\ x \notin Outs /\ Freed = DOMAIN reports
      /\ \A y \in Listed(p) : y < x => ~ Matches(p, y)
      /\ Matches(p, x)
      /\ MayEndIt(p) = {y \in Listed(p) : Matches(p, y)}
  <2>1. /\ TypeInv /\ ReportInv /\ Answered(p) /\ x \in Listed(p)
        /\ p \in Nodes /\ p \in Nat /\ p \in Loaded("USER")
        /\ p \notin LoginsReported /\ Freed = DOMAIN reports
        /\ \A y \in Listed(p) : y < x => ~ Matches(p, y)
        /\ Matches(p, x)
        /\ MayEndIt(p) = {y \in Listed(p) : Matches(p, y)}
        /\ Listed(p) \in SUBSET Nodes
    BY <1>1, ScanFacts
  <2>2. x \in Nodes /\ x \in Nat /\ x \notin Outs
    BY <2>1, NodeNumbers DEF Listed
  <2>3. x \in Logouts
    BY <2>1 DEF MayEndIt
  <2>4. QED
    BY <2>1, <2>2, <2>3
<1> DEFINE n == Len(reports)
<1>3. /\ n \in Nat /\ DOMAIN reports = 1 .. n /\ reports' \in Seq(Nodes \X Nodes)
      /\ Len(reports') = n + 1 /\ DOMAIN reports' = 1 .. n + 1
      /\ \A k \in DOMAIN reports : reports'[k] = reports[k]
      /\ reports'[n + 1] = <<p, x>>
  <2>1. reports \in Seq(Nodes \X Nodes) /\ <<p, x>> \in Nodes \X Nodes
    BY <1>2 DEF TypeInv
  <2>2. reports' = Append(reports, <<p, x>>)
    BY <1>1
  <2>3. QED
    BY <2>1, <2>2
<1>4. PICK N : N = n
  OBVIOUS
<1> HIDE DEF n
<1>5. /\ N \in Nat /\ DOMAIN reports = 1 .. N /\ DOMAIN reports' = 1 .. N + 1
      /\ \A k \in 1 .. N : reports'[k] = reports[k]
      /\ reports'[N + 1][1] = p /\ reports'[N + 1][2] = x
      /\ \A k \in 1 .. N + 1 : k \in 1 .. N \/ k = N + 1
      /\ \A k \in 1 .. N : k \in 1 .. N + 1
      /\ N + 1 \in 1 .. N + 1
  BY <1>3, <1>4
<1>6. \A k \in 1 .. N : reports[k][1] < p /\ reports[k][1] \in Nat /\ reports[k][2] # x
  <2>1. \A k \in 1 .. N : reports[k][1] < p
    BY <1>2, <1>5 DEF Answered
  <2>2. \A k \in 1 .. N : reports[k][2] \in Outs
    BY <1>2, <1>5 DEF Outs
  <2>3. \A k \in 1 .. N : reports[k][1] \in Nat
    BY <1>2, <1>5, LoadedAre, NodeNumbers DEF ReportInv
  <2>4. QED
    BY <1>2, <2>1, <2>2, <2>3
<1>7. Loaded("USER")' = Loaded("USER") /\ Logouts' = Logouts
  BY SameRecords
<1>8. ReportInv'
  <2>1. ASSUME NEW k \in 1 .. N + 1
        PROVE  reports'[k][1] \in Loaded("USER") /\ reports'[k][2] \in Logouts
    <3>1. CASE k \in 1 .. N
      BY <1>2, <1>5, <3>1 DEF ReportInv
    <3>2. CASE k = N + 1
      BY <1>2, <1>5, <3>2
    <3>3. QED
      BY <1>5, <3>1, <3>2
  <2>2. ASSUME NEW k \in 1 .. N + 1, NEW l \in 1 .. N + 1, k < l
        PROVE  reports'[k][1] < reports'[l][1] /\ reports'[k][2] # reports'[l][2]
    <3>1. k \in 1 .. N
      BY <1>5, <2>2
    <3>2. CASE l \in 1 .. N
      BY <1>2, <1>5, <2>2, <3>1, <3>2 DEF ReportInv
    <3>3. CASE l = N + 1
      BY <1>5, <1>6, <3>1, <3>3
    <3>4. QED
      BY <1>5, <3>2, <3>3
  <2>3. QED
    BY <1>5, <1>7, <2>1, <2>2 DEF ReportInv
<1>9. ASSUME NEW i \in Loaded("USER"), i <= p
      PROVE  FirstFree(i)'
  <2>1. i \in Nodes /\ i \in Nat /\ Logouts \subseteq Nodes
    BY <1>2, LoadedAre, NodeNumbers
  <2>2. \A j : TakenBefore(i, j)' <=> TakenBefore(i, j)
    <3>1. ~ (p < i)
      BY <1>2, <1>9, <2>1
    <3>2. QED
      BY <1>5, <3>1 DEF TakenBefore
  <2>3. MayEndIt(i)' = MayEndIt(i)
    BY <1>7, <2>1, <2>2, SameRecords DEF MayEndIt
  <2>4. CASE i = p
    <3>1. x \in MayEndIt(i)
      BY <1>2, <2>4
    <3>2. \A h \in MayEndIt(i) : x <= h
      <4>1. \A h \in MayEndIt(i) : h \in Nat /\ ~ (h < x)
        BY <1>2, <2>4, LoadedAre, NodeNumbers DEF MayEndIt
      <4>2. QED
        BY <1>2, <4>1
    <3>3. QED
      BY <1>5, <2>3, <2>4, <3>1, <3>2 DEF FirstFree
  <2>5. CASE i # p
    <3>1. i < p /\ FirstFree(i)
      BY <1>2, <1>9, <2>1, <2>5 DEF Answered
    <3>2. i \in LoginsReported' => i \in LoginsReported
      BY <1>5, <2>5 DEF LoginsReported
    <3>3. CASE MayEndIt(i) = {} /\ i \notin LoginsReported
      BY <2>3, <3>2, <3>3 DEF FirstFree
    <3>4. CASE \E k \in DOMAIN reports :
                 /\ reports[k][1] = i
                 /\ reports[k][2] \in MayEndIt(i)
                 /\ \A h \in MayEndIt(i) : reports[k][2] <= h
      BY <1>5, <2>3, <3>4 DEF FirstFree
    <3>5. QED
      BY <3>1, <3>3, <3>4 DEF FirstFree
  <2>6. QED
    BY <2>4, <2>5
<1>10. QED
  BY <1>1, <1>3, <1>8, <1>9 DEF n

\* The callback ends the loop: its pair stays where it is.
LEMMA ScanAborts ==
  ASSUME IInv, pc = "scan", pos # Anchor, Matches(pNode, pos),
         reports' = Append(reports, <<pNode, pos>>), faults' = {},
         aborted' = TRUE, Goto("exit"),
         UNCHANGED <<wtmp, read, m, heap, pNode, pos, next, failures, ret>>
  PROVE  IInv'
<1>1. PICK p, n : p = pNode /\ n = Len(reports)
  OBVIOUS
<1>2. /\ ~ aborted /\ ret = "none" /\ TypeInv /\ read = Len(wtmp) /\ pc' = "exit"
      /\ p \in 0 .. read /\ Walk(p) /\ Freed = DOMAIN reports
  BY <1>1, ScanFacts DEF Goto
<1>3. /\ ReportInv' /\ reports' \in Seq(Nodes \X Nodes)
      /\ Len(reports') = n + 1 /\ n \in Nat
      /\ DOMAIN reports = 1 .. n /\ DOMAIN reports' = 1 .. n + 1
      /\ \A k \in 1 .. n : reports'[k] = reports[k]
      /\ reports'[n + 1] = <<p, pos>>
      /\ \A i \in Loaded("USER") : i <= p => FirstFree(i)'
  BY <1>1, ReportAnswers
<1>4. Loaded("USER")' = Loaded("USER") /\ Made' = Made
  BY SameRecords
<1>5. Freed' = 1 .. n
  <2>1. \A k \in 1 .. n + 1 : k < n + 1 <=> k \in 1 .. n
    BY <1>3
  <2>2. \A k \in 1 .. n : k \in 1 .. n + 1
    BY <1>3
  <2>3. QED
    BY <1>3, <2>1, <2>2 DEF Freed
<1>6. Ins' = Ins /\ Outs' = Outs
  <2>1. Ins' = {reports'[k][1] : k \in 1 .. n} /\ Outs' = {reports'[k][2] : k \in 1 .. n}
    BY <1>5 DEF Ins, Outs
  <2>2. Ins = {reports[k][1] : k \in 1 .. n} /\ Outs = {reports[k][2] : k \in 1 .. n}
    BY <1>2, <1>3 DEF Ins, Outs
  <2>3. QED
    BY <1>3, <2>1, <2>2
<1>7. Listed(p)' = Listed(p) /\ Left(p)' = Left(p)
  BY <1>4, <1>6 DEF Listed, Left
<1>8. ExitInv'
  <2>1. Cut' = p
    BY <1>1 DEF Cut
  <2>2. Left(Cut)' = Left(p)
    BY <1>7, <2>1 DEF Left
  <2>3. Ended'
    <3>1. reports' # <<>> /\ reports'[Len(reports')][1] = p
      BY <1>3
    <3>2. QED
      BY <1>1, <1>3, <1>4, <2>1, <3>1 DEF Ended
  <2>4. Ordered(m', Listed(p)') /\ heap' = Listed(p)' \cup Left(Cut)' /\ p \in Cut' .. read'
    BY <1>2, <1>7, <2>1, <2>2 DEF Walk
  <2>5. QED
    BY <1>2, <2>3, <2>4 DEF ExitInv
<1>9. TypeInv'
  BY <1>2, <1>3 DEF TypeInv
<1>10. LoadInv' /\ PopInv' /\ ScanInv' /\ DoneInv'
  BY <1>2 DEF LoadInv, PopInv, ScanInv, DoneInv
<1>11. QED
  BY <1>2, <1>3, <1>8, <1>9, <1>10 DEF IInv

\* The pair leaves the list and the heap, and the outer loop goes on.
LEMMA ScanFrees ==
  ASSUME IInv, pc = "scan", pos # Anchor, Matches(pNode, pos),
         reports' = Append(reports, <<pNode, pos>>), faults' = {},
         m' = Unlink(pos), heap' = FreePair(pNode, pos), Goto("pop"),
         UNCHANGED <<wtmp, read, pNode, pos, next, failures, aborted, ret>>
  PROVE  IInv'
<1>1. PICK p, n, x : p = pNode /\ n = Len(reports) /\ x = pos
  OBVIOUS
<1>2. /\ ~ aborted /\ ret = "none" /\ TypeInv /\ read = Len(wtmp) /\ pc' = "pop"
      /\ p \in 0 .. read /\ p \in Nat /\ p \in Loaded("USER") /\ Walk(p) /\ Freed = DOMAIN reports
      /\ Answered(p) /\ p \notin Ins /\ x \in Listed(p) /\ Listed(p) \in SUBSET Nodes
      /\ Matches(p, x)
  BY <1>1, ScanFacts DEF Goto
<1>3. /\ ReportInv' /\ reports' \in Seq(Nodes \X Nodes)
      /\ n \in Nat /\ DOMAIN reports = 1 .. n /\ DOMAIN reports' = 1 .. n + 1
      /\ \A k \in 1 .. n : reports'[k] = reports[k]
      /\ reports'[n + 1] = <<p, x>>
      /\ \A i \in Loaded("USER") : i <= p => FirstFree(i)'
  BY <1>1, ReportAnswers
<1>4. Loaded("USER")' = Loaded("USER") /\ Made' = Made
  BY SameRecords
<1>5. /\ \A k \in 1 .. n + 1 : k \in 1 .. n \/ k = n + 1
      /\ \A k \in 1 .. n : k \in 1 .. n + 1
      /\ n + 1 \in 1 .. n + 1
  BY <1>3
<1>6. Ins' = Ins \cup {p} /\ Outs' = Outs \cup {x}
  <2>1. Freed' = 1 .. n + 1 /\ Freed = 1 .. n
    BY <1>2, <1>3 DEF Freed
  <2>2. Ins' = {reports'[k][1] : k \in 1 .. n + 1} /\ Outs' = {reports'[k][2] : k \in 1 .. n + 1}
    BY <2>1 DEF Ins, Outs
  <2>3. Ins = {reports[k][1] : k \in 1 .. n} /\ Outs = {reports[k][2] : k \in 1 .. n}
    BY <2>1 DEF Ins, Outs
  <2>4. reports'[n + 1][1] = p /\ reports'[n + 1][2] = x
    BY <1>3
  <2>5. Ins' = Ins \cup {p}
    BY <1>3, <1>5, <2>2, <2>3, <2>4
  <2>6. Outs' = Outs \cup {x}
    BY <1>3, <1>5, <2>2, <2>3, <2>4
  <2>7. QED
    BY <2>5, <2>6
<1>7. Listed(p)' = Listed(p) \ {x} /\ Left(p)' = Left(p) \ {p}
  BY <1>4, <1>6 DEF Listed, Left
<1>8. Walk(p)'
  <2>1. m \in Memory(Cells) /\ Ordered(m, Listed(p)) /\ heap = Listed(p) \cup Left(p)
    BY <1>2 DEF TypeInv, Walk
  <2>2. Ordered(ListDel(m, x), Listed(p) \ {x})
    BY <1>2, <2>1, OrderedDel
  <2>3. Ordered(m', Listed(p)')
    BY <1>1, <1>7, <2>2 DEF Unlink
  <2>4. p \notin Listed(p)
    BY <1>2 DEF Listed
  <2>5. x \notin Left(p)
    BY <1>2, LoadedAre DEF Left, Matches
  <2>6. heap' = Listed(p)' \cup Left(p)'
    BY <1>1, <1>7, <2>1, <2>4, <2>5 DEF FreePair
  <2>7. QED
    BY <1>2, <2>3, <2>6 DEF Walk
<1>9. Answered(p + 1)'
  <2>1. \A i \in Loaded("USER")' : i < p + 1 => i <= p
    BY <1>2, <1>4, LoadedAre
  <2>2. \A k \in 1 .. n : reports[k][1] < p /\ reports[k][1] \in Nat
    <3>1. \A k \in DOMAIN reports : reports[k][1] \in Loaded("USER")
      BY DEF IInv, ReportInv
    <3>2. \A k \in DOMAIN reports : reports[k][1] \in Nat
      BY <1>2, <3>1, LoadedAre, NodeNumbers
    <3>3. QED
      BY <1>2, <1>3, <3>2 DEF Answered
  <2>3. \A k \in DOMAIN reports' : reports'[k][1] < p + 1
    BY <1>2, <1>3, <1>5, <2>2
  <2>4. QED
    BY <1>3, <1>4, <2>1, <2>3 DEF Answered
<1>10. PopInv'
  <2>1. p \in 0 .. read'
    BY <1>2
  <2>2. QED
    BY <1>2, <1>8, <1>9, <2>1 DEF PopInv
<1>11. TypeInv'
  <2>1. m' \in Memory(Cells)
    BY <1>1, <1>2, OrderedDel DEF TypeInv, Walk, Unlink
  <2>2. heap' \subseteq Nodes
    BY <1>2 DEF TypeInv, FreePair
  <2>3. QED
    BY <1>2, <1>3, <2>1, <2>2 DEF TypeInv
<1>12. LoadInv' /\ ScanInv' /\ ExitInv' /\ DoneInv'
  BY <1>2 DEF LoadInv, ScanInv, ExitInv, DoneInv
<1>13. QED
  BY <1>2, <1>3, <1>10, <1>11, <1>12 DEF IInv

LEMMA ScanKeeps ==
  ASSUME IInv, Scan
  PROVE  IInv'
<1>1. pc = "scan" /\ UNCHANGED <<wtmp, read, pNode, failures, ret>>
  BY DEF Scan
<1>2. CASE /\ pos = Anchor /\ Goto("pop")
           /\ UNCHANGED <<m, heap, pos, next, reports, aborted, faults>>
  BY <1>1, <1>2, ScanEnds
<1>3. CASE /\ pos # Anchor /\ ~ Matches(pNode, pos)
           /\ pos' = next /\ next' = m[next].next
           /\ Touch({pos, next}) /\ UNCHANGED <<pc, m, heap, reports, aborted>>
  BY <1>1, <1>3, ScanAdvances
<1>4. CASE /\ pos # Anchor /\ Matches(pNode, pos)
           /\ reports' = Append(reports, <<pNode, pos>>)
           /\ Touch({pNode, pos, m[pos].prev, m[pos].next})
           /\ \/ aborted' = TRUE /\ Goto("exit") /\ UNCHANGED <<m, heap>>
              \/ /\ m' = Unlink(pos) /\ heap' = FreePair(pNode, pos) /\ Goto("pop")
                 /\ UNCHANGED aborted
           /\ UNCHANGED <<pos, next>>
  <2>1. faults' = {}
    <3>1. /\ pNode \in Loaded("USER") /\ pNode \notin Ins /\ pNode \in Nat /\ Walk(pNode)
          /\ pos \in Listed(pNode) /\ Listed(pNode) \in SUBSET Nodes /\ faults = {}
      BY <1>1, <1>4, ScanFacts
    <3>2. pNode \in Left(pNode)
      BY <3>1 DEF Left
    <3>3. m[pos].prev \in Listed(pNode) \cup {Anchor} /\ m[pos].next \in Listed(pNode) \cup {Anchor}
      BY <3>1, NodeAfter DEF Walk
    <3>4. QED
      BY <1>4, <3>1, <3>2, <3>3 DEF Walk, Touch
  <2>2. QED
    BY <1>1, <1>4, <2>1, ScanAborts, ScanFrees
<1>5. QED
  BY <1>2, <1>3, <1>4 DEF Scan

-----------------------------------------------------------------------------
(***************************************************************************)
(* exit_login_list, and every step.                                        *)
(***************************************************************************)
LEMMA SameEnd ==
  ASSUME TypeInv, UNCHANGED <<wtmp, read, failures, reports, aborted, pNode>>
  PROVE  /\ Cut' = Cut /\ Left(Cut)' = Left(Cut)
         /\ Ended => Ended'
<1>1. /\ Loaded("USER")' = Loaded("USER") /\ Loaded("USER") \subseteq Nodes
      /\ Ins' = Ins
      /\ \A i \in Nodes : FirstFree(i)' <=> FirstFree(i)
  BY SameReports, SameRecords, LoadedAre
<1>2. Cut' = Cut
  BY DEF Cut
<1>3. Left(Cut)' = Left(Cut)
  BY <1>1, <1>2 DEF Left
<1>4. Ended => Ended'
  BY <1>1, <1>2 DEF Ended
<1>5. QED
  BY <1>2, <1>3, <1>4

LEMMA CutIs ==
  ASSUME TypeInv
  PROVE  Cut \in Nat /\ read \in Nat
<1>1. pNode \in Nat /\ read \in Nat
  BY NodeNumbers, LoadedAre DEF TypeInv
<1>2. QED
  BY <1>1 DEF Cut

LEMMA ExitKeeps ==
  ASSUME IInv, Exit
  PROVE  IInv'
<1>1. /\ pc = "exit" /\ pc' = "free" /\ pos' = m[Anchor].next /\ next' = m[pos'].next /\ Touch({pos'})
      /\ UNCHANGED <<wtmp, read, m, heap, pNode, reports, failures, aborted, ret>>
  BY DEF Exit, Goto
<1>2. PICK last \in Cut .. read : Ordered(m, Listed(last)) /\ heap = Listed(last) \cup Left(Cut)
  BY <1>1 DEF IInv, ExitInv
<1>3. /\ ret = "none" /\ Ended /\ TypeInv /\ ReportInv /\ read = Len(wtmp) /\ faults = {}
      /\ Listed(last) \in SUBSET Nodes /\ Cut \in Nat /\ last \in Nat
  <2>1. /\ ret = "none" /\ Ended /\ TypeInv /\ ReportInv /\ read = Len(wtmp) /\ faults = {}
    BY <1>1 DEF IInv, ExitInv
  <2>2. QED
    BY <1>2, <2>1, CutIs, PairsAre
<1>4. /\ pos' \in Listed(last) \cup {Anchor} /\ next' \in Listed(last) \cup {Anchor}
  BY <1>1, <1>2 DEF Ordered
<1>5. TypeInv'
  BY <1>1, <1>3, <1>4 DEF TypeInv, Cells
<1>6. faults' = {}
  BY <1>1, <1>2, <1>3, <1>4 DEF Touch
<1>7. ReportInv' /\ Listed(last)' = Listed(last) /\ Cut' = Cut /\ Left(Cut)' = Left(Cut) /\ Ended'
  BY <1>1, <1>3, SameReports, SameEnd
<1>8. ExitInv'
  BY <1>1, <1>2, <1>3, <1>7 DEF ExitInv
<1>9. LoadInv' /\ PopInv' /\ ScanInv' /\ DoneInv'
  BY <1>1 DEF LoadInv, PopInv, ScanInv, DoneInv
<1>10. QED
  BY <1>1, <1>3, <1>5, <1>6, <1>7, <1>8, <1>9 DEF IInv

LEMMA FreeKeeps ==
  ASSUME IInv, Free
  PROVE  IInv'
<1>1. pc = "free" /\ UNCHANGED <<wtmp, read, pNode, reports, failures, aborted>>
  BY DEF Free
<1>2. PICK last \in Cut .. read : Ordered(m, Listed(last)) /\ heap = Listed(last) \cup Left(Cut)
  BY <1>1 DEF IInv, ExitInv
<1>3. /\ ret = "none" /\ Ended /\ TypeInv /\ ReportInv /\ read = Len(wtmp) /\ faults = {}
      /\ pos = m[Anchor].next /\ next = m[pos].next
      /\ Listed(last) \in SUBSET Nodes /\ Cut \in Nat /\ last \in Nat /\ read \in Nat
      /\ heap \subseteq Nodes
  <2>1. /\ ret = "none" /\ Ended /\ TypeInv /\ ReportInv /\ read = Len(wtmp) /\ faults = {}
        /\ pos = m[Anchor].next /\ next = m[pos].next
    BY <1>1 DEF IInv, ExitInv
  <2>2. QED
    BY <1>2, <2>1, CutIs, PairsAre DEF TypeInv
<1>4. /\ ReportInv' /\ Cut' = Cut /\ Left(Cut)' = Left(Cut) /\ Ended'
      /\ \A l \in Nat : Listed(l)' = Listed(l)
  BY <1>1, <1>3, SameReports, SameEnd
<1>5. CASE pos = Anchor /\ Goto("done") /\ ret' = "0" /\ UNCHANGED <<m, heap, pos, next, faults>>
  <2>1. Listed(last) = {}
    BY <1>2, <1>3, <1>5, FirstNode
  <2>2. DoneInv'
    BY <1>2, <1>4, <1>5, <2>1 DEF DoneInv
  <2>3. TypeInv' /\ LoadInv' /\ PopInv' /\ ScanInv' /\ ExitInv'
    BY <1>1, <1>3, <1>5 DEF Goto, TypeInv, LoadInv, PopInv, ScanInv, ExitInv
  <2>4. QED
    BY <1>1, <1>3, <1>4, <1>5, <2>2, <2>3 DEF IInv
<1>6. CASE /\ pos # Anchor
           /\ m' = ListDel(m, pos) /\ heap' = heap \ {pos}
           /\ Touch({pos, m[pos].prev, next})
           /\ pos' = next /\ next' = m'[next].next
           /\ UNCHANGED <<pc, ret>>
  <2>1. PICK x : x = pos
    OBVIOUS
  <2>2. /\ x \in Listed(last) /\ \A y \in Listed(last) : x <= y
        /\ x \in Nat /\ Listed(last) \subseteq Nat
    <3>1. x \in Listed(last) /\ \A y \in Listed(last) : x <= y
      BY <1>2, <1>3, <1>6, <2>1, FirstNode
    <3>2. QED
      BY <1>3, <3>1, NodeNumbers
  <2>3. x \in Made /\ x > last /\ x \in Cut .. read
    <3>1. x \in Made /\ x > last
      BY <2>2 DEF Listed
    <3>2. x <= read
      BY <1>3, <3>1, LoadedAre DEF Made
    <3>3. QED
      BY <1>2, <1>3, <2>2, <3>1, <3>2
  <2>4. Listed(x) = Listed(last) \ {x}
    BY <1>3, <2>2, FrontGoes
  <2>5. x \notin Left(Cut)
    BY <1>2, <1>3, <2>2, <2>3 DEF Left
  <2>6. heap' = Listed(x) \cup Left(Cut)
    BY <1>2, <1>6, <2>1, <2>4, <2>5
  <2>7. /\ m' \in Memory(Cells) /\ Ordered(m', Listed(x)) /\ m'[Anchor].next = next
    <3>1. m \in Memory(Cells)
      BY <1>3 DEF TypeInv
    <3>2. /\ ListDel(m, x) \in Memory(Cells)
          /\ Ordered(ListDel(m, x), Listed(last) \ {x})
          /\ ListDel(m, x)[Anchor].next = m[x].next
      BY <1>2, <1>3, <2>1, <2>2, <3>1, OrderedDel
    <3>3. QED
      BY <1>3, <1>6, <2>1, <2>4, <3>2
  <2>8. next \in Listed(x) \cup {Anchor} /\ m'[next].next \in Listed(x) \cup {Anchor}
    BY <2>7 DEF Ordered
  <2>9. faults' = {}
    <3>1. m[x].prev \in Listed(last) \cup {Anchor}
      BY <1>2, <1>3, <2>2, NodeAfter
    <3>2. next \in Listed(last) \cup {Anchor}
      BY <2>4, <2>8
    <3>3. QED
      BY <1>2, <1>3, <1>6, <2>1, <2>2, <3>1, <3>2 DEF Touch
  <2>10. TypeInv'
    <3>1. Listed(x) \cup {Anchor} \subseteq Cells
      BY <1>3, <2>4 DEF Cells
    <3>2. heap' \subseteq Nodes /\ pos' \in Cells /\ next' \in Cells
      BY <1>3, <1>6, <2>8, <3>1
    <3>3. QED
      BY <1>1, <1>3, <1>6, <2>7, <3>2 DEF TypeInv
  <2>11. ExitInv'
    <3>1. Ordered(m', Listed(x)') /\ heap' = Listed(x)' \cup Left(Cut)' /\ x \in Cut' .. read'
      BY <1>1, <1>4, <2>2, <2>3, <2>6, <2>7
    <3>2. pos' = m'[Anchor].next /\ next' = m'[pos'].next
      BY <1>6, <2>7
    <3>3. QED
      BY <1>3, <1>4, <1>6, <3>1, <3>2 DEF ExitInv
  <2>12. LoadInv' /\ PopInv' /\ ScanInv' /\ DoneInv'
    BY <1>1, <1>6 DEF LoadInv, PopInv, ScanInv, DoneInv
  <2>13. QED
    BY <1>1, <1>3, <1>4, <1>6, <2>9, <2>10, <2>11, <2>12 DEF IInv
<1>7. QED
  BY <1>5, <1>6 DEF Free

LEMMA InitIInv ==
  ASSUME Init
  PROVE  IInv
<1>1. PICK n \in 0 .. MaxRecords : wtmp \in [1 .. n -> Records]
  BY DEF Init
<1>2. /\ read = 0 /\ heap = {} /\ pc = "open" /\ pNode = Anchor /\ pos = Anchor /\ next = Anchor
      /\ reports = <<>> /\ failures = {} /\ aborted = FALSE /\ faults = {} /\ ret = "none"
      /\ m = InitHead([c \in Cells |-> [prev |-> c, next |-> c]], Anchor)
  BY DEF Init, Cells
<1>3. wtmp \in Seq(Records) /\ Len(wtmp) = n /\ n \in Nat /\ n <= MaxRecords
  BY <1>1, BoundAssumption
<1>4. Anchor \in Cells
  BY DEF Cells
<1>5. /\ m \in Memory(Cells) /\ m[Anchor].next = Anchor /\ m[Anchor].prev = Anchor
  <2> DEFINE m0 == [c \in Cells |-> [prev |-> c, next |-> c]]
             m1 == SetNext(m0, Anchor, Anchor)
  <2>1. m0 \in Memory(Cells)
    BY DEF Memory
  <2> HIDE DEF m0
  <2>2. m1 \in Memory(Cells) /\ m1[Anchor].next = Anchor
    BY <1>4, <2>1, SetNextIs
  <2>3. m = SetPrev(m1, Anchor, Anchor)
    BY <1>2 DEF InitHead, m0
  <2> HIDE DEF m1
  <2>4. QED
    BY <1>4, <2>2, <2>3, SetPrevIs
<1>6. TypeInv
  <2>1. reports \in Seq(Nodes \X Nodes)
    BY <1>2
  <2>2. read \in 0 .. Len(wtmp) /\ failures \subseteq 1 .. read /\ heap \subseteq Nodes
    BY <1>2, <1>3
  <2>3. QED
    BY <1>2, <1>3, <1>4, <1>5, <2>1, <2>2 DEF TypeInv
<1>7. Made = {}
  BY <1>2, <1>6, LoadedAre DEF Made, Loaded, Logouts
<1>8. Ordered(m, Made)
  BY <1>5, <1>7 DEF Ordered
<1>9. ReportInv
  BY <1>2 DEF ReportInv
<1>10. LoadInv /\ PopInv /\ ScanInv /\ ExitInv /\ DoneInv
  BY <1>2, <1>7, <1>8 DEF LoadInv, PopInv, ScanInv, ExitInv, DoneInv
<1>11. QED
  BY <1>2, <1>6, <1>9, <1>10 DEF IInv

LEMMA StutterKeeps ==
  ASSUME IInv, UNCHANGED vars
  PROVE  IInv'
<1>1. UNCHANGED <<wtmp, read, m, heap, pc, pNode, pos, next, reports, failures, aborted, faults, ret>>
  BY DEF vars
<1>2. PICK p : p = pNode
  OBVIOUS
<1> USE DEF IInv
<1>3. /\ TypeInv' /\ ReportInv' /\ faults' = {}
      /\ pc' \notin {"open", "load"} /\ ret' # "-1" => read' = Len(wtmp')
  BY <1>1, SameReports DEF TypeInv
<1>4. /\ Loaded("USER")' = Loaded("USER") /\ Made' = Made /\ Cut' = Cut
      /\ Left(Cut)' = Left(Cut) /\ (Ended => Ended') /\ read \in Nat
      /\ Loaded("USER") \subseteq Nodes
      /\ \A i \in Nodes : FirstFree(i)' <=> FirstFree(i)
      /\ \A l : Listed(l)' = Listed(l) /\ Left(l)' = Left(l)
      /\ \A i, j : Matches(i, j)' <=> Matches(i, j)
  <2>1. Ins' = Ins /\ Outs' = Outs
    BY <1>1, SameReports
  <2>2. Made' = Made /\ Loaded("USER")' = Loaded("USER")
    BY <1>1, SameRecords
  <2>3. \A l : Listed(l)' = Listed(l) /\ Left(l)' = Left(l)
    BY <2>1, <2>2 DEF Listed, Left
  <2>4. QED
    BY <1>1, <2>2, <2>3, SameEnd, SameReports, LoadedAre DEF Matches
<1>5. \A l : (Walk(l) => Walk(l)') /\ (Answered(l) => Answered(l)')
  BY <1>1, <1>4 DEF Walk, Answered
<1>6. LoadInv'
  BY <1>1, <1>4 DEF LoadInv
<1>7. PopInv'
  BY <1>1, <1>5 DEF PopInv
<1>8. ExitInv' /\ DoneInv'
  BY <1>1, <1>4 DEF ExitInv, DoneInv
<1>9. ScanInv'
  <2>1. /\ Listed(pNode)' = Listed(pNode)
        /\ Walk(pNode) => Walk(pNode)'
        /\ Answered(pNode) => Answered(pNode)'
    <3>1. pNode' = p
      BY <1>1, <1>2
    <3>2. Listed(pNode)' = Listed(p)' /\ Left(pNode)' = Left(p)'
      BY <3>1 DEF Listed, Left
    <3>3. QED
      BY <1>2, <1>4, <1>5, <3>1, <3>2 DEF Walk, Answered
  <2>2. \A y : Matches(pNode, y)' <=> Matches(pNode, y)
    BY <1>1 DEF Matches
  <2>3. QED
    BY <1>1, <1>4, <2>1, <2>2 DEF ScanInv
<1>10. QED
  BY <1>3, <1>6, <1>7, <1>8, <1>9

LEMMA Invariance == Spec => []IInv
<1>1. Init => IInv
  BY InitIInv
<1>2. ASSUME IInv, [Next]_vars
      PROVE  IInv'
  <2>1. CASE Open
    BY <1>2, <2>1, OpenKeeps
  <2>2. CASE Load
    BY <1>2, <2>2, LoadKeeps
  <2>3. CASE Pop
    BY <1>2, <2>3, PopKeepsIInv
  <2>4. CASE Scan
    BY <1>2, <2>4, ScanKeeps
  <2>5. CASE Exit
    BY <1>2, <2>5, ExitKeeps
  <2>6. CASE Free
    BY <1>2, <2>6, FreeKeeps
  <2>7. CASE UNCHANGED vars
    BY <1>2, <2>7, StutterKeeps
  <2>8. QED
    BY <1>2, <2>1, <2>2, <2>3, <2>4, <2>5, <2>6, <2>7 DEF Next
<1>3. QED
  BY <1>1, <1>2, PTL DEF Spec

-----------------------------------------------------------------------------
(***************************************************************************)
(* Nothing that has been freed is followed, compared, reported or freed    *)
(* again by the two loops and by exit_login_list.                          *)
(***************************************************************************)
THEOREM ListWalkSafe == Spec => []MemorySafe
<1>1. IInv => MemorySafe
  BY DEF IInv, MemorySafe
<1>2. QED
  BY <1>1, Invariance, PTL

\* A callback that ends the loop has been given the last login of all.
LEMMA LastPair ==
  ASSUME TypeInv, ReportInv, Ended, aborted
  PROVE  /\ LastLogin = pNode /\ Cut = pNode /\ pNode \in Loaded("USER")
         /\ LoginsReported = Ins \cup {pNode} /\ pNode \notin Ins
<1>1. /\ reports \in Seq(Nodes \X Nodes) /\ reports # <<>> /\ reports[Len(reports)][1] = pNode
      /\ Freed = {k \in DOMAIN reports : k < Len(reports)}
  BY DEF TypeInv, Ended, Freed
<1>2. PICK n : n = Len(reports)
  OBVIOUS
<1>3. n \in Nat /\ n \in 1 .. n /\ DOMAIN reports = 1 .. n
  BY <1>1, <1>2
<1>4. \A k \in 1 .. n : k < n \/ k = n
  BY <1>3
<1>5. LastLogin = pNode /\ Cut = pNode
  BY <1>1 DEF LastLogin, Cut
<1>6. \A k \in 1 .. n : k < n => reports[k][1] < reports[n][1]
  BY <1>3 DEF ReportInv
<1>7. pNode \in Loaded("USER") /\ pNode \in Nat
  BY <1>1, <1>2, <1>3, LoadedAre, NodeNumbers DEF ReportInv
<1>8. pNode \notin Ins
  BY <1>1, <1>2, <1>3, <1>6, <1>7 DEF Ins
<1>9. LoginsReported = Ins \cup {pNode}
  BY <1>1, <1>2, <1>3, <1>4 DEF Ins, LoginsReported
<1>10. QED
  BY <1>5, <1>7, <1>8, <1>9

(***************************************************************************)
(* When os_info_logout_tty returns, on every path, what it leaves          *)
(* allocated is the logins for which it found no logout and the one whose  *)
(* callback ended the loop.                                                *)
(***************************************************************************)
THEOREM LeavesOnlyUnmatched == Spec => []OnlyUnmatchedLeak
<1>1. ASSUME IInv, pc = "done"
      PROVE  heap = {x \in Loaded("USER") \ LoginsReported : aborted => x < LastLogin}
                    \cup (IF aborted THEN {LastLogin} ELSE {})
  <2>1. /\ TypeInv /\ ReportInv /\ Loaded("USER") \subseteq 1 .. read /\ read \in Nat
        /\ Loaded("USER") \subseteq Nat
    BY <1>1, LoadedAre, NodeNumbers DEF IInv
  <2>2. CASE ret = "-1" /\ heap = {} /\ read = 0 /\ ~ aborted
    BY <2>1, <2>2
  <2>3. CASE heap = Left(Cut) /\ Ended /\ ~ aborted
    <3>1. Cut = read /\ Freed = DOMAIN reports
      BY <2>3 DEF Cut, Freed
    <3>2. Ins = LoginsReported
      BY <3>1 DEF Ins, LoginsReported
    <3>3. \A r \in Loaded("USER") : r <= read
      BY <2>1
    <3>4. QED
      BY <2>3, <3>1, <3>2, <3>3 DEF Left
  <2>4. CASE heap = Left(Cut) /\ Ended /\ aborted
    <3>1. /\ LastLogin = pNode /\ Cut = pNode /\ pNode \in Loaded("USER")
          /\ LoginsReported = Ins \cup {pNode} /\ pNode \notin Ins
      BY <2>1, <2>4, LastPair
    <3>2. \A r \in Loaded("USER") : r <= pNode <=> r < pNode \/ r = pNode
      BY <2>1, <3>1
    <3>3. ~ (pNode < pNode)
      BY <2>1, <3>1
    <3>4. QED
      BY <2>4, <3>1, <3>2, <3>3 DEF Left
  <2>5. QED
    BY <1>1, <2>2, <2>3, <2>4 DEF IInv, DoneInv
<1>2. IInv => OnlyUnmatchedLeak
  BY <1>1 DEF OnlyUnmatchedLeak
<1>3. QED
  BY <1>2, Invariance, PTL

\* Every login was answered once the function has returned 0.
LEMMA AllAnswered ==
  ASSUME IInv, pc = "done", ret = "0",
         NEW i \in Loaded("USER"), aborted => i <= LastLogin
  PROVE  FirstFree(i)
<1>1. TypeInv /\ ReportInv /\ Ended
  BY DEF IInv, DoneInv
<1>2. i <= Cut
  <2>1. CASE aborted
    BY <1>1, <2>1, LastPair
  <2>2. CASE ~ aborted
    BY <1>1, <2>2, LoadedAre DEF Cut
  <2>3. QED
    BY <2>1, <2>2
<1>3. QED
  BY <1>1, <1>2 DEF Ended

(***************************************************************************)
(* Every login gets the first later logout of its terminal that no earlier *)
(* login got, exactly if there is one, and the callback sees the logins in *)
(* the order of the file.                                                  *)
(***************************************************************************)
THEOREM FirstLogoutWins == Spec => []FirstFreeLogout
<1>1. ASSUME IInv, pc = "done", ret = "0",
             NEW i \in Loaded("USER"), aborted => i <= LastLogin
      PROVE  LET mayEnd == {j \in Loaded("DEAD") : MayEnd(i, j) /\ ~ TakenBefore(i, j)} IN
             IF mayEnd = {} THEN i \notin LoginsReported
             ELSE \E k \in DOMAIN reports :
                    reports[k] = <<i, CHOOSE j \in mayEnd : \A h \in mayEnd : j <= h>>
  <2>1. FirstFree(i) /\ TypeInv
    BY <1>1, AllAnswered DEF IInv
  <2>2. MayEndIt(i) \subseteq Nat
    BY <2>1, LoadedAre, NodeNumbers DEF MayEndIt
  <2>3. CASE MayEndIt(i) = {}
    BY <2>1, <2>3 DEF FirstFree, MayEndIt, Logouts
  <2>4. ASSUME NEW k \in DOMAIN reports, reports[k][1] = i, reports[k][2] \in MayEndIt(i),
               \A h \in MayEndIt(i) : reports[k][2] <= h
        PROVE  reports[k] = <<i, CHOOSE j \in MayEndIt(i) : \A h \in MayEndIt(i) : j <= h>>
    <3>1. PICK c : c = CHOOSE j \in MayEndIt(i) : \A h \in MayEndIt(i) : j <= h
      OBVIOUS
    <3>2. c \in MayEndIt(i) /\ \A h \in MayEndIt(i) : c <= h
      BY <2>4, <3>1
    <3>3. c = reports[k][2]
      BY <2>2, <2>4, <3>2
    <3>4. reports[k] \in Nodes \X Nodes
      BY <2>1 DEF TypeInv
    <3>5. reports[k] = <<reports[k][1], reports[k][2]>>
      BY <3>4
    <3>6. QED
      BY <2>4, <3>1, <3>3, <3>5
  <2>5. CASE MayEndIt(i) # {}
    <3>1. PICK k \in DOMAIN reports : /\ reports[k][1] = i
                                      /\ reports[k][2] \in MayEndIt(i)
                                      /\ \A h \in MayEndIt(i) : reports[k][2] <= h
      BY <2>1, <2>5 DEF FirstFree
    <3>2. reports[k] = <<i, CHOOSE j \in MayEndIt(i) : \A h \in MayEndIt(i) : j <= h>>
      BY <2>4, <3>1
    <3>3. QED
      BY <2>5, <3>2 DEF MayEndIt, Logouts
  <2>6. QED
    BY <2>3, <2>5
<1>2. IInv => FirstFreeLogout
  BY <1>1 DEF FirstFreeLogout, IInv, ReportInv
<1>3. QED
  BY <1>2, Invariance, PTL

-----------------------------------------------------------------------------
(***************************************************************************)
(* Sessions.                                                               *)
(***************************************************************************)
LEMMA LeastIn ==
  ASSUME NEW S \in SUBSET Nat, S # {}
  PROVE  \E a \in S : \A b \in S : a <= b
<1>1. PICK a \in S : \A b \in S : ~ (<<b, a>> \in OpToRel(<, Nat))
  BY NatLessThanWellFounded, WFMin
<1>2. ASSUME NEW b \in S
      PROVE  a <= b
  <2> DEFINE pair == <<b, a>>
  <2>1. pair \in Nat \X Nat /\ pair[1] = b /\ pair[2] = a
    OBVIOUS
  <2> HIDE DEF pair
  <2>2. pair \notin OpToRel(<, Nat)
    BY <1>1 DEF pair
  <2>3. QED
    BY <2>1, <2>2 DEF OpToRel
<1>3. QED
  BY <1>2

\* Between a record and a later one of its terminal: the next one.
LEMMA NextOfTty ==
  ASSUME TypeInv, NEW i \in Made, NEW j \in Made, i < j, wtmp[i].tty = wtmp[j].tty
  PROVE  \E a \in Made : a <= j /\ Adjacent(i, a)
<1> DEFINE S == {a \in Made : i < a /\ a <= j /\ wtmp[a].tty = wtmp[i].tty}
<1>1. Made \subseteq Nat /\ Made = Loaded("USER") \cup Loaded("DEAD")
  BY LoadedAre, NodeNumbers DEF Made, Logouts
<1>2. S \in SUBSET Nat /\ j \in S
  BY <1>1
<1>3. PICK a \in S : \A b \in S : a <= b
  <2> HIDE DEF S
  <2>1. QED
    BY <1>2, LeastIn
<1>4. \A k \in Made : i < k /\ k < a => wtmp[k].tty # wtmp[i].tty
  BY <1>1, <1>3
<1>5. QED
  BY <1>1, <1>3, <1>4 DEF Adjacent

\* Of the pairs that are no session one would have the first login: the logout
\* that ended it was taken by an earlier one, whose pair is no session either.
LEMMA PairsAreSessions ==
  ASSUME IInv, FoundAll, EverySessionEnds
  PROVE  \A k \in DOMAIN reports : Adjacent(reports[k][1], reports[k][2])
<1> DEFINE Bad == {i \in Nat : \E k \in DOMAIN reports :
                                reports[k][1] = i /\ ~ Adjacent(i, reports[k][2])}
<1>1. /\ TypeInv /\ ReportInv /\ ret = "0" /\ pc = "done" /\ ~ aborted /\ Chronological
  BY DEF IInv, FoundAll
<1>2. /\ Made \subseteq Nat /\ Made \subseteq Nodes /\ Made = Loaded("USER") \cup Loaded("DEAD")
      /\ Loaded("USER") \subseteq Made /\ Logouts \subseteq Made /\ Logouts = Loaded("DEAD")
      /\ \A r \in Loaded("USER") : wtmp[r].type = "USER"
      /\ \A r \in Logouts : wtmp[r].type = "DEAD"
      /\ \A r \in Made : r \in Loaded("USER") \/ r \in Logouts
  BY <1>1, LoadedAre, NodeNumbers DEF Made, Logouts
<1>3. SUFFICES ASSUME Bad # {}
               PROVE  FALSE
  BY <1>1, <1>2 DEF ReportInv
<1>4. PICK i \in Bad : \A b \in Bad : i <= b
  <2>1. Bad \in SUBSET Nat
    OBVIOUS
  <2> HIDE DEF Bad
  <2>2. QED
    BY <1>3, <2>1, LeastIn
<1>5. PICK k \in DOMAIN reports : reports[k][1] = i /\ ~ Adjacent(i, reports[k][2])
  BY <1>4
<1>6. PICK j : j = reports[k][2]
  OBVIOUS
<1>7. i \in Loaded("USER") /\ j \in Logouts /\ i \in Nat /\ j \in Nat /\ i \in Made /\ j \in Made
  BY <1>1, <1>2, <1>5, <1>6 DEF ReportInv
<1>8. j \in MayEndIt(i) /\ \A h \in MayEndIt(i) : j <= h
  <2>1. FirstFree(i)
    BY <1>1, <1>7, AllAnswered
  <2>2. i \in LoginsReported
    BY <1>5 DEF LoginsReported
  <2>3. PICK l \in DOMAIN reports : /\ reports[l][1] = i
                                    /\ reports[l][2] \in MayEndIt(i)
                                    /\ \A h \in MayEndIt(i) : reports[l][2] <= h
    BY <2>1, <2>2 DEF FirstFree
  <2>4. l = k
    <3>1. DOMAIN reports \subseteq Nat
      BY <1>1 DEF TypeInv
    <3>2. ~ (l < k) /\ ~ (k < l)
      BY <1>1, <1>5, <1>7, <2>3 DEF ReportInv
    <3>3. QED
      BY <3>1, <3>2
  <2>5. QED
    BY <1>6, <2>3, <2>4
<1>9. PICK a \in Made : a <= j /\ Adjacent(i, a)
  BY <1>1, <1>7, <1>8, NextOfTty DEF MayEndIt, MayEnd
<1>10. a # j /\ a < j
  BY <1>2, <1>5, <1>6, <1>7, <1>9
<1>11. a \in Logouts /\ MayEnd(i, a)
  <2>1. i < a /\ wtmp[i].tty = wtmp[a].tty
    BY <1>9 DEF Adjacent
  <2>2. wtmp[a].type = "DEAD"
    BY <1>2, <1>7, <1>9 DEF EverySessionEnds
  <2>3. a \in Logouts
    BY <1>2, <2>2
  <2>4. i <= a
    BY <1>2, <1>7, <2>1
  <2>5. wtmp[i].time <= wtmp[a].time
    BY <1>1, <1>2, <1>7, <2>4 DEF Chronological
  <2>6. QED
    BY <2>1, <2>3, <2>5 DEF MayEnd
<1>12. TakenBefore(i, a)
  BY <1>2, <1>7, <1>8, <1>10, <1>11 DEF MayEndIt
<1>13. PICK l \in DOMAIN reports : reports[l][1] < i /\ reports[l][2] = a
  BY <1>12 DEF TakenBefore
<1>14. reports[l][1] \in Loaded("USER") /\ reports[l][1] \in Nat /\ reports[l][1] \in Made
  BY <1>1, <1>2 DEF ReportInv
<1>15. reports[l][1] \notin Bad
  BY <1>4, <1>7, <1>13, <1>14
<1>16. Adjacent(reports[l][1], a)
  BY <1>13, <1>14, <1>15
<1>17. i < a /\ wtmp[i].tty = wtmp[a].tty
  BY <1>9 DEF Adjacent
<1>18. QED
  BY <1>2, <1>7, <1>13, <1>16, <1>17 DEF Adjacent

(***************************************************************************)
(* In a chronological file in which every session but the last of a        *)
(* terminal ends with a logout, os_info_logout_tty reports exactly the     *)
(* sessions that have ended, each with its own logout.                     *)
(***************************************************************************)
THEOREM ReportsSessions == Spec => []SessionsReported
<1>1. ASSUME IInv, FoundAll, EverySessionEnds, NEW i \in Nodes, NEW j \in Nodes
      PROVE  Session(i, j) <=> \E k \in DOMAIN reports : reports[k] = <<i, j>>
  <2>1. /\ TypeInv /\ ReportInv /\ ret = "0" /\ pc = "done" /\ ~ aborted /\ Chronological
    BY <1>1 DEF IInv, FoundAll
  <2>2. /\ Made \subseteq Nat /\ Made = Loaded("USER") \cup Loaded("DEAD")
        /\ Loaded("USER") \subseteq Made /\ Logouts \subseteq Made /\ Logouts = Loaded("DEAD")
        /\ \A r \in Loaded("USER") : wtmp[r].type = "USER" /\ r \notin Logouts
        /\ \A r \in Logouts : wtmp[r].type = "DEAD"
        /\ \A r \in Made : r \in Loaded("USER") \/ r \in Logouts
    BY <2>1, LoadedAre, NodeNumbers DEF Made, Logouts
  <2>3. \A k \in DOMAIN reports : Adjacent(reports[k][1], reports[k][2])
    BY <1>1, PairsAreSessions
  <2>4. ASSUME NEW k \in DOMAIN reports, reports[k] = <<i, j>>
        PROVE  Session(i, j)
    <3>1. reports[k][1] = i /\ reports[k][2] = j
      BY <2>4
    <3>2. QED
      BY <2>1, <2>2, <2>3, <3>1 DEF Session, ReportInv
  <2>5. ASSUME Session(i, j)
        PROVE  \E k \in DOMAIN reports : reports[k] = <<i, j>>
    <3>1. /\ Adjacent(i, j) /\ i \in Made /\ j \in Made /\ i < j /\ wtmp[i].tty = wtmp[j].tty
          /\ i \in Nat /\ j \in Nat
          /\ i \in Loaded("USER") /\ j \in Logouts
      <4>1. Adjacent(i, j) /\ i \in Made /\ j \in Made /\ i < j /\ wtmp[i].tty = wtmp[j].tty
        BY <2>2, <2>5 DEF Session, Adjacent
      <4>2. i \in Loaded("USER") /\ j \in Logouts
        BY <2>2, <2>5, <4>1 DEF Session
      <4>3. QED
        BY <2>2, <4>1, <4>2
    <3>2. MayEnd(i, j)
      <4>1. i <= j
        BY <3>1
      <4>2. wtmp[i].time <= wtmp[j].time
        BY <2>1, <2>2, <3>1, <4>1 DEF Chronological
      <4>3. QED
        BY <3>1, <4>2 DEF MayEnd
    <3>3. ~ TakenBefore(i, j)
      <4> SUFFICES ASSUME TakenBefore(i, j)
                   PROVE  FALSE
        OBVIOUS
      <4>1. PICK l \in DOMAIN reports : reports[l][1] < i /\ reports[l][2] = j
        BY DEF TakenBefore
      <4>2. Adjacent(reports[l][1], j)
        BY <2>3, <4>1
      <4>3. QED
        BY <2>2, <3>1, <4>1, <4>2 DEF Adjacent
    <3>4. j \in MayEndIt(i)
      BY <3>1, <3>2, <3>3 DEF MayEndIt
    <3>5. FirstFree(i)
      BY <1>1, <2>1, <3>1, AllAnswered
    <3>6. PICK k \in DOMAIN reports : /\ reports[k][1] = i
                                      /\ reports[k][2] \in MayEndIt(i)
                                      /\ \A h \in MayEndIt(i) : reports[k][2] <= h
      BY <3>4, <3>5 DEF FirstFree
    <3>7. PICK o : o = reports[k][2]
      OBVIOUS
    <3>8. o <= j /\ i < o /\ wtmp[o].tty = wtmp[i].tty /\ o \in Made /\ o \in Nat
      BY <2>2, <3>4, <3>6, <3>7 DEF MayEndIt, MayEnd
    <3>9. o = j
      BY <2>2, <3>1, <3>8 DEF Adjacent
    <3>10. reports[k] \in Nodes \X Nodes
      BY <2>1 DEF TypeInv
    <3>11. reports[k] = <<reports[k][1], reports[k][2]>>
      BY <3>10
    <3>12. QED
      BY <3>6, <3>7, <3>9, <3>11
  <2>6. QED
    BY <2>4, <2>5
<1>2. IInv => SessionsReported
  BY <1>1 DEF SessionsReported
<1>3. QED
  BY <1>2, Invariance, PTL
=============================================================================
