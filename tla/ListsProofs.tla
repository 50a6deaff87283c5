----------------------------- MODULE ListsProofs -----------------------------
(***************************************************************************)
(* For any finite set of nodes and any sequence of calls of list.h the two *)
(* chains of pointers are inverse to each other, and the list implements   *)
(* Deque.  First what the assignments of each function do to the pointers, *)
(* for any set C of cells, where S is the set of nodes in the list and h   *)
(* its head; then what a loop visits; then what each function does to that *)
(* sequence.                                                               *)
(***************************************************************************)
EXTENDS Lists, FiniteSetTheorems, SequenceTheorems, WellFoundedInduction, TLAPS

\* A set of numbers that is not empty has a least one.
LEMMA LeastIn ==
  ASSUME NEW S \in SUBSET Nat, S # {}
  PROVE  \E a \in S : \A b \in S : a <= b
<1>1. PICK a \in S : \A b \in S : ~ (<<b, a>> \in OpToRel(<, Nat))
  BY NatLessThanWellFounded, WFMin
<1>2. ASSUME NEW b \in S
      PROVE  a <= b
  <2> DEFINE pair == <<b, a>>
  <2>1. pair \in Nat \X Nat /\ pair[1] = b /\ pair[2] = a
    OBVIOUS
  <2> HIDE DEF pair
  <2>2. pair \notin OpToRel(<, Nat)
    BY <1>1 DEF pair
  <2>3. QED
    BY <2>1, <2>2 DEF OpToRel
<1>3. QED
  BY <1>2

Memory(C) == [C -> [prev : C, next : C]]

\* What the assignment of a next pointer changes.
LEMMA SetNextIs ==
  ASSUME NEW C, NEW mm \in Memory(C), NEW p \in C, NEW q \in C
  PROVE  /\ SetNext(mm, p, q) \in Memory(C)
         /\ \A c \in C : SetNext(mm, p, q)[c].next = IF c = p THEN q ELSE mm[c].next
         /\ \A c \in C : SetNext(mm, p, q)[c].prev = mm[c].prev
  BY DEF SetNext, Memory

\* What the assignment of a prev pointer changes.
LEMMA SetPrevIs ==
  ASSUME NEW C, NEW mm \in Memory(C), NEW p \in C, NEW q \in C
  PROVE  /\ SetPrev(mm, p, q) \in Memory(C)
         /\ \A c \in C : SetPrev(mm, p, q)[c].prev = IF c = p THEN q ELSE mm[c].prev
         /\ \A c \in C : SetPrev(mm, p, q)[c].next = mm[c].next
  BY DEF SetPrev, Memory

\* __list_add: the new node and its two neighbours.
LEMMA InsertIs ==
  ASSUME NEW C, NEW mm \in Memory(C), NEW a \in C, NEW p \in C, NEW n \in C
  PROVE  /\ ListInsert(mm, a, p, n) \in Memory(C)
         /\ \A c \in C :
              /\ ListInsert(mm, a, p, n)[c].next =
                   IF c = p THEN a ELSE IF c = a THEN n ELSE mm[c].next
              /\ ListInsert(mm, a, p, n)[c].prev =
                   IF c = a THEN p ELSE IF c = n THEN a ELSE mm[c].prev
<1> DEFINE m1 == SetPrev(mm, n, a)
           m2 == SetNext(m1, a, n)
           m3 == SetPrev(m2, a, p)
           m4 == SetNext(m3, p, a)
<1>1. m1 \in Memory(C) /\ \A c \in C : m1[c].prev = (IF c = n THEN a ELSE mm[c].prev) /\ m1[c].next = mm[c].next
  BY SetPrevIs
<1> HIDE DEF m1
<1>2. m2 \in Memory(C) /\ \A c \in C : m2[c].next = (IF c = a THEN n ELSE m1[c].next) /\ m2[c].prev = m1[c].prev
  BY <1>1, SetNextIs
<1> HIDE DEF m2
<1>3. m3 \in Memory(C) /\ \A c \in C : m3[c].prev = (IF c = a THEN p ELSE m2[c].prev) /\ m3[c].next = m2[c].next
  BY <1>2, SetPrevIs
<1> HIDE DEF m3
<1>4. m4 \in Memory(C) /\ \A c \in C : m4[c].next = (IF c = p THEN a ELSE m3[c].next) /\ m4[c].prev = m3[c].prev
  BY <1>3, SetNextIs
<1>5. m4 = ListInsert(mm, a, p, n)
  BY DEF ListInsert, m1, m2, m3
<1> HIDE DEF m4
<1>6. \A c \in C : /\ m4[c].next = IF c = p THEN a ELSE IF c = a THEN n ELSE mm[c].next
                   /\ m4[c].prev = IF c = a THEN p ELSE IF c = n THEN a ELSE mm[c].prev
  BY <1>1, <1>2, <1>3, <1>4
<1>7. QED
  BY <1>4, <1>5, <1>6

\* __list_add between two neighbours keeps the chains inverse to each other.
LEMMA InsertLinks ==
  ASSUME NEW C, NEW mm \in Memory(C), NEW S, NEW h, S \cup {h} \subseteq C,
         WellLinked(mm, S, h),
         NEW a \in C, a \notin S \cup {h},
         NEW p \in S \cup {h}, NEW n \in S \cup {h}, mm[p].next = n
  PROVE  /\ ListInsert(mm, a, p, n) \in Memory(C)
         /\ WellLinked(ListInsert(mm, a, p, n), S \cup {a}, h)
<1> DEFINE m4 == ListInsert(mm, a, p, n)
<1>1. p \in C /\ n \in C
  OBVIOUS
<1>2. /\ m4 \in Memory(C)
      /\ \A c \in C : /\ m4[c].next = IF c = p THEN a ELSE IF c = a THEN n ELSE mm[c].next
                      /\ m4[c].prev = IF c = a THEN p ELSE IF c = n THEN a ELSE mm[c].prev
  BY <1>1, InsertIs
<1> HIDE DEF m4
<1>3. WellLinked(m4, S \cup {a}, h)
  BY <1>2 DEF WellLinked
<1>4. QED
  BY <1>2, <1>3 DEF m4

\* list_del: the two neighbours, the pointers of the node itself stay.
LEMMA DelIs ==
  ASSUME NEW C, NEW mm \in Memory(C), NEW x \in C
  PROVE  /\ ListDel(mm, x) \in Memory(C)
         /\ \A c \in C :
              /\ ListDel(mm, x)[c].next = IF c = mm[x].prev THEN mm[x].next ELSE mm[c].next
              /\ ListDel(mm, x)[c].prev = IF c = mm[x].next THEN mm[x].prev ELSE mm[c].prev
<1> DEFINE p == mm[x].prev
           n == mm[x].next
<1>1. p \in C /\ n \in C
  BY DEF Memory
<1>2. p = mm[x].prev /\ n = mm[x].next /\ ListDel(mm, x) =
        SetPrev(SetNext(mm, p, n), SetNext(mm, p, n)[x].next, SetNext(mm, p, n)[x].prev)
  BY DEF ListDel
<1> HIDE DEF p, n
<1> DEFINE m1 == SetNext(mm, p, n)
<1>3. m1 \in Memory(C) /\ \A c \in C : m1[c].next = (IF c = p THEN n ELSE mm[c].next) /\ m1[c].prev = mm[c].prev
  BY <1>1, SetNextIs
<1>4. m1[x].next = n /\ m1[x].prev = p /\ ListDel(mm, x) = SetPrev(m1, m1[x].next, m1[x].prev)
  BY <1>1, <1>2, <1>3
<1> HIDE DEF m1
<1> DEFINE m2 == SetPrev(m1, n, p)
<1>5. m2 \in Memory(C) /\ \A c \in C : m2[c].prev = (IF c = n THEN p ELSE m1[c].prev) /\ m2[c].next = m1[c].next
  BY <1>1, <1>3, SetPrevIs
<1>6. m2 = ListDel(mm, x)
  BY <1>4
<1> HIDE DEF m2
<1>7. \A c \in C : /\ m2[c].next = IF c = p THEN n ELSE mm[c].next
                   /\ m2[c].prev = IF c = n THEN p ELSE mm[c].prev
  BY <1>3, <1>5
<1>8. QED
  BY <1>2, <1>5, <1>6, <1>7

\* list_del of a member does, its neighbours being found before and after alike.
LEMMA DelLinks ==
  ASSUME NEW C, NEW mm \in Memory(C), NEW S, NEW h, S \cup {h} \subseteq C, h \notin S,
         WellLinked(mm, S, h), NEW x \in S
  PROVE  /\ ListDel(mm, x) \in Memory(C)
         /\ WellLinked(ListDel(mm, x), S \ {x}, h)
<1> DEFINE p == mm[x].prev
           n == mm[x].next
<1>1. p \in S \cup {h} /\ n \in S \cup {h} /\ mm[p].next = x /\ mm[n].prev = x
  BY DEF WellLinked
<1>2. p = mm[x].prev /\ n = mm[x].next /\ x \in C
  OBVIOUS
<1> DEFINE m2 == ListDel(mm, x)
<1>3. /\ m2 \in Memory(C)
      /\ \A c \in C : /\ m2[c].next = IF c = p THEN n ELSE mm[c].next
                      /\ m2[c].prev = IF c = n THEN p ELSE mm[c].prev
  BY <1>2, DelIs
<1>4. m2 = ListDel(mm, x)
  OBVIOUS
<1> HIDE DEF p, n, m2
<1>5. p \in C /\ n \in C
  BY <1>1
<1>6. \A c \in C : /\ m2[c].next = IF c = p THEN n ELSE mm[c].next
                   /\ m2[c].prev = IF c = n THEN p ELSE mm[c].prev
  BY <1>3
<1>7. \A c \in S \cup {h} : (mm[c].next = x <=> c = p) /\ (mm[c].prev = x <=> c = n)
  BY <1>1, <1>2 DEF WellLinked
<1>8. ASSUME NEW c \in (S \ {x}) \cup {h}
      PROVE  /\ m2[c].next \in (S \ {x}) \cup {h} /\ m2[m2[c].next].prev = c
             /\ m2[c].prev \in (S \ {x}) \cup {h} /\ m2[m2[c].prev].next = c
  <2>1. c \in C /\ c # x /\ x \in C
    OBVIOUS
  <2>2. mm[c].next \in S \cup {h} /\ mm[mm[c].next].prev = c /\ mm[c].prev \in S \cup {h} /\ mm[mm[c].prev].next = c
    BY DEF WellLinked
  <2>3. mm[x].next = n /\ mm[x].prev = p
    BY <1>2
  <2>4. p = x <=> n = x
    BY <1>1, <1>7, <2>3
  <2>5. m2[c].next \in (S \ {x}) \cup {h} /\ m2[m2[c].next].prev = c
    BY <1>1, <1>6, <1>7, <2>1, <2>2, <2>3, <2>4
  <2>6. m2[c].prev \in (S \ {x}) \cup {h} /\ m2[m2[c].prev].next = c
    BY <1>1, <1>6, <1>7, <2>1, <2>2, <2>3, <2>4
  <2> QED BY <2>5, <2>6
<1>9. WellLinked(m2, S \ {x}, h)
  BY <1>8 DEF WellLinked
<1>10. QED
  BY <1>3, <1>4, <1>9

\* list_replace: the new node takes both neighbours over.  A node that is its
\* own neighbour leaves the new one its own neighbour.
LEMMA ReplaceIs ==
  ASSUME NEW C, NEW mm \in Memory(C), NEW o \in C, NEW w \in C, w # o,
         NEW p, NEW n, NEW q
  PROVE  /\ p = mm[o].prev
         /\ n = mm[o].next
         /\ q = IF n = o THEN w ELSE p
         => /\ ListReplace(mm, o, w) \in Memory(C)
            /\ \A c \in C :
                 /\ ListReplace(mm, o, w)[c].next =
                      IF c = q THEN w ELSE IF c = w THEN n ELSE mm[c].next
                 /\ ListReplace(mm, o, w)[c].prev =
                      IF c = w THEN q ELSE IF c = n THEN w ELSE mm[c].prev
<1>2. SUFFICES ASSUME p = mm[o].prev, n = mm[o].next, q = IF n = o THEN w ELSE p
      PROVE  /\ ListReplace(mm, o, w) \in Memory(C)
             /\ \A c \in C :
                  /\ ListReplace(mm, o, w)[c].next =
                       IF c = q THEN w ELSE IF c = w THEN n ELSE mm[c].next
                  /\ ListReplace(mm, o, w)[c].prev =
                       IF c = w THEN q ELSE IF c = n THEN w ELSE mm[c].prev
  OBVIOUS
<1>3. p \in C /\ n \in C /\ o \in C /\ w \in C /\ q \in C /\ w # o
  BY <1>2 DEF Memory
<1> DEFINE m1 == SetNext(mm, w, n)
<1>4. m1 \in Memory(C) /\ \A c \in C : m1[c].next = (IF c = w THEN n ELSE mm[c].next) /\ m1[c].prev = mm[c].prev
  BY <1>3, SetNextIs
<1>5. m1 = SetNext(mm, w, mm[o].next)
  BY <1>2
<1> HIDE DEF m1
<1> DEFINE m2 == SetPrev(m1, n, w)
<1>6. m2 \in Memory(C) /\ \A c \in C : m2[c].prev = (IF c = n THEN w ELSE m1[c].prev) /\ m2[c].next = m1[c].next
  BY <1>3, <1>4, SetPrevIs
<1>7. m2 = SetPrev(m1, m1[w].next, w)
  BY <1>3, <1>4
<1>8. m2[o].prev = q
  BY <1>2, <1>3, <1>4, <1>6
<1> HIDE DEF m2
<1> DEFINE m3 == SetPrev(m2, w, q)
<1>9. m3 \in Memory(C) /\ \A c \in C : m3[c].prev = (IF c = w THEN q ELSE m2[c].prev) /\ m3[c].next = m2[c].next
  BY <1>3, <1>6, SetPrevIs
<1>10. m3 = SetPrev(m2, w, m2[o].prev) /\ m3[w].prev = q
  BY <1>3, <1>8, <1>9
<1> HIDE DEF m3
<1> DEFINE m4 == SetNext(m3, q, w)
<1>11. m4 \in Memory(C) /\ \A c \in C : m4[c].next = (IF c = q THEN w ELSE m3[c].next) /\ m4[c].prev = m3[c].prev
  BY <1>3, <1>9, SetNextIs
<1>12. m4 = SetNext(m3, m3[w].prev, w)
  BY <1>10
<1> HIDE DEF m4
<1>13. m4 = ListReplace(mm, o, w)
  BY <1>5, <1>7, <1>10, <1>12 DEF ListReplace
<1>14. \A c \in C : /\ m4[c].next = IF c = q THEN w ELSE IF c = w THEN n ELSE mm[c].next
                    /\ m4[c].prev = IF c = w THEN q ELSE IF c = n THEN w ELSE mm[c].prev
  BY <1>4, <1>6, <1>9, <1>11
<1> QED BY <1>11, <1>13, <1>14

(***************************************************************************)
(* list_replace puts a node that is in no list in the place of a member.   *)
(* A member that is its own neighbour cannot occur in a list that can be   *)
(* reached from the head, but the chains alone do not exclude it, and the  *)
(* function then leaves the new node its own neighbour.                    *)
(***************************************************************************)
LEMMA ReplaceLinks ==
  ASSUME NEW C, NEW mm \in Memory(C), NEW S, NEW h, S \cup {h} \subseteq C, h \notin S,
         WellLinked(mm, S, h), NEW o \in S, NEW w \in C, w \notin S \cup {h}
  PROVE  /\ ListReplace(mm, o, w) \in Memory(C)
         /\ WellLinked(ListReplace(mm, o, w), (S \ {o}) \cup {w}, h)
<1> DEFINE p == mm[o].prev
           n == mm[o].next
           q == IF n = o THEN w ELSE p
<1>1. p \in S \cup {h} /\ n \in S \cup {h} /\ mm[p].next = o /\ mm[n].prev = o
  BY DEF WellLinked
<1>2. p = mm[o].prev /\ n = mm[o].next /\ q = (IF n = o THEN w ELSE p)
  OBVIOUS
<1> HIDE DEF p, n, q
<1>3. p \in C /\ n \in C /\ o \in C /\ w \in C /\ q \in C /\ w # o
  BY <1>1, <1>2
<1> DEFINE m4 == ListReplace(mm, o, w)
<1>14. /\ m4 \in Memory(C)
       /\ \A c \in C : /\ m4[c].next = IF c = q THEN w ELSE IF c = w THEN n ELSE mm[c].next
                       /\ m4[c].prev = IF c = w THEN q ELSE IF c = n THEN w ELSE mm[c].prev
  BY <1>2, <1>3, ReplaceIs
<1>13. m4 = ListReplace(mm, o, w)
  OBVIOUS
<1> HIDE DEF m4
<1>15. \A c \in S \cup {h} : (mm[c].next = o <=> c = p) /\ (mm[c].prev = o <=> c = n)
  BY <1>1, <1>2 DEF WellLinked
<1>16. p = o <=> n = o
  BY <1>1, <1>2
<1>17. ASSUME NEW c \in ((S \ {o}) \cup {w}) \cup {h}
       PROVE  /\ m4[c].next \in ((S \ {o}) \cup {w}) \cup {h} /\ m4[m4[c].next].prev = c
              /\ m4[c].prev \in ((S \ {o}) \cup {w}) \cup {h} /\ m4[m4[c].prev].next = c
  <2>1. CASE c = w
    BY <2>1, <1>1, <1>2, <1>3, <1>14, <1>15, <1>16
  <2>2. CASE c # w
    <3>1. c \in S \cup {h} /\ c \in C /\ c # o
      BY <2>2
    <3>2. mm[c].next \in S \cup {h} /\ mm[mm[c].next].prev = c /\ mm[c].prev \in S \cup {h} /\ mm[mm[c].prev].next = c
      BY <3>1 DEF WellLinked
    <3>3. m4[c].next \in ((S \ {o}) \cup {w}) \cup {h} /\ m4[m4[c].next].prev = c
      BY <2>2, <3>1, <3>2, <1>1, <1>2, <1>3, <1>14, <1>15, <1>16
    <3>4. m4[c].prev \in ((S \ {o}) \cup {w}) \cup {h} /\ m4[m4[c].prev].next = c
      BY <2>2, <3>1, <3>2, <1>1, <1>2, <1>3, <1>14, <1>15, <1>16
    <3> QED BY <3>3, <3>4
  <2> QED BY <2>1, <2>2
<1>18. WellLinked(m4, (S \ {o}) \cup {w}, h)
  BY <1>17 DEF WellLinked
<1> QED BY <1>13, <1>14, <1>18

-----------------------------------------------------------------------------
(***************************************************************************)
(* The order of the list.                                                  *)
(***************************************************************************)

\* The nodes in order, the head before the first and after the last.
At(s, i) == IF i \in 1 .. Len(s) THEN s[i] ELSE ListHead

\* In memory mm the list of the nodes mem is s: following next from the head
\* meets the nodes of s in order, each once, and then the head.
Chain(mm, mem, s) ==
  /\ s \in Seq(Nodes)
  /\ \A i, j \in 1 .. Len(s) : s[i] = s[j] => i = j
  /\ \A i \in 0 .. Len(s) : mm[At(s, i)].next = At(s, i + 1)
  /\ mem = {s[i] : i \in 1 .. Len(s)}

\* What the walk has seen after n steps.
Upto(s, n) == SubSeq(s, 1, IF n <= Len(s) THEN n ELSE Len(s))

LEMMA UptoIs ==
  ASSUME NEW s \in Seq(Nodes), NEW n \in Nat
  PROVE  /\ Upto(s, n) \in Seq(Nodes)
         /\ Len(Upto(s, n)) = IF n <= Len(s) THEN n ELSE Len(s)
         /\ \A i \in 1 .. Len(Upto(s, n)) : Upto(s, n)[i] = s[i]
<1>1. Len(s) \in Nat /\ \A i \in 1 .. Len(s) : s[i] \in Nodes
  BY LenProperties, ElementOfSeq
<1>2. PICK k \in Nat : k = IF n <= Len(s) THEN n ELSE Len(s)
  BY <1>1
<1>3. Upto(s, n) = SubSeq(s, 1, k)
  BY <1>2 DEF Upto
<1>4. \A i \in 1 .. k : s[i] \in Nodes
  BY <1>1, <1>2
<1>5. /\ SubSeq(s, 1, k) \in Seq(Nodes)
      /\ Len(SubSeq(s, 1, k)) = k
      /\ \A i \in 1 .. k : SubSeq(s, 1, k)[i] = s[i]
  <2>1. /\ SubSeq(s, 1, k) \in Seq(Nodes)
        /\ Len(SubSeq(s, 1, k)) = IF 1 <= k THEN k - 1 + 1 ELSE 0
        /\ \A i \in 1 .. k - 1 + 1 : SubSeq(s, 1, k)[i] = s[1 + i - 1]
    BY <1>4, SubSeqProperties
  <2> QED BY <2>1
<1> QED BY <1>2, <1>3, <1>5

\* One step of the walk.
LEMMA UptoStep ==
  ASSUME NEW mm, NEW mem, NEW s, Chain(mm, mem, s), NEW n \in Nat, n # 0,
         NEW before, before = Upto(s, n - 1),
         NEW at, at = mm[IF before = <<>> THEN ListHead ELSE before[Len(before)]].next
  PROVE  Upto(s, n) = IF Len(before) < n - 1 \/ at = ListHead THEN before
                      ELSE Append(before, at)
<1>1. s \in Seq(Nodes) /\ Len(s) \in Nat /\ \A i \in 1 .. Len(s) : s[i] \in Nodes
  BY LenProperties, ElementOfSeq DEF Chain
<1>2. PICK p \in Nat : p = n - 1
  OBVIOUS
<1>3. /\ before \in Seq(Nodes)
      /\ Len(before) = IF p <= Len(s) THEN p ELSE Len(s)
      /\ \A i \in 1 .. Len(before) : before[i] = s[i]
  BY <1>1, <1>2, UptoIs
<1>4. /\ Upto(s, n) \in Seq(Nodes)
      /\ Len(Upto(s, n)) = IF n <= Len(s) THEN n ELSE Len(s)
      /\ \A i \in 1 .. Len(Upto(s, n)) : Upto(s, n)[i] = s[i]
  BY <1>1, UptoIs
<1>5. before = <<>> <=> Len(before) = 0
  BY <1>3, EmptySeq
<1>6. (IF before = <<>> THEN ListHead ELSE before[Len(before)]) = At(s, Len(before))
  BY <1>1, <1>3, <1>5 DEF At
<1>7. at = At(s, Len(before) + 1)
  BY <1>1, <1>3, <1>6 DEF Chain
<1>8. CASE p < Len(s)
  <2>1. Len(before) = p /\ at = s[n] /\ at \in Nodes /\ at # ListHead
    BY <1>1, <1>2, <1>3, <1>7, <1>8, HeadAssumption DEF At
  <2>2. /\ Append(before, at) \in Seq(Nodes)
        /\ Len(Append(before, at)) = p + 1
        /\ \A i \in 1 .. p : Append(before, at)[i] = before[i]
        /\ Append(before, at)[p + 1] = at
    BY <1>3, <2>1, AppendProperties
  <2>3. Len(Upto(s, n)) = n /\ p + 1 = n
    BY <1>1, <1>2, <1>4, <1>8
  <2>4. \A i \in 1 .. n : Upto(s, n)[i] = Append(before, at)[i]
    BY <1>2, <1>3, <1>4, <2>1, <2>2, <2>3
  <2>5. Upto(s, n) = Append(before, at)
    BY <1>4, <2>2, <2>3, <2>4, SeqEqual
  <2> QED BY <1>2, <2>1, <2>5
<1>9. CASE p >= Len(s)
  <2>1. Len(before) = Len(s) /\ Len(Upto(s, n)) = Len(s)
    BY <1>1, <1>2, <1>3, <1>4, <1>9
  <2>2. at = ListHead
    BY <1>1, <1>7, <2>1 DEF At
  <2>3. Upto(s, n) = before
    BY <1>3, <1>4, <2>1, SeqEqual
  <2> QED BY <2>2, <2>3
<1> QED BY <1>1, <1>2, <1>8, <1>9

\* The equation of the recursive function of NodesFrom.
IsWalk(f, mm, limit) ==
  f = [n \in 0 .. limit |->
        IF n = 0 THEN <<>>
        ELSE LET before == f[n - 1]
                 at == mm[IF before = <<>> THEN ListHead ELSE before[Len(before)]].next
             IN  IF Len(before) < n - 1 \/ at = ListHead THEN before ELSE Append(before, at)]

LEMMA WalkExists ==
  ASSUME NEW mm, NEW mem, NEW s, Chain(mm, mem, s), NEW limit \in Nat
  PROVE  \E f : IsWalk(f, mm, limit)
<1> DEFINE f == [n \in 0 .. limit |-> Upto(s, n)]
<1>1. Upto(s, 0) = <<>>
  <2>1. s \in Seq(Nodes) /\ Len(s) \in Nat
    BY LenProperties DEF Chain
  <2>2. Len(Upto(s, 0)) = 0 /\ Upto(s, 0) \in Seq(Nodes)
    BY <2>1, UptoIs
  <2> QED BY <2>2, EmptySeq
<1>2. ASSUME NEW n \in 0 .. limit
      PROVE  Upto(s, n) =
        IF n = 0 THEN <<>>
        ELSE LET before == f[n - 1]
                 at == mm[IF before = <<>> THEN ListHead ELSE before[Len(before)]].next
             IN  IF Len(before) < n - 1 \/ at = ListHead THEN before ELSE Append(before, at)
  <2>1. CASE n = 0
    BY <1>1, <2>1
  <2>2. CASE n # 0
    <3>1. n \in Nat /\ f[n - 1] = Upto(s, n - 1)
      BY <2>2
    <3> HIDE DEF f
    <3>2. QED BY <2>2, <3>1, UptoStep
  <2> QED BY <2>1, <2>2
<1>3. IsWalk(f, mm, limit)
  BY <1>2 DEF IsWalk
<1> QED BY <1>3

LEMMA WalkIs ==
  ASSUME NEW mm, NEW mem, NEW s, Chain(mm, mem, s), NEW limit \in Nat,
         NEW f, IsWalk(f, mm, limit)
  PROVE  \A n \in 0 .. limit : f[n] = Upto(s, n)
<1> DEFINE Bad == {n \in 0 .. limit : f[n] # Upto(s, n)}
<1>1. Upto(s, 0) = <<>>
  <2>1. s \in Seq(Nodes) /\ Len(s) \in Nat
    BY LenProperties DEF Chain
  <2>2. Len(Upto(s, 0)) = 0 /\ Upto(s, 0) \in Seq(Nodes)
    BY <2>1, UptoIs
  <2> QED BY <2>2, EmptySeq
<1>2. ASSUME NEW n \in 0 .. limit, n # 0, f[n - 1] = Upto(s, n - 1)
      PROVE  f[n] = Upto(s, n)
  <2> DEFINE before == f[n - 1]
             at == mm[IF before = <<>> THEN ListHead ELSE before[Len(before)]].next
  <2>1. f[n] = IF Len(before) < n - 1 \/ at = ListHead THEN before ELSE Append(before, at)
    BY <1>2 DEF IsWalk
  <2>2. /\ before = Upto(s, n - 1) /\ n \in Nat
        /\ at = mm[IF before = <<>> THEN ListHead ELSE before[Len(before)]].next
    BY <1>2
  <2> HIDE DEF before, at
  <2> QED BY <1>2, <2>1, <2>2, UptoStep
<1>3. f[0] = <<>>
  BY DEF IsWalk
<1>4. SUFFICES ASSUME Bad # {} PROVE FALSE
  OBVIOUS
<1>5. Bad \in SUBSET Nat
  OBVIOUS
<1>6. PICK a \in Bad : \A b \in Bad : a <= b
  <2> HIDE DEF Bad
  <2> QED BY <1>4, <1>5, LeastIn
<1>7. a \in Nat /\ a \in 0 .. limit /\ f[a] # Upto(s, a) /\ a # 0
  BY <1>1, <1>3
<1>8. a - 1 \in 0 .. limit /\ a - 1 \notin Bad
  <2>1. a - 1 \in 0 .. limit /\ ~ (a <= a - 1)
    BY <1>7
  <2> HIDE DEF Bad
  <2> QED BY <1>6, <2>1
<1>9. f[a - 1] = Upto(s, a - 1)
  BY <1>8
<1> QED BY <1>2, <1>7, <1>9

\* A loop over the list visits its nodes in order, if it goes on long enough.
LEMMA VisitsList ==
  ASSUME NEW mm, NEW mem, NEW s, Chain(mm, mem, s), NEW limit \in Nat, Len(s) <= limit
  PROVE  NodesFrom(mm, ListHead, limit) = s
<1> DEFINE f == CHOOSE g : IsWalk(g, mm, limit)
<1>1. IsWalk(f, mm, limit)
  BY WalkExists
<1>2. NodesFrom(mm, ListHead, limit) = f[limit]
  BY DEF NodesFrom, IsWalk
<1> HIDE DEF f
<1>3. f[limit] = Upto(s, limit)
  BY <1>1, WalkIs
<1>4. Upto(s, limit) = s
  <2>1. s \in Seq(Nodes) /\ Len(s) \in Nat
    BY LenProperties DEF Chain
  <2>2. Upto(s, limit) = SubSeq(s, 1, Len(s))
    BY <2>1 DEF Upto
  <2> QED BY <2>1, <2>2, SubSeqFull
<1> QED BY <1>2, <1>3, <1>4

\* No list is longer than there are nodes.
LEMMA Short ==
  ASSUME NEW s \in Seq(Nodes), \A i, j \in 1 .. Len(s) : s[i] = s[j] => i = j
  PROVE  Len(s) <= Cardinality(Nodes) /\ Cardinality(Nodes) \in Nat
<1>1. Len(s) \in Nat /\ s \in [1 .. Len(s) -> Nodes]
  BY LenProperties
<1>2. s \in Injection(1 .. Len(s), Nodes)
  BY <1>1 DEF Injection, IsInjective
<1>3. Cardinality(1 .. Len(s)) <= Cardinality(Nodes)
  BY <1>2, FiniteAssumption, FS_Injection
<1>4. Cardinality(1 .. Len(s)) = Len(s)
  <2>1. Cardinality(1 .. Len(s)) = IF 1 > Len(s) THEN 0 ELSE Len(s) - 1 + 1
    BY <1>1, FS_Interval
  <2> QED BY <1>1, <2>1
<1>5. Cardinality(Nodes) \in Nat
  BY FiniteAssumption, FS_CardinalityType
<1> QED BY <1>3, <1>4, <1>5

\* What Items is.
LEMMA ItemsAre ==
  ASSUME NEW mm, NEW mem, NEW s, Chain(mm, mem, s)
  PROVE  NodesFrom(mm, ListHead, Cardinality(Nodes)) = s
<1>1. s \in Seq(Nodes) /\ \A i, j \in 1 .. Len(s) : s[i] = s[j] => i = j
  BY DEF Chain
<1>2. Len(s) <= Cardinality(Nodes) /\ Cardinality(Nodes) \in Nat
  BY <1>1, Short
<1> QED BY <1>2, VisitsList

\* A list in memory: typed, linked both ways, its nodes in the order of s.
Image(mm, mem, s) ==
  /\ mm \in Memory(Cells) /\ mem \subseteq Nodes
  /\ WellLinked(mm, mem, ListHead)
  /\ Chain(mm, mem, s)

\* Places and neighbours.
LEMMA Neighbours ==
  ASSUME NEW mm, NEW mem, NEW s, Image(mm, mem, s)
  PROVE  /\ s \in Seq(Nodes) /\ Len(s) \in Nat
         /\ ListHead \in Cells /\ ListHead \notin Nodes /\ Nodes \subseteq Cells
         /\ \A i \in 1 .. Len(s) : s[i] \in Nodes /\ s[i] \in mem
         /\ \A x \in mem : \E i \in 1 .. Len(s) : s[i] = x
         /\ \A i, j \in 1 .. Len(s) : s[i] = s[j] => i = j
         /\ \A i \in 0 .. Len(s) : /\ At(s, i) \in mem \cup {ListHead}
                                   /\ mm[At(s, i)].next = At(s, i + 1)
                                   /\ mm[At(s, i + 1)].prev = At(s, i)
<1>1. s \in Seq(Nodes) /\ Len(s) \in Nat /\ \A i \in 1 .. Len(s) : s[i] \in Nodes
  BY LenProperties, ElementOfSeq DEF Image, Chain
<1>2. /\ \A i \in 1 .. Len(s) : s[i] \in mem
      /\ \A x \in mem : \E i \in 1 .. Len(s) : s[i] = x
      /\ \A i, j \in 1 .. Len(s) : s[i] = s[j] => i = j
  BY DEF Image, Chain
<1>3. ListHead \in Cells /\ ListHead \notin Nodes /\ Nodes \subseteq Cells
  BY HeadAssumption DEF Cells
<1>4. ASSUME NEW i \in 0 .. Len(s)
      PROVE  /\ At(s, i) \in mem \cup {ListHead}
             /\ mm[At(s, i)].next = At(s, i + 1)
             /\ mm[At(s, i + 1)].prev = At(s, i)
  <2>1. At(s, i) \in mem \cup {ListHead}
    BY <1>2 DEF At
  <2>2. mm[At(s, i)].next = At(s, i + 1)
    BY DEF Image, Chain
  <2>3. mm[mm[At(s, i)].next].prev = At(s, i)
    BY <2>1 DEF Image, WellLinked
  <2> QED BY <2>1, <2>2, <2>3
<1> QED BY <1>1, <1>2, <1>3, <1>4

\* list_add_tail appends.
LEMMA TailAppends ==
  ASSUME NEW mm, NEW mem, NEW s, Image(mm, mem, s), NEW x \in Nodes, x \notin mem
  PROVE  Image(ListAddTail(mm, x, ListHead), mem \cup {x}, Append(s, x))
<1>1. /\ s \in Seq(Nodes) /\ Len(s) \in Nat
      /\ ListHead \in Cells /\ ListHead \notin Nodes /\ Nodes \subseteq Cells
      /\ \A i \in 1 .. Len(s) : s[i] \in Nodes /\ s[i] \in mem
      /\ \A y \in mem : \E i \in 1 .. Len(s) : s[i] = y
      /\ \A i, j \in 1 .. Len(s) : s[i] = s[j] => i = j
  BY Neighbours
<1>2. \A i \in 0 .. Len(s) : /\ At(s, i) \in mem \cup {ListHead}
                             /\ mm[At(s, i)].next = At(s, i + 1)
                             /\ mm[At(s, i + 1)].prev = At(s, i)
  BY Neighbours
<1>3. /\ mm \in Memory(Cells) /\ mem \subseteq Nodes /\ WellLinked(mm, mem, ListHead)
      /\ mem \cup {ListHead} \subseteq Cells /\ x \in Cells /\ x \notin mem \cup {ListHead}
  BY <1>1 DEF Image
<1>4. PICK p : p = At(s, Len(s))
  OBVIOUS
<1>5. p \in mem \cup {ListHead} /\ p \in Cells /\ mm[p].next = ListHead /\ mm[ListHead].prev = p
  BY <1>1, <1>2, <1>3, <1>4 DEF At
<1> DEFINE m2 == ListInsert(mm, x, p, ListHead)
<1>7. ListAddTail(mm, x, ListHead) = m2
  BY <1>5 DEF ListAddTail
<1>8. m2 \in Memory(Cells) /\ WellLinked(m2, mem \cup {x}, ListHead)
  <2>1. p \in mem \cup {ListHead} /\ ListHead \in mem \cup {ListHead} /\ mm[p].next = ListHead
    BY <1>5
  <2> QED BY <1>3, <2>1, InsertLinks
<1>9. \A c \in Cells : m2[c].next = IF c = p THEN x ELSE IF c = x THEN ListHead ELSE mm[c].next
  BY <1>1, <1>3, <1>5, InsertIs
<1> HIDE DEF m2
<1>10. PICK t : t = Append(s, x)
  OBVIOUS
<1>11. /\ t \in Seq(Nodes) /\ Len(t) = Len(s) + 1
       /\ \A i \in 1 .. Len(s) : t[i] = s[i]
       /\ t[Len(s) + 1] = x
  BY <1>1, <1>10, AppendProperties
<1>12. \A i, j \in 1 .. Len(t) : t[i] = t[j] => i = j
  <2>1. \A i \in 1 .. Len(t) : i \in 1 .. Len(s) \/ i = Len(s) + 1
    BY <1>1, <1>11
  <2> QED BY <1>1, <1>3, <1>11, <2>1
<1>13. /\ \A i \in 0 .. Len(s) : At(t, i) = At(s, i)
       /\ At(t, Len(s) + 1) = x /\ At(t, Len(s) + 2) = ListHead
  BY <1>1, <1>11 DEF At
<1>14. ASSUME NEW i \in 0 .. Len(t)
       PROVE  m2[At(t, i)].next = At(t, i + 1)
  <2>1. CASE i = Len(s) + 1
    <3>1. At(t, i) = x /\ At(t, i + 1) = ListHead
      BY <1>13, <2>1, <1>1
    <3> QED BY <1>3, <1>5, <1>9, <3>1
  <2>2. CASE i = Len(s)
    <3>1. At(t, i) = p /\ At(t, i + 1) = x
      BY <1>13, <2>2, <1>1, <1>4
    <3> QED BY <1>5, <1>9, <3>1
  <2>3. CASE i < Len(s)
    <3>1. i \in 0 .. Len(s) /\ i + 1 \in 0 .. Len(s) /\ i + 1 \in 1 .. Len(s)
      BY <1>1, <1>11, <2>3
    <3>2. At(t, i) = At(s, i) /\ At(t, i + 1) = At(s, i + 1)
      BY <1>13, <3>1
    <3>3. mm[At(s, i)].next = At(s, i + 1) /\ At(s, i) \in Cells /\ At(s, i) # x
      BY <1>2, <1>3, <3>1
    <3>4. At(s, i + 1) \in Nodes
      BY <1>1, <3>1 DEF At
    <3>5. At(s, i) # p
      BY <1>1, <1>5, <3>3, <3>4
    <3> QED BY <1>9, <3>2, <3>3, <3>5
  <2> QED BY <1>1, <1>11, <2>1, <2>2, <2>3
<1>15. mem \cup {x} = {t[i] : i \in 1 .. Len(t)}
  <2>1. \A i \in 1 .. Len(t) : i \in 1 .. Len(s) \/ i = Len(s) + 1
    BY <1>1, <1>11
  <2>2. \A i \in 1 .. Len(t) : t[i] \in mem \cup {x}
    BY <1>1, <1>11, <2>1
  <2>3. Len(s) + 1 \in 1 .. Len(t) /\ \A i \in 1 .. Len(s) : i \in 1 .. Len(t)
    BY <1>1, <1>11
  <2>4. \A y \in mem \cup {x} : \E i \in 1 .. Len(t) : t[i] = y
    BY <1>1, <1>11, <2>3
  <2> QED BY <2>2, <2>4
<1>16. Chain(m2, mem \cup {x}, t)
  BY <1>11, <1>12, <1>14, <1>15 DEF Chain
<1>17. mem \cup {x} \subseteq Nodes
  BY <1>3
<1> QED BY <1>7, <1>8, <1>10, <1>16, <1>17 DEF Image

\* list_add puts in front.
LEMMA FrontPrepends ==
  ASSUME NEW mm, NEW mem, NEW s, Image(mm, mem, s), NEW x \in Nodes, x \notin mem
  PROVE  Image(ListAdd(mm, x, ListHead), mem \cup {x}, <<x>> \o s)
<1>1. /\ s \in Seq(Nodes) /\ Len(s) \in Nat
      /\ ListHead \in Cells /\ ListHead \notin Nodes /\ Nodes \subseteq Cells
      /\ \A i \in 1 .. Len(s) : s[i] \in Nodes /\ s[i] \in mem
      /\ \A y \in mem : \E i \in 1 .. Len(s) : s[i] = y
      /\ \A i, j \in 1 .. Len(s) : s[i] = s[j] => i = j
  BY Neighbours
<1>2. \A i \in 0 .. Len(s) : /\ At(s, i) \in mem \cup {ListHead}
                             /\ mm[At(s, i)].next = At(s, i + 1)
                             /\ mm[At(s, i + 1)].prev = At(s, i)
  BY Neighbours
<1>3. /\ mm \in Memory(Cells) /\ mem \subseteq Nodes /\ WellLinked(mm, mem, ListHead)
      /\ mem \cup {ListHead} \subseteq Cells /\ x \in Cells /\ x \notin mem \cup {ListHead}
  BY <1>1 DEF Image
<1>4. PICK n : n = mm[ListHead].next
  OBVIOUS
<1>5. n \in mem \cup {ListHead} /\ n \in Cells /\ At(s, 0) = ListHead /\ At(s, 1) = n
  <2>1. n \in mem \cup {ListHead}
    BY <1>3, <1>4 DEF WellLinked
  <2>2. At(s, 0) = ListHead
    BY DEF At
  <2>3. At(s, 1) = n
    BY <1>1, <1>2, <1>4, <2>2
  <2> QED BY <1>3, <2>1, <2>2, <2>3
<1> DEFINE m2 == ListInsert(mm, x, ListHead, n)
<1>7. ListAdd(mm, x, ListHead) = m2
  BY <1>4 DEF ListAdd
<1>8. m2 \in Memory(Cells) /\ WellLinked(m2, mem \cup {x}, ListHead)
  <2>1. ListHead \in mem \cup {ListHead} /\ n \in mem \cup {ListHead} /\ mm[ListHead].next = n
    BY <1>4, <1>5
  <2> QED BY <1>3, <2>1, InsertLinks
<1>9. \A c \in Cells : m2[c].next = IF c = ListHead THEN x ELSE IF c = x THEN n ELSE mm[c].next
  BY <1>1, <1>3, <1>5, InsertIs
<1> HIDE DEF m2
<1>10. PICK t : t = <<x>> \o s
  OBVIOUS
<1>11. /\ t \in Seq(Nodes) /\ Len(t) = Len(s) + 1 /\ t[1] = x
       /\ \A i \in 1 .. Len(s) : t[i + 1] = s[i]
  <2>1. <<x>> \in Seq(Nodes) /\ Len(<<x>>) = 1 /\ <<x>>[1] = x
    OBVIOUS
  <2>2. PICK u : u = <<x>>
    OBVIOUS
  <2>3. /\ u \o s \in Seq(Nodes)
        /\ Len(u \o s) = Len(u) + Len(s)
        /\ \A i \in 1 .. Len(u) + Len(s) : (u \o s)[i] = IF i <= Len(u) THEN u[i] ELSE s[i - Len(u)]
    BY <1>1, <2>1, <2>2, ConcatProperties
  <2>4. t = u \o s /\ Len(u) = 1 /\ u[1] = x
    BY <1>10, <2>1, <2>2
  <2>5. \A i \in 1 .. 1 + Len(s) : t[i] = IF i <= 1 THEN u[i] ELSE s[i - 1]
    BY <2>3, <2>4
  <2>6. ASSUME NEW i \in 1 .. Len(s)
        PROVE  t[i + 1] = s[i]
    <3>1. i + 1 \in 1 .. 1 + Len(s) /\ ~ (i + 1 <= 1) /\ (i + 1) - 1 = i
      BY <1>1
    <3> QED BY <2>5, <3>1
  <2>7. t \in Seq(Nodes) /\ Len(t) = Len(s) + 1
    BY <1>1, <2>3, <2>4
  <2>8. t[1] = x
    BY <1>1, <2>4, <2>5
  <2> QED BY <2>6, <2>7, <2>8
<1>12. \A i \in 1 .. Len(t) : i = 1 \/ \E k \in 1 .. Len(s) : i = k + 1
  <2>1. \A i \in 1 .. Len(t) : i = 1 \/ (i - 1 \in 1 .. Len(s) /\ i = (i - 1) + 1)
    BY <1>1, <1>11
  <2> QED BY <2>1
<1>13. ASSUME NEW i \in 1 .. Len(t), NEW j \in 1 .. Len(t), t[i] = t[j]
       PROVE  i = j
  <2>1. \A k \in 1 .. Len(s) : t[k + 1] # x
    BY <1>1, <1>3, <1>11
  <2>2. CASE i = 1 \/ j = 1
    BY <1>11, <1>12, <1>13, <2>1, <2>2
  <2>3. CASE i # 1 /\ j # 1
    <3>1. PICK k \in 1 .. Len(s), l \in 1 .. Len(s) : i = k + 1 /\ j = l + 1
      BY <1>12, <2>3
    <3>2. s[k] = s[l]
      BY <1>11, <1>13, <3>1
    <3> QED BY <1>1, <3>1, <3>2
  <2> QED BY <2>2, <2>3
<1>14. /\ At(t, 0) = ListHead
       /\ \A i \in 0 .. Len(s) : At(t, i + 1) = IF i = 0 THEN x ELSE At(s, i)
       /\ At(t, Len(s) + 2) = ListHead /\ At(s, Len(s) + 1) = ListHead
  BY <1>1, <1>11 DEF At
<1>15. ASSUME NEW i \in 0 .. Len(t)
       PROVE  m2[At(t, i)].next = At(t, i + 1)
  <2>1. CASE i = 0
    <3>1. At(t, i) = ListHead /\ At(t, i + 1) = x
      BY <1>1, <1>14, <2>1
    <3> QED BY <1>1, <1>9, <3>1
  <2>2. CASE i # 0
    <3>1. PICK k \in 0 .. Len(s) : i = k + 1
      <4>1. i - 1 \in 0 .. Len(s) /\ i = (i - 1) + 1
        BY <1>1, <1>11, <2>2
      <4> QED BY <4>1
    <3>2. At(t, i) = IF k = 0 THEN x ELSE At(s, k)
      BY <1>14, <3>1
    <3>3. At(t, i + 1) = At(s, k + 1)
      <4>1. CASE k = Len(s)
        BY <1>1, <1>14, <3>1, <4>1
      <4>2. CASE k # Len(s)
        <5>1. k + 1 \in 0 .. Len(s) /\ k + 1 # 0 /\ i + 1 = (k + 1) + 1
          BY <1>1, <3>1, <4>2
        <5> QED BY <1>14, <5>1
      <4> QED BY <4>1, <4>2
    <3>4. CASE k = 0
      <4>1. At(t, i) = x /\ At(t, i + 1) = n
        BY <1>5, <3>2, <3>3, <3>4
      <4> QED BY <1>3, <1>9, <4>1
    <3>5. CASE k # 0
      <4>1. At(t, i) = At(s, k) /\ At(s, k) = s[k] /\ s[k] \in mem
        BY <1>1, <3>1, <3>2, <3>5 DEF At
      <4>2. mm[At(s, k)].next = At(s, k + 1)
        BY <1>2, <3>1
      <4> QED BY <1>1, <1>3, <1>9, <3>3, <4>1, <4>2
    <3> QED BY <3>4, <3>5
  <2> QED BY <2>1, <2>2
<1>16. mem \cup {x} = {t[i] : i \in 1 .. Len(t)}
  <2>1. \A i \in 1 .. Len(t) : t[i] \in mem \cup {x}
    BY <1>1, <1>11, <1>12
  <2>2. 1 \in 1 .. Len(t) /\ \A i \in 1 .. Len(s) : i + 1 \in 1 .. Len(t)
    BY <1>1, <1>11
  <2>3. \A y \in mem \cup {x} : \E i \in 1 .. Len(t) : t[i] = y
    BY <1>1, <1>11, <2>2
  <2> QED BY <2>1, <2>3
<1>17. Chain(m2, mem \cup {x}, t)
  BY <1>11, <1>13, <1>15, <1>16 DEF Chain
<1>18. mem \cup {x} \subseteq Nodes
  BY <1>3
<1> QED BY <1>7, <1>8, <1>10, <1>17, <1>18 DEF Image

\* The sequence without its k-th element.
Without(s, k) == SubSeq(s, 1, k - 1) \o SubSeq(s, k + 1, Len(s))

LEMMA WithoutIs ==
  ASSUME NEW s \in Seq(Nodes), NEW k \in 1 .. Len(s)
  PROVE  /\ Without(s, k) \in Seq(Nodes)
         /\ Len(Without(s, k)) = Len(s) - 1
         /\ \A i \in 1 .. Len(s) - 1 : Without(s, k)[i] = IF i < k THEN s[i] ELSE s[i + 1]
<1>1. Len(s) \in Nat /\ \A i \in 1 .. Len(s) : s[i] \in Nodes
  BY LenProperties, ElementOfSeq
<1>2. PICK a \in Nat : a = k - 1
  OBVIOUS
<1>3. PICK n \in Nat : n = Len(s)
  BY <1>1
<1>4. PICK u : u = SubSeq(s, 1, a)
  OBVIOUS
<1>5. PICK v : v = SubSeq(s, k + 1, n)
  OBVIOUS
<1>6. Without(s, k) = u \o v
  BY <1>2, <1>3, <1>4, <1>5 DEF Without
<1>7. u \in Seq(Nodes) /\ Len(u) = a /\ \A i \in 1 .. a : u[i] = s[i]
  <2>1. \A i \in 1 .. a : s[i] \in Nodes
    BY <1>1, <1>2
  <2>2. /\ u \in Seq(Nodes) /\ Len(u) = IF 1 <= a THEN a - 1 + 1 ELSE 0
        /\ \A i \in 1 .. a - 1 + 1 : u[i] = s[1 + i - 1]
    BY <1>4, <2>1, SubSeqProperties
  <2> QED BY <2>2
<1>8. v \in Seq(Nodes) /\ Len(v) = n - k /\ \A i \in 1 .. n - k : v[i] = s[k + i]
  <2>1. \A i \in k + 1 .. n : s[i] \in Nodes
    BY <1>1, <1>3
  <2>2. PICK b \in Nat : b = k + 1
    OBVIOUS
  <2>3. /\ v \in Seq(Nodes) /\ Len(v) = IF b <= n THEN n - b + 1 ELSE 0
        /\ \A i \in 1 .. n - b + 1 : v[i] = s[b + i - 1]
    BY <1>5, <2>1, <2>2, SubSeqProperties
  <2>4. Len(v) = n - k
    BY <1>3, <2>2, <2>3
  <2>5. ASSUME NEW i \in 1 .. n - k
        PROVE  v[i] = s[k + i]
    <3>1. i \in 1 .. n - b + 1 /\ b + i - 1 = k + i
      BY <2>2
    <3> QED BY <2>3, <3>1
  <2> QED BY <2>3, <2>4, <2>5
<1>9. /\ u \o v \in Seq(Nodes)
      /\ Len(u \o v) = Len(u) + Len(v)
      /\ \A i \in 1 .. Len(u) + Len(v) : (u \o v)[i] = IF i <= Len(u) THEN u[i] ELSE v[i - Len(u)]
  BY <1>7, <1>8, ConcatProperties
<1>10. Len(u) + Len(v) = Len(s) - 1
  BY <1>2, <1>3, <1>7, <1>8
<1>11. ASSUME NEW i \in 1 .. Len(s) - 1
       PROVE  (u \o v)[i] = IF i < k THEN s[i] ELSE s[i + 1]
  <2>1. CASE i < k
    <3>1. i \in 1 .. Len(u) + Len(v) /\ i <= Len(u) /\ i \in 1 .. a
      BY <1>2, <1>7, <1>10, <2>1
    <3> QED BY <1>7, <1>9, <2>1, <3>1
  <2>2. CASE ~ (i < k)
    <3>1. PICK j : j = i - a
      OBVIOUS
    <3>2. i \in 1 .. Len(u) + Len(v) /\ ~ (i <= Len(u)) /\ j \in 1 .. n - k /\ k + j = i + 1 /\ i - Len(u) = j
      BY <1>2, <1>3, <1>7, <1>10, <2>2, <3>1
    <3>3. (u \o v)[i] = v[j]
      BY <1>9, <3>2
    <3>4. v[j] = s[i + 1]
      BY <1>8, <3>2
    <3> QED BY <2>2, <3>3, <3>4
  <2> QED BY <2>1, <2>2
<1> QED BY <1>6, <1>9, <1>10, <1>11

\* list_del takes the node out of its place.
LEMMA DelTakesOut ==
  ASSUME NEW mm, NEW mem, NEW s, Image(mm, mem, s), NEW k \in 1 .. Len(s), NEW x, x = s[k]
  PROVE  Image(ListDel(mm, x), mem \ {x}, Without(s, k))
<1>1. /\ s \in Seq(Nodes) /\ Len(s) \in Nat
      /\ ListHead \in Cells /\ ListHead \notin Nodes /\ Nodes \subseteq Cells
      /\ \A i \in 1 .. Len(s) : s[i] \in Nodes /\ s[i] \in mem
      /\ \A y \in mem : \E i \in 1 .. Len(s) : s[i] = y
      /\ \A i, j \in 1 .. Len(s) : s[i] = s[j] => i = j
  BY Neighbours
<1>2. \A i \in 0 .. Len(s) : /\ At(s, i) \in mem \cup {ListHead}
                             /\ mm[At(s, i)].next = At(s, i + 1)
                             /\ mm[At(s, i + 1)].prev = At(s, i)
  BY Neighbours
<1>3. /\ mm \in Memory(Cells) /\ mem \subseteq Nodes /\ WellLinked(mm, mem, ListHead)
      /\ mem \cup {ListHead} \subseteq Cells /\ x \in mem /\ x \in Cells /\ ListHead \notin mem
  BY <1>1 DEF Image
<1>4. PICK a \in 0 .. Len(s) - 1 : a + 1 = k
  <2>1. k - 1 \in 0 .. Len(s) - 1 /\ (k - 1) + 1 = k
    BY <1>1
  <2> QED BY <2>1
<1>5. At(s, k) = x /\ mm[x].prev = At(s, a) /\ mm[x].next = At(s, k + 1)
  <2>1. At(s, k) = x
    BY DEF At
  <2>2. a \in 0 .. Len(s) /\ k \in 0 .. Len(s)
    BY <1>1, <1>4
  <2> QED BY <1>2, <1>4, <2>1, <2>2
<1> DEFINE m2 == ListDel(mm, x)
<1>6. m2 \in Memory(Cells) /\ WellLinked(m2, mem \ {x}, ListHead)
  BY <1>3, DelLinks
<1>7. \A c \in Cells : m2[c].next = IF c = At(s, a) THEN At(s, k + 1) ELSE mm[c].next
  BY <1>3, <1>5, DelIs
<1>8. m2 = ListDel(mm, x)
  OBVIOUS
<1> HIDE DEF m2
<1>9. PICK t : t = Without(s, k)
  OBVIOUS
<1>10. /\ t \in Seq(Nodes) /\ Len(t) = Len(s) - 1
       /\ \A i \in 1 .. Len(s) - 1 : t[i] = IF i < k THEN s[i] ELSE s[i + 1]
  BY <1>1, <1>9, WithoutIs
<1>11. ASSUME NEW i \in 1 .. Len(t), NEW j \in 1 .. Len(t), t[i] = t[j]
       PROVE  i = j
  <2>1. PICK b \in 1 .. Len(s) : b = IF i < k THEN i ELSE i + 1
    BY <1>1, <1>10
  <2>2. PICK c \in 1 .. Len(s) : c = IF j < k THEN j ELSE j + 1
    BY <1>1, <1>10
  <2>3. t[i] = s[b] /\ t[j] = s[c]
    BY <1>10, <2>1, <2>2
  <2>4. b = c
    BY <1>1, <1>11, <2>3
  <2> QED BY <1>1, <2>1, <2>2, <2>4
<1>12. ASSUME NEW i \in 0 .. Len(s)
       PROVE  At(t, i) = IF i < k THEN At(s, i) ELSE At(s, i + 1)
  <2>1. CASE i = 0
    BY <1>1, <1>10, <2>1 DEF At
  <2>2. CASE i \in 1 .. Len(s) - 1
    <3>1. At(t, i) = IF i < k THEN s[i] ELSE s[i + 1]
      BY <1>10, <2>2 DEF At
    <3>2. At(s, i) = s[i] /\ At(s, i + 1) = s[i + 1]
      BY <1>1, <2>2 DEF At
    <3> QED BY <3>1, <3>2
  <2>3. CASE i = Len(s)
    BY <1>1, <1>10, <2>3 DEF At
  <2> QED BY <1>1, <2>1, <2>2, <2>3
<1>13. \A i \in 0 .. Len(s) : At(s, i) \in Cells /\ (At(s, i) = At(s, a) => i = a)
  <2>1. \A i \in 0 .. Len(s) : At(s, i) \in Cells
    BY <1>2, <1>3
  <2>2. ASSUME NEW i \in 0 .. Len(s), At(s, i) = At(s, a)
        PROVE  i = a
    <3>1. a \in 0 .. Len(s)
      BY <1>1, <1>4
    <3>2. CASE i = 0 /\ a = 0
      BY <3>2
    <3>3. CASE i = 0 /\ a # 0
      BY <1>1, <2>2, <3>1, <3>3 DEF At
    <3>4. CASE i # 0 /\ a = 0
      BY <1>1, <2>2, <3>1, <3>4 DEF At
    <3>5. CASE i # 0 /\ a # 0
      <4>1. i \in 1 .. Len(s) /\ a \in 1 .. Len(s)
        BY <1>1, <3>1, <3>5
      <4> QED BY <1>1, <2>2, <4>1 DEF At
    <3> QED BY <3>2, <3>3, <3>4, <3>5
  <2> QED BY <2>1, <2>2
<1>14. ASSUME NEW i \in 0 .. Len(t)
       PROVE  m2[At(t, i)].next = At(t, i + 1)
  <2>0. i \in 0 .. Len(s) /\ i + 1 \in 0 .. Len(s) /\ a \in 0 .. Len(s)
    BY <1>1, <1>4, <1>10
  <2>1. CASE i = a
    <3>1. i < k /\ ~ (i + 1 < k) /\ i + 1 = k
      BY <1>4, <2>1
    <3>2. At(t, i) = At(s, a) /\ At(t, i + 1) = At(s, k + 1)
      BY <1>12, <2>0, <2>1, <3>1
    <3> QED BY <1>7, <1>13, <2>0, <3>2
  <2>2. CASE i < a
    <3>1. i < k /\ i + 1 < k
      BY <1>1, <1>4, <2>2
    <3>2. At(t, i) = At(s, i) /\ At(t, i + 1) = At(s, i + 1)
      BY <1>12, <2>0, <3>1
    <3>3. At(s, i) # At(s, a)
      BY <1>13, <2>0, <2>2
    <3> QED BY <1>2, <1>7, <1>13, <2>0, <3>2, <3>3
  <2>3. CASE i > a
    <3>1. ~ (i < k) /\ ~ (i + 1 < k) /\ i + 1 # a
      BY <1>1, <1>4, <2>3
    <3>2. At(t, i) = At(s, i + 1) /\ At(t, i + 1) = At(s, (i + 1) + 1)
      BY <1>12, <2>0, <3>1
    <3>3. At(s, i + 1) # At(s, a)
      BY <1>13, <2>0, <3>1
    <3> QED BY <1>2, <1>7, <1>13, <2>0, <3>2, <3>3
  <2> QED BY <1>4, <2>0, <2>1, <2>2, <2>3
<1>15. mem \ {x} = {t[i] : i \in 1 .. Len(t)}
  <2>1. ASSUME NEW i \in 1 .. Len(t)
        PROVE  t[i] \in mem \ {x}
    <3>1. PICK b \in 1 .. Len(s) : b = IF i < k THEN i ELSE i + 1
      BY <1>1, <1>10
    <3>2. t[i] = s[b] /\ b # k
      BY <1>10, <3>1
    <3> QED BY <1>1, <3>2
  <2>2. ASSUME NEW y \in mem \ {x}
        PROVE  \E i \in 1 .. Len(t) : t[i] = y
    <3>1. PICK b \in 1 .. Len(s) : s[b] = y
      BY <1>1
    <3>2. b # k
      BY <3>1
    <3>3. CASE b < k
      <4>1. b \in 1 .. Len(t) /\ t[b] = y
        BY <1>1, <1>10, <3>1, <3>3
      <4> QED BY <4>1
    <3>4. CASE b > k
      <4>1. PICK i : i = b - 1
        OBVIOUS
      <4>2. i \in 1 .. Len(t) /\ i \in 1 .. Len(s) - 1 /\ ~ (i < k) /\ i + 1 = b
        BY <1>1, <1>10, <3>4, <4>1
      <4>3. t[i] = y
        BY <1>10, <3>1, <4>2
      <4> QED BY <4>2, <4>3
    <3> QED BY <1>1, <3>2, <3>3, <3>4
  <2> QED BY <2>1, <2>2
<1>16. Chain(m2, mem \ {x}, t)
  BY <1>10, <1>11, <1>14, <1>15 DEF Chain
<1>17. mem \ {x} \subseteq Nodes
  BY <1>3
<1> QED BY <1>6, <1>8, <1>9, <1>16, <1>17 DEF Image

\* list_replace changes one element.
LEMMA ReplaceExchanges ==
  ASSUME NEW mm, NEW mem, NEW s, Image(mm, mem, s), NEW k \in 1 .. Len(s), NEW x, x = s[k],
         NEW y \in Nodes, y \notin mem
  PROVE  Image(ListReplace(mm, x, y), (mem \ {x}) \cup {y}, [s EXCEPT ![k] = y])
<1>1. /\ s \in Seq(Nodes) /\ Len(s) \in Nat
      /\ ListHead \in Cells /\ ListHead \notin Nodes /\ Nodes \subseteq Cells
      /\ \A i \in 1 .. Len(s) : s[i] \in Nodes /\ s[i] \in mem
      /\ \A z \in mem : \E i \in 1 .. Len(s) : s[i] = z
      /\ \A i, j \in 1 .. Len(s) : s[i] = s[j] => i = j
  BY Neighbours
<1>2. \A i \in 0 .. Len(s) : /\ At(s, i) \in mem \cup {ListHead}
                             /\ mm[At(s, i)].next = At(s, i + 1)
                             /\ mm[At(s, i + 1)].prev = At(s, i)
  BY Neighbours
<1>3. /\ mm \in Memory(Cells) /\ mem \subseteq Nodes /\ WellLinked(mm, mem, ListHead)
      /\ mem \cup {ListHead} \subseteq Cells /\ x \in mem /\ x \in Cells /\ ListHead \notin mem
      /\ y \in Cells /\ y \notin mem \cup {ListHead} /\ y # x
  BY <1>1 DEF Image
<1>4. PICK a \in 0 .. Len(s) - 1 : a + 1 = k
  <2>1. k - 1 \in 0 .. Len(s) - 1 /\ (k - 1) + 1 = k
    BY <1>1
  <2> QED BY <2>1
<1>5. At(s, k) = x /\ mm[x].prev = At(s, a) /\ mm[x].next = At(s, k + 1)
  <2>1. At(s, k) = x
    BY DEF At
  <2>2. a \in 0 .. Len(s) /\ k \in 0 .. Len(s)
    BY <1>1, <1>4
  <2> QED BY <1>2, <1>4, <2>1, <2>2
<1>6. At(s, k + 1) # x
  BY <1>1, <1>3 DEF At
<1> DEFINE m2 == ListReplace(mm, x, y)
<1>7. m2 \in Memory(Cells) /\ WellLinked(m2, (mem \ {x}) \cup {y}, ListHead)
  BY <1>3, ReplaceLinks
<1>8. \A c \in Cells : m2[c].next = IF c = At(s, a) THEN y ELSE IF c = y THEN At(s, k + 1) ELSE mm[c].next
  <2>1. PICK p : p = mm[x].prev
    OBVIOUS
  <2>2. PICK n : n = mm[x].next
    OBVIOUS
  <2>3. p = IF n = x THEN y ELSE p
    BY <1>5, <1>6, <2>2
  <2>4. \A c \in Cells : m2[c].next = IF c = p THEN y ELSE IF c = y THEN n ELSE mm[c].next
    BY <1>3, <2>1, <2>2, <2>3, ReplaceIs
  <2> QED BY <1>5, <2>1, <2>2, <2>4
<1>9. m2 = ListReplace(mm, x, y)
  OBVIOUS
<1> HIDE DEF m2
<1>10. PICK t : t = [s EXCEPT ![k] = y]
  OBVIOUS
<1>11. /\ t \in Seq(Nodes) /\ Len(t) = Len(s)
       /\ \A i \in 1 .. Len(s) : t[i] = IF i = k THEN y ELSE s[i]
  BY <1>1, <1>10, ExceptSeq
<1>12. \A i, j \in 1 .. Len(t) : t[i] = t[j] => i = j
  BY <1>1, <1>3, <1>11
<1>13. \A i \in 0 .. Len(s) + 1 : At(t, i) = IF i = k THEN y ELSE At(s, i)
  BY <1>1, <1>11 DEF At
<1>14. \A i \in 0 .. Len(s) : At(s, i) \in Cells /\ At(s, i) # y /\ (At(s, i) = At(s, a) => i = a)
  <2>1. \A i \in 0 .. Len(s) : At(s, i) \in Cells /\ At(s, i) # y
    BY <1>2, <1>3
  <2>2. ASSUME NEW i \in 0 .. Len(s), At(s, i) = At(s, a)
        PROVE  i = a
    <3>1. a \in 0 .. Len(s)
      BY <1>1, <1>4
    <3>2. CASE i = 0 /\ a = 0
      BY <3>2
    <3>3. CASE i = 0 /\ a # 0
      BY <1>1, <2>2, <3>1, <3>3 DEF At
    <3>4. CASE i # 0 /\ a = 0
      BY <1>1, <2>2, <3>1, <3>4 DEF At
    <3>5. CASE i # 0 /\ a # 0
      <4>1. i \in 1 .. Len(s) /\ a \in 1 .. Len(s)
        BY <1>1, <3>1, <3>5
      <4> QED BY <1>1, <2>2, <4>1 DEF At
    <3> QED BY <3>2, <3>3, <3>4, <3>5
  <2> QED BY <2>1, <2>2
<1>15. ASSUME NEW i \in 0 .. Len(t)
       PROVE  m2[At(t, i)].next = At(t, i + 1)
  <2>0. i \in 0 .. Len(s) /\ i \in 0 .. Len(s) + 1 /\ i + 1 \in 0 .. Len(s) + 1 /\ a \in 0 .. Len(s)
    BY <1>1, <1>4, <1>11
  <2>1. CASE i = a
    <3>1. i # k /\ i + 1 = k
      BY <1>4, <2>1
    <3>2. At(t, i) = At(s, a) /\ At(t, i + 1) = y
      BY <1>13, <2>0, <2>1, <3>1
    <3> QED BY <1>8, <1>14, <2>0, <3>2
  <2>2. CASE i = k
    <3>1. At(t, i) = y /\ At(t, i + 1) = At(s, k + 1)
      BY <1>1, <1>13, <2>0, <2>2
    <3> QED BY <1>3, <1>8, <1>14, <2>0, <3>1
  <2>3. CASE i # a /\ i # k
    <3>1. i + 1 # k
      BY <1>4, <2>0, <2>3
    <3>2. At(t, i) = At(s, i) /\ At(t, i + 1) = At(s, i + 1)
      BY <1>13, <2>0, <2>3, <3>1
    <3> QED BY <1>2, <1>8, <1>14, <2>0, <2>3, <3>2
  <2> QED BY <2>1, <2>2, <2>3
<1>16. (mem \ {x}) \cup {y} = {t[i] : i \in 1 .. Len(t)}
  <2>1. ASSUME NEW i \in 1 .. Len(t)
        PROVE  t[i] \in (mem \ {x}) \cup {y}
    BY <1>1, <1>11
  <2>2. ASSUME NEW z \in (mem \ {x}) \cup {y}
        PROVE  \E i \in 1 .. Len(t) : t[i] = z
    <3>1. CASE z = y
      BY <1>11, <3>1
    <3>2. CASE z # y
      <4>1. PICK b \in 1 .. Len(s) : s[b] = z
        BY <1>1, <3>2
      <4>2. b # k
        BY <3>2, <4>1
      <4> QED BY <1>11, <4>1, <4>2
    <3> QED BY <3>1, <3>2
  <2> QED BY <2>1, <2>2
<1>17. Chain(m2, (mem \ {x}) \cup {y}, t)
  BY <1>11, <1>12, <1>15, <1>16 DEF Chain
<1>18. (mem \ {x}) \cup {y} \subseteq Nodes
  BY <1>3
<1> QED BY <1>7, <1>9, <1>10, <1>17, <1>18 DEF Image

-----------------------------------------------------------------------------
(***************************************************************************)
(* The program: the list in memory is always that of the members, in the   *)
(* order in which a loop visits them.                                      *)
(***************************************************************************)
IInv == Image(m, members, Items)

USE HeadAssumption

\* INIT_LIST_HEAD leaves the head linked to itself: an empty list.
LEMMA InitIsEmpty == Init => IInv /\ Abstract!Init
<1> SUFFICES ASSUME Init PROVE IInv /\ Abstract!Init
  OBVIOUS
<1> DEFINE fresh == [c \in Cells |-> [prev |-> c, next |-> c]]
<1>1. fresh \in Memory(Cells) /\ ListHead \in Cells
  BY DEF Memory, Cells
<1>2. \A c \in Cells : fresh[c].next = c /\ fresh[c].prev = c
  OBVIOUS
<1>3. m = SetPrev(SetNext(fresh, ListHead, ListHead), ListHead, ListHead) /\ members = {}
  BY DEF Init, InitHead
<1> HIDE DEF fresh
<1> DEFINE m1 == SetNext(fresh, ListHead, ListHead)
<1>4. m1 \in Memory(Cells) /\ \A c \in Cells : m1[c].next = c /\ m1[c].prev = c
  BY <1>1, <1>2, SetNextIs
<1>5. m = SetPrev(m1, ListHead, ListHead)
  BY <1>3
<1> HIDE DEF m1
<1>6. /\ m \in Memory(Cells)
      /\ \A c \in Cells : m[c].prev = IF c = ListHead THEN ListHead ELSE m1[c].prev
      /\ \A c \in Cells : m[c].next = m1[c].next
  <2> DEFINE m2 == SetPrev(m1, ListHead, ListHead)
  <2>1. /\ m2 \in Memory(Cells)
        /\ \A c \in Cells : m2[c].prev = IF c = ListHead THEN ListHead ELSE m1[c].prev
        /\ \A c \in Cells : m2[c].next = m1[c].next
    BY <1>1, <1>4, SetPrevIs
  <2>2. m = m2
    BY <1>5
  <2> HIDE DEF m2
  <2> QED BY <2>1, <2>2
<1>7. m \in Memory(Cells) /\ \A c \in Cells : m[c].next = c /\ m[c].prev = c
  BY <1>4, <1>6
<1>8. WellLinked(m, members, ListHead)
  BY <1>1, <1>3, <1>7 DEF WellLinked
<1>9. Chain(m, members, <<>>)
  <2>1. <<>> \in Seq(Nodes) /\ Len(<<>>) = 0
    BY EmptySeq
  <2>2. PICK s : s = <<>>
    OBVIOUS
  <2>3. At(s, 0) = ListHead /\ At(s, 1) = ListHead
    BY <2>1, <2>2 DEF At
  <2>4. \A i \in 0 .. Len(s) : m[At(s, i)].next = At(s, i + 1)
    BY <1>1, <1>7, <2>1, <2>2, <2>3
  <2>5. members = {s[i] : i \in 1 .. Len(s)}
    BY <1>3, <2>1, <2>2
  <2>6. \A i, j \in 1 .. Len(s) : s[i] = s[j] => i = j
    BY <2>1, <2>2
  <2>7. Chain(m, members, s)
    BY <2>1, <2>2, <2>4, <2>5, <2>6 DEF Chain
  <2> QED BY <2>2, <2>7
<1>10. Items = <<>>
  BY <1>9, ItemsAre DEF Items
<1>11. call = <<"INIT_LIST_HEAD_PTR", <<>>, "void">>
  BY DEF Init
<1> QED BY <1>3, <1>7, <1>8, <1>9, <1>10, <1>11 DEF IInv, Image, Abstract!Init

\* If memory is again that of some sequence, a loop visits that sequence.
LEMMA Lands ==
  ASSUME NEW t, Image(m', members', t)
  PROVE  IInv' /\ Items' = t
<1>1. Chain(m', members', t)
  BY DEF Image
<1>2. Items' = t
  BY <1>1, ItemsAre DEF Items
<1> QED BY <1>2 DEF IInv

\* What the program believes of the list, and what a loop and list_size see.
LEMMA Seen ==
  ASSUME IInv
  PROVE  /\ Items \in Seq(Nodes) /\ Len(Items) \in Nat /\ DOMAIN Items = 1 .. Len(Items)
         /\ Image(m, members, Items)
         /\ \A x \in members : \E i \in 1 .. Len(Items) : Items[i] = x
         /\ \A i \in 1 .. Len(Items) : Items[i] \in members
         /\ \A x : Abstract!InList(x) <=> x \in members
         /\ NodesFrom(m, ListHead, Cardinality(Nodes) + 1) = Items
<1>1. Image(m, members, Items)
  BY DEF IInv
<1>2. PICK s : s = Items
  OBVIOUS
<1>3. /\ s \in Seq(Nodes) /\ Len(s) \in Nat /\ DOMAIN s = 1 .. Len(s)
      /\ \A x \in members : \E i \in 1 .. Len(s) : s[i] = x
      /\ \A i \in 1 .. Len(s) : s[i] \in members
  BY <1>1, <1>2, Neighbours, LenProperties
<1>4. \A x : Abstract!InList(x) <=> x \in members
  BY <1>2, <1>3 DEF Abstract!InList
<1>5. Chain(m, members, s)
  BY <1>1, <1>2 DEF Image
<1>6. \A i, j \in 1 .. Len(s) : s[i] = s[j] => i = j
  BY <1>5 DEF Chain
<1>7. Len(s) <= Cardinality(Nodes) + 1 /\ Cardinality(Nodes) + 1 \in Nat
  <2>1. Len(s) <= Cardinality(Nodes) /\ Cardinality(Nodes) \in Nat
    BY <1>3, <1>6, Short
  <2> QED BY <1>3, <2>1
<1>8. NodesFrom(m, ListHead, Cardinality(Nodes) + 1) = s
  BY <1>5, <1>7, VisitsList
<1> QED BY <1>1, <1>2, <1>3, <1>4, <1>8

\* list_empty and the first node, for list_pop_front and list_front.
LEMMA FirstIs ==
  ASSUME IInv
  PROVE  /\ ListEmpty(m, ListHead) <=> Items = <<>>
         /\ ~ListEmpty(m, ListHead) => /\ 1 \in 1 .. Len(Items)
                                       /\ ListFront(m, ListHead) = Items[1]
<1>1. PICK s : s = Items
  OBVIOUS
<1>2. /\ s \in Seq(Nodes) /\ Len(s) \in Nat /\ ListHead \notin Nodes
      /\ \A i \in 1 .. Len(s) : s[i] \in Nodes
      /\ \A i \in 0 .. Len(s) : m[At(s, i)].next = At(s, i + 1)
  BY <1>1, Neighbours DEF IInv
<1>3. m[ListHead].next = At(s, 1)
  <2>1. At(s, 0) = ListHead
    BY DEF At
  <2>2. 0 \in 0 .. Len(s)
    BY <1>2
  <2>3. m[At(s, 0)].next = At(s, 0 + 1)
    BY <1>2, <2>2
  <2> QED BY <2>1, <2>3
<1>4. CASE Len(s) = 0
  <2>1. s = <<>>
    BY <1>2, <1>4, EmptySeq
  <2>2. At(s, 1) = ListHead
    BY <1>4 DEF At
  <2> QED BY <1>1, <1>3, <2>1, <2>2 DEF ListEmpty
<1>5. CASE Len(s) # 0
  <2>1. 1 \in 1 .. Len(s)
    BY <1>2, <1>5
  <2>2. At(s, 1) = s[1] /\ s[1] # ListHead
    BY <1>2, <2>1 DEF At
  <2>3. s # <<>>
    BY <1>5, EmptySeq
  <2> QED BY <1>1, <1>3, <2>1, <2>2, <2>3 DEF ListEmpty, ListFront
<1> QED BY <1>4, <1>5

\* A node taken out of the list, for list_del and list_pop_front.
LEMMA TakenOut ==
  ASSUME IInv, NEW k \in 1 .. Len(Items),
         m' = ListDel(m, Items[k]), members' = members \ {Items[k]}
  PROVE  IInv' /\ Items' = Abstract!Without(k)
<1>1. PICK s : s = Items
  OBVIOUS
<1>2. Image(m, members, s)
  BY <1>1 DEF IInv
<1>3. PICK x : x = s[k]
  OBVIOUS
<1>4. k \in 1 .. Len(s) /\ x = s[k] /\ m' = ListDel(m, x) /\ members' = members \ {x}
  BY <1>1, <1>3
<1>5. Image(m', members', Without(s, k))
  <2>1. Image(ListDel(m, x), members \ {x}, Without(s, k))
    BY <1>2, <1>4, DelTakesOut
  <2> QED BY <1>4, <2>1
<1>6. IInv' /\ Items' = Without(s, k)
  BY <1>5, Lands
<1> QED BY <1>1, <1>6 DEF Without, Abstract!Without

\* Every call of list.h leaves an image of a sequence, and the sequence it
\* leaves and its result are those it promises.
LEMMA StepMaps == IInv /\ [Next]_vars => IInv' /\ [Abstract!Next]_(Abstract!vars)
<1> SUFFICES ASSUME IInv, [Next]_vars PROVE IInv' /\ [Abstract!Next]_(Abstract!vars)
  OBVIOUS
<1>0. PICK s : s = Items
  OBVIOUS
<1>1. /\ Image(m, members, s) /\ s \in Seq(Nodes) /\ Len(s) \in Nat /\ DOMAIN s = 1 .. Len(s)
      /\ \A x \in members : \E i \in 1 .. Len(s) : s[i] = x
      /\ \A x : Abstract!InList(x) <=> x \in members
      /\ members \subseteq Nodes
  BY <1>0, Seen DEF Image
<1>2. ASSUME NEW x \in Nodes, AddTail(x)
      PROVE  IInv' /\ Abstract!Next
  <2>1. x \notin members /\ m' = ListAddTail(m, x, ListHead) /\ members' = members \cup {x}
    BY <1>2 DEF AddTail
  <2>2. Image(m', members', Append(s, x))
    BY <1>1, <2>1, TailAppends
  <2>3. IInv' /\ Items' = Append(Items, x)
    BY <1>0, <2>2, Lands
  <2>4. Abstract!AddTail(x)
    BY <1>1, <1>2, <2>1, <2>3 DEF AddTail, Abstract!AddTail
  <2> QED BY <2>3, <2>4 DEF Abstract!Next
<1>3. ASSUME NEW x \in Nodes, AddFront(x)
      PROVE  IInv' /\ Abstract!Next
  <2>1. x \notin members /\ m' = ListAdd(m, x, ListHead) /\ members' = members \cup {x}
    BY <1>3 DEF AddFront
  <2>2. Image(m', members', <<x>> \o s)
    BY <1>1, <2>1, FrontPrepends
  <2>3. IInv' /\ Items' = <<x>> \o Items
    BY <1>0, <2>2, Lands
  <2>4. Abstract!AddFront(x)
    BY <1>1, <1>3, <2>1, <2>3 DEF AddFront, Abstract!AddFront
  <2> QED BY <2>3, <2>4 DEF Abstract!Next
<1>4. ASSUME NEW x \in Nodes, Remove(x)
      PROVE  IInv' /\ Abstract!Next
  <2>1. x \in members /\ m' = ListDel(m, x) /\ members' = members \ {x}
    BY <1>4 DEF Remove
  <2>2. PICK k \in 1 .. Len(s) : x = s[k]
    BY <1>1, <2>1
  <2>3. IInv' /\ Items' = Abstract!Without(k)
    BY <1>0, <2>1, <2>2, TakenOut
  <2>4. k \in DOMAIN Items /\ Abstract!Remove(k)
    BY <1>0, <1>1, <1>4, <2>2, <2>3 DEF Remove, Abstract!Remove
  <2> QED BY <2>3, <2>4 DEF Abstract!Next
<1>5. ASSUME NEW x \in Nodes, NEW y \in Nodes, Replace(x, y)
      PROVE  IInv' /\ Abstract!Next
  <2>1. /\ x \in members /\ y \notin members
        /\ m' = ListReplace(m, x, y) /\ members' = (members \ {x}) \cup {y}
    BY <1>5 DEF Replace
  <2>2. PICK k \in 1 .. Len(s) : x = s[k]
    BY <1>1, <2>1
  <2>3. Image(m', members', [s EXCEPT ![k] = y])
    BY <1>1, <2>1, <2>2, ReplaceExchanges
  <2>4. IInv' /\ Items' = [s EXCEPT ![k] = y]
    BY <2>3, Lands
  <2>5. k \in DOMAIN Items /\ Items' = [Items EXCEPT ![k] = y] /\ Items[k] = x
    BY <1>0, <1>1, <2>2, <2>4
  <2>6. Abstract!Replace(k, y)
    BY <1>1, <1>5, <2>1, <2>5 DEF Replace, Abstract!Replace
  <2> QED BY <2>4, <2>5, <2>6 DEF Abstract!Next
<1>6. ASSUME UNCHANGED <<m, members>>
      PROVE  IInv' /\ UNCHANGED Items
  BY <1>6 DEF IInv, Items
<1>7. ASSUME PopFront
      PROVE  IInv' /\ Abstract!Next
  <2>1. CASE ListEmpty(m, ListHead)
    <3>1. IInv' /\ Items' = Items /\ Items = <<>>
      BY <1>6, <1>7, <2>1, FirstIs DEF PopFront
    <3>2. call' = <<"list_pop_front", <<>>, "NULL">>
      BY <1>7, <2>1 DEF PopFront
    <3>3. Abstract!PopFront
      BY <3>1, <3>2 DEF Abstract!PopFront, Abstract!First
    <3> QED BY <3>1, <3>3 DEF Abstract!Next
  <2>2. CASE ~ListEmpty(m, ListHead)
    <3>1. PICK x : x = ListFront(m, ListHead)
      OBVIOUS
    <3>2. /\ m' = ListDel(m, x) /\ members' = members \ {x}
          /\ call' = <<"list_pop_front", <<>>, x>>
      BY <1>7, <2>2, <3>1 DEF PopFront
    <3>3. 1 \in 1 .. Len(Items) /\ x = Items[1] /\ Items # <<>>
      BY <2>2, <3>1, FirstIs
    <3>4. IInv' /\ Items' = Abstract!Without(1)
      BY <3>2, <3>3, TakenOut
    <3>5. Abstract!PopFront
      BY <3>2, <3>3, <3>4 DEF Abstract!PopFront, Abstract!First
    <3> QED BY <3>4, <3>5 DEF Abstract!Next
  <2> QED BY <2>1, <2>2
<1>8. ASSUME Front
      PROVE  IInv' /\ Abstract!Next
  <2>1. IInv' /\ UNCHANGED Items
    BY <1>6, <1>8 DEF Front
  <2>2. call' = <<"list_front", <<>>, Abstract!First>>
    <3>1. CASE ListEmpty(m, ListHead)
      BY <1>8, <3>1, FirstIs DEF Front, Abstract!First
    <3>2. CASE ~ListEmpty(m, ListHead)
      BY <1>8, <3>2, FirstIs DEF Front, Abstract!First
    <3> QED BY <3>1, <3>2
  <2> QED BY <2>1, <2>2 DEF Abstract!Next, Abstract!Front
<1>9. ASSUME Size
      PROVE  IInv' /\ Abstract!Next
  <2>1. IInv' /\ UNCHANGED Items
    BY <1>6, <1>9 DEF Size
  <2>2. call' = <<"list_size", <<>>, Len(Items)>>
    BY <1>9, Seen DEF Size
  <2> QED BY <2>1, <2>2 DEF Abstract!Next, Abstract!Size
<1>10. CASE Next
  <2>1. CASE \E x \in Nodes : AddTail(x) \/ AddFront(x) \/ Remove(x)
    BY <1>2, <1>3, <1>4, <2>1
  <2>2. CASE \E x, y \in Nodes : Replace(x, y)
    BY <1>5, <2>2
  <2> QED BY <1>7, <1>8, <1>9, <1>10, <2>1, <2>2 DEF Next
<1>11. CASE UNCHANGED vars
  <2>1. UNCHANGED <<m, members>> /\ UNCHANGED call
    BY <1>11 DEF vars
  <2> QED BY <1>6, <2>1 DEF Abstract!vars
<1> QED BY <1>10, <1>11

LEMMA Invariance == Spec => []IInv
BY InitIsEmpty, StepMaps, PTL DEF Spec

(***************************************************************************)
(* The chains of next and prev pointers through the members and the head   *)
(* of a list of list.h are inverse to each other after any calls.          *)
(***************************************************************************)
THEOREM Linked == Spec => []ChainsAgree
<1>1. IInv => ChainsAgree
  BY DEF IInv, Image, ChainsAgree
<1> QED BY <1>1, Invariance, PTL

(***************************************************************************)
(* What list_for_each visits is a sequence of distinct nodes, and a call   *)
(* of each function does to it what its name says and no more: a step that *)
(* is a call of list_add with x is one that puts x in front, list_add_tail *)
(* at the end, list_del takes its argument out of its place, list_replace  *)
(* puts its second argument in the place of its first, list_pop_front and  *)
(* list_front return the first node or NULL, list_size the length.         *)
(***************************************************************************)
THEOREM RefinesDeque == Spec => ImplementsDeque
BY InitIsEmpty, StepMaps, Invariance, PTL DEF Spec, ImplementsDeque, Abstract!Spec
=============================================================================
