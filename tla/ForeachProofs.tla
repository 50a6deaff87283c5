--------------------------- MODULE ForeachProofs ---------------------------
(***************************************************************************)
(* Proofs about Foreach, for sources of any length, any number of passes   *)
(* over one entry and whatever fails in them.                              *)
(***************************************************************************)
EXTENDS Foreach, NaturalsInduction, WellFoundedInduction, TLAPS

(***************************************************************************)
(* Only general_foreach_inode_entry leaves an entry that may be used again *)
(* as it is: the label done of the other two leaves pointers behind.       *)
(***************************************************************************)
EntryIsZeroed == CallAfterEnd \subseteq {"inode"}

NodeStates == [pos : 0 .. MaxItems, buf : DataRefs]

\* A heap on which nothing has gone wrong.
Clean(blocks) == [live |-> blocks, faults |-> {}]

Entries(p) == [this : {p}, data : DataRefs, flag : {"CON"}]

\* What a loop body finds: the entry, the node of its pass, what is allocated.
InLoop(e, n, p, blocks) ==
  /\ e \in Entries(p)
  /\ kind \in {"inode", "field"} => e.data = DataOf(p, n.pos)
  /\ kind = "inode" => n.buf = e.data /\ blocks = {NodeOf(p), TextOf(p), HandleOf(p), e.data}
  /\ kind = "field" => blocks = {NodeOf(p), TextOf(p), e.data}
  /\ kind = "arp" => blocks = {HandleOf(p)}

TypeInv ==
  /\ kind \in Kinds
  /\ source \in Seq({"hit", "skip"}) /\ Len(source) <= MaxItems
  /\ node \in [Passes -> NodeStates]
  /\ pass \in 0 .. MaxPasses
  /\ phase \in {"out", "in", "ended"}
  /\ served \in Seq(Nat)

HeapInv ==
  /\ faults = {}
  /\ phase # "in" => live = {} /\ (kind = "inode" => entry = ZeroEntry)
  /\ phase = "in" =>
       /\ pass \in Passes /\ node[pass].pos \in 0 .. Len(source)
       /\ InLoop(entry, node[pass], pass, live)

\* What a pass that has come to position upto has handed out.
Handed(s, upto) == {s[i] : i \in 1 .. Len(s)} = Items(upto)

ServedInv == phase = "in" => Handed(served, node[pass].pos)

IInv == TypeInv /\ HeapInv /\ ServedInv

\* The result r of a call of pass p, when the items up to position from have
\* been handed out: the next item, or an end with everything released.
Serves(r, p, from) ==
  /\ r.ret = 0 /\ r.pass = p /\ r.node \in NodeStates
  /\ NextHit(from) # 0 /\ r.node.pos = NextHit(from)
  /\ r.heap = Clean(r.heap.live) /\ InLoop(r.entry, r.node, p, r.heap.live)

Ends(r, p) ==
  /\ r.ret = -1 /\ r.pass \in {0, p} /\ r.node \in NodeStates
  /\ r.heap = Clean({}) /\ (kind = "inode" => r.entry = ZeroEntry)

-----------------------------------------------------------------------------
(***************************************************************************)
(* Resources and the heap.                                                 *)
(***************************************************************************)
LEMMA Names ==
  ASSUME NEW p, p # 0, NEW j
  PROVE  /\ NodeOf(p) # TextOf(p) /\ NodeOf(p) # HandleOf(p) /\ TextOf(p) # HandleOf(p)
         /\ \A d \in {DataOf(p, j), NoData} : d \notin {NodeOf(p), TextOf(p), HandleOf(p)}
         /\ DataOf(p, j) # NoData
BY DEF NodeOf, TextOf, HandleOf, DataOf, NoData

LEMMA HeapCalls ==
  ASSUME NEW blocks, NEW b
  PROVE  /\ \A more : Acquire(Clean(blocks), more) = Clean(blocks \cup more)
         /\ b \in blocks => /\ Use(Clean(blocks), b) = Clean(blocks)
                            /\ Release(Clean(blocks), b) = Clean(blocks \ {b})
                            /\ b # NoData => ReleaseData(Clean(blocks), b) = Clean(blocks \ {b})
         /\ ReleaseData(Clean(blocks), NoData) = Clean(blocks)
<1>1. \A more : Acquire(Clean(blocks), more) = Clean(blocks \cup more)
  BY DEF Acquire, Clean
<1>2. b \in blocks => /\ Use(Clean(blocks), b) = Clean(blocks)
                      /\ Release(Clean(blocks), b) = Clean(blocks \ {b})
  BY DEF Use, Release, Clean
<1>3. QED
  BY <1>1, <1>2 DEF ReleaseData

LEMMA PassesAre ==
  /\ Passes \subseteq Nat /\ 0 \notin Passes /\ \A p \in Passes : p # 0 /\ p > 0
  /\ MaxItems \in Nat /\ MaxPasses \in Nat
  /\ NoData \in DataRefs
BY BoundAssumption DEF Passes, DataRefs

-----------------------------------------------------------------------------
(***************************************************************************)
(* The next item.                                                          *)
(***************************************************************************)
LEMMA LeastIn ==
  ASSUME NEW S \in SUBSET Nat, S # {}
  PROVE  \E a \in S : \A b \in S : a <= b
<1>1. PICK a \in S : \A b \in S : ~ (<<b, a>> \in OpToRel(<, Nat))
  BY NatLessThanWellFounded, WFMin
<1>2. ASSUME NEW b \in S
      PROVE  a <= b
  <2> DEFINE pair == <<b, a>>
  <2>1. pair \in Nat \X Nat /\ pair[1] = b /\ pair[2] = a
    OBVIOUS
  <2> HIDE DEF pair
  <2>2. pair \notin OpToRel(<, Nat)
    BY <1>1 DEF pair
  <2>3. QED
    BY <2>1, <2>2 DEF OpToRel
<1>3. QED
  BY <1>2

LEMMA NextHitIs ==
  ASSUME NEW n \in 0 .. Len(source), source \in Seq({"hit", "skip"})
  PROVE  /\ NextHit(n) = 0 => Items(Len(source)) = Items(n)
         /\ NextHit(n) # 0 => /\ NextHit(n) \in 1 .. Len(source) /\ NextHit(n) > n
                              /\ NextHit(n) \notin Items(n)
                              /\ Items(NextHit(n)) = Items(n) \cup {NextHit(n)}
<1> DEFINE after == {j \in n + 1 .. Len(source) : source[j] = "hit"}
<1>1. n \in Nat /\ Len(source) \in Nat /\ n <= Len(source)
  OBVIOUS
<1>2. NextHit(n) = IF after = {} THEN 0 ELSE CHOOSE j \in after : \A k \in after : j <= k
  BY DEF NextHit
<1>3. CASE after = {}
  <2>1. NextHit(n) = 0
    BY <1>2, <1>3
  <2>2. \A j \in 1 .. Len(source) : source[j] = "hit" => j <= n
    BY <1>1, <1>3
  <2>3. \A j \in 1 .. Len(source) : j <= n <=> j \in 1 .. n
    BY <1>1
  <2>4. 1 .. n \subseteq 1 .. Len(source)
    BY <1>1
  <2>5. QED
    BY <2>1, <2>2, <2>3, <2>4 DEF Items
<1>4. CASE after # {}
  <2>1. after \subseteq Nat
    BY <1>1
  <2>2. PICK a \in after : \A b \in after : a <= b
    <3> HIDE DEF after
    <3>1. QED
      BY <1>4, <2>1, LeastIn
  <2>3. PICK h : h = NextHit(n)
    OBVIOUS
  <2>4. h \in after /\ \A b \in after : h <= b
    BY <1>2, <1>4, <2>2, <2>3
  <2>5. h \in Nat /\ h > n /\ h <= Len(source) /\ h # 0 /\ source[h] = "hit"
    BY <1>1, <2>4
  <2>6. \A j \in 1 .. h : source[j] = "hit" => j \in 1 .. n \/ j = h
    BY <1>1, <2>4, <2>5
  <2>7. 1 .. n \subseteq 1 .. h /\ h \in 1 .. h /\ h \notin 1 .. n
    BY <1>1, <2>5
  <2>8. Items(h) = Items(n) \cup {h} /\ h \notin Items(n)
    BY <2>5, <2>6, <2>7 DEF Items
  <2>9. QED
    BY <2>3, <2>5, <2>8
<1>5. QED
  BY <1>3, <1>4

-----------------------------------------------------------------------------
(***************************************************************************)
(* One call: from a pass that stands at position n.pos, with everything in *)
(* order, it hands out the next item or ends with everything released; and *)
(* it ends only if there is no next item or something failed.              *)
(***************************************************************************)
Answers(r, p, from, failing) ==
  \/ Serves(r, p, from)
  \/ Ends(r, p) /\ (failing = "none" => NextHit(from) = 0)

LEMMA NextNode ==
  ASSUME TypeInv, NEW n \in NodeStates, n.pos <= Len(source), NEW p \in Passes,
         NextHit(n.pos) # 0
  PROVE  /\ NextHit(n.pos) \in 1 .. MaxItems
         /\ DataOf(p, NextHit(n.pos)) \in DataRefs
<1>1. n.pos \in 0 .. Len(source) /\ source \in Seq({"hit", "skip"}) /\ Len(source) \in Nat
      /\ Len(source) <= MaxItems /\ MaxItems \in Nat
  BY PassesAre DEF TypeInv, NodeStates
<1>2. NextHit(n.pos) \in 1 .. Len(source)
  BY <1>1, NextHitIs
<1>3. NextHit(n.pos) \in 1 .. MaxItems
  BY <1>1, <1>2
<1>4. QED
  BY <1>3 DEF DataRefs

LEMMA InodeStops ==
  ASSUME kind = "inode", NEW p \in Passes, NEW n \in NodeStates, NEW blocks, NEW j,
         \/ n.buf = NoData /\ blocks = {NodeOf(p), TextOf(p), HandleOf(p)}
         \/ n.buf = DataOf(p, j) /\ blocks = {NodeOf(p), TextOf(p), HandleOf(p), n.buf}
  PROVE  Ends(InodeStop(Clean(blocks), p, n), p)
<1> DEFINE held == {NodeOf(p), TextOf(p), HandleOf(p)}
           bare == Release(Release(Release(Clean(held), TextOf(p)), HandleOf(p)), NodeOf(p))
<1>1. p # 0
  BY PassesAre
<1>2. NodeOf(p) \in blocks
  OBVIOUS
<1>3. Use(Clean(blocks), NodeOf(p)) = Clean(blocks)
  BY <1>2, HeapCalls
<1>4. n.buf \notin held /\ (n.buf # NoData => n.buf \in blocks /\ blocks \ {n.buf} = held)
      /\ (n.buf = NoData => blocks = held)
  BY <1>1, Names
<1>5. ReleaseData(Clean(blocks), n.buf) = Clean(held)
  <2>1. CASE n.buf = NoData
    BY <2>1, <1>4, HeapCalls
  <2>2. CASE n.buf # NoData
    <3>1. ReleaseData(Clean(blocks), n.buf) = Clean(blocks \ {n.buf})
      BY <2>2, <1>4, HeapCalls
    <3>2. QED
      BY <3>1, <2>2, <1>4
  <2>3. QED
    BY <2>1, <2>2
<1>6. bare = Clean({})
  <2>1. /\ held \ {TextOf(p)} = {NodeOf(p), HandleOf(p)}
        /\ {NodeOf(p), HandleOf(p)} \ {HandleOf(p)} = {NodeOf(p)}
        /\ {NodeOf(p)} \ {NodeOf(p)} = {}
    BY <1>1, Names
  <2>2. Release(Clean(held), TextOf(p)) = Clean({NodeOf(p), HandleOf(p)})
    <3>1. TextOf(p) \in held
      OBVIOUS
    <3> HIDE DEF held
    <3>2. QED
      BY <2>1, <3>1, HeapCalls
  <2>3. Release(Clean({NodeOf(p), HandleOf(p)}), HandleOf(p)) = Clean({NodeOf(p)})
    BY <2>1, HeapCalls
  <2>4. Release(Clean({NodeOf(p)}), NodeOf(p)) = Clean({})
    BY <2>1, HeapCalls
  <2>5. QED
    BY <2>2, <2>3, <2>4
<1>7. InodeStop(Clean(blocks), p, n) = Ended(ZeroEntry, bare, p, n)
  BY <1>1, <1>3, <1>5 DEF InodeStop
<1> HIDE DEF bare
<1>8. InodeStop(Clean(blocks), p, n) = Ended(ZeroEntry, Clean({}), p, n)
  BY <1>6, <1>7
<1>9. QED
  BY <1>8 DEF Ends, Ended

LEMMA InodeReads ==
  ASSUME TypeInv, kind = "inode", NEW p \in Passes, NEW n \in NodeStates, n.buf = NoData,
         n.pos <= Len(source), NEW e \in Entries(p), NEW failing
  PROVE  Answers(InodeRead(e, Clean({NodeOf(p), TextOf(p), HandleOf(p)}), p, n, failing),
                 p, n.pos, failing)
<1> DEFINE held == {NodeOf(p), TextOf(p), HandleOf(p)}
           hit == NextHit(n.pos)
           r == InodeRead(e, Clean(held), p, n, failing)
<1>1. CASE hit = 0 \/ failing = "data"
  <2>1. r = InodeStop(Clean(held), p, n)
    BY <1>1 DEF InodeRead
  <2>2. Ends(InodeStop(Clean(held), p, n), p)
    BY InodeStops
  <2> HIDE DEF held
  <2>3. Ends(r, p)
    BY <2>1, <2>2
  <2>4. QED
    BY <1>1, <2>3 DEF Answers, held
<1>2. CASE hit # 0 /\ failing # "data"
  <2>1. PICK d : d = DataOf(p, hit)
    OBVIOUS
  <2>2. hit \in 1 .. MaxItems /\ d \in DataRefs
    BY <1>2, <2>1, NextNode
  <2>3. Acquire(Clean(held), {d}) = Clean({NodeOf(p), TextOf(p), HandleOf(p), d})
    <3>1. held \cup {d} = {NodeOf(p), TextOf(p), HandleOf(p), d}
      OBVIOUS
    <3>2. Acquire(Clean(held), {d}) = Clean(held \cup {d})
      BY HeapCalls
    <3>3. QED
      BY <3>1, <3>2
  <2>4. PICK b : b = {NodeOf(p), TextOf(p), HandleOf(p), d}
    OBVIOUS
  <2>5. PICK f : f = [e EXCEPT !.data = d]
    OBVIOUS
  <2>6. PICK m : m = [pos |-> hit, buf |-> d]
    OBVIOUS
  <2>7. r = Item(f, Clean(b), p, m)
    BY <1>2, <2>1, <2>3, <2>4, <2>5, <2>6 DEF InodeRead
  <2>8. f \in Entries(p) /\ f.data = d /\ m \in NodeStates /\ m.pos = hit /\ m.buf = d
    BY <2>2, <2>5, <2>6 DEF Entries, NodeStates
  <2>9. InLoop(f, m, p, b)
    BY <2>1, <2>4, <2>8 DEF InLoop
  <2>10. r.ret = 0 /\ r.pass = p /\ r.node = m /\ r.entry = f /\ r.heap = Clean(b)
    BY <2>7 DEF Item
  <2>11. r.heap.live = b
    BY <2>10 DEF Clean
  <2>12. Serves(r, p, n.pos)
    <3> HIDE DEF r
    <3>1. QED
      BY <1>2, <2>8, <2>9, <2>10, <2>11 DEF Serves
  <2>13. QED
    BY <2>12 DEF Answers
<1>3. QED
  BY <1>1, <1>2

LEMMA FieldEnds ==
  ASSUME kind = "field", NEW p \in Passes, NEW n \in NodeStates, NEW blocks, NEW j, NEW e,
         \/ e.data = NoData /\ blocks = {NodeOf(p), TextOf(p)}
         \/ e.data = DataOf(p, j) /\ blocks = {NodeOf(p), TextOf(p), e.data}
  PROVE  Ends(FieldDone(e, Clean(blocks), p, n), p)
<1> DEFINE d == e.data
           bare == Release(Release(Clean(blocks), TextOf(p)), NodeOf(p))
<1>1. p # 0
  BY PassesAre
<1>2. NodeOf(p) \in blocks /\ TextOf(p) \in blocks
  OBVIOUS
<1>3. Use(Clean(blocks), NodeOf(p)) = Clean(blocks)
  BY <1>2, HeapCalls
<1>4. PICK rest : rest = (blocks \ {TextOf(p)}) \ {NodeOf(p)}
  OBVIOUS
<1>5. bare = Clean(rest)
  <2>1. Release(Clean(blocks), TextOf(p)) = Clean(blocks \ {TextOf(p)})
    BY <1>2, HeapCalls
  <2>2. NodeOf(p) \in blocks \ {TextOf(p)}
    BY <1>1, <1>2, Names
  <2>3. Release(Clean(blocks \ {TextOf(p)}), NodeOf(p)) = Clean(rest)
    BY <1>4, <2>2, HeapCalls
  <2>4. QED
    BY <2>1, <2>3
<1>6. (d = NoData => rest = {}) /\ (d # NoData => rest = {d})
  <2>1. \A x \in {DataOf(p, j), NoData} : x \notin {NodeOf(p), TextOf(p), HandleOf(p)}
    BY <1>1, Names
  <2>2. QED
    BY <1>1, <1>4, <2>1, Names
<1>7. ReleaseData(Clean(rest), d) = Clean({})
  <2>1. CASE d = NoData
    BY <2>1, <1>6, HeapCalls
  <2>2. CASE d # NoData
    <3>1. d \in rest /\ rest \ {d} = {}
      BY <2>2, <1>6
    <3>2. ReleaseData(Clean(rest), d) = Clean(rest \ {d})
      BY <2>2, <3>1, HeapCalls
    <3>3. QED
      BY <3>1, <3>2
  <2>3. QED
    BY <2>1, <2>2
<1>8. FieldDone(e, Clean(blocks), p, n)
        = Ended([e EXCEPT !.this = 0], ReleaseData(bare, d), p, n)
  BY <1>1, <1>3 DEF FieldDone
<1> HIDE DEF bare
<1>9. FieldDone(e, Clean(blocks), p, n) = Ended([e EXCEPT !.this = 0], Clean({}), p, n)
  BY <1>5, <1>7, <1>8
<1>10. QED
  BY <1>9 DEF Ends, Ended

LEMMA FieldReads ==
  ASSUME TypeInv, kind = "field", NEW p \in Passes, NEW n \in NodeStates,
         n.pos <= Len(source), NEW e \in Entries(p), NEW failing, NEW blocks, NEW j,
         \/ e.data = NoData /\ blocks = {NodeOf(p), TextOf(p)}
         \/ e.data = DataOf(p, j) /\ blocks = {NodeOf(p), TextOf(p), e.data}
  PROVE  Answers(FieldRead(e, Clean(blocks), p, n, failing), p, n.pos, failing)
<1> DEFINE hit == NextHit(n.pos)
           r == FieldRead(e, Clean(blocks), p, n, failing)
<1>1. p # 0 /\ NodeOf(p) \in blocks
  BY PassesAre
<1>2. Use(Clean(blocks), NodeOf(p)) = Clean(blocks)
  BY <1>1, HeapCalls
<1>3. ReleaseData(Clean(blocks), e.data) = Clean({NodeOf(p), TextOf(p)})
  <2>1. PICK held : held = {NodeOf(p), TextOf(p)}
    OBVIOUS
  <2>2. CASE e.data = NoData
    BY <2>2, <1>1, Names, HeapCalls
  <2>3. CASE e.data # NoData
    <3>1. e.data \in blocks /\ blocks \ {e.data} = held
      BY <2>1, <2>3, <1>1, Names
    <3>2. ReleaseData(Clean(blocks), e.data) = Clean(blocks \ {e.data})
      BY <2>3, <3>1, HeapCalls
    <3>3. QED
      BY <2>1, <3>1, <3>2
  <2>4. QED
    BY <2>2, <2>3
<1>4. CASE hit = 0
  <2>1. r = FieldDone(e, Clean(blocks), p, n)
    BY <1>2, <1>4 DEF FieldRead
  <2>2. Ends(FieldDone(e, Clean(blocks), p, n), p)
    BY FieldEnds
  <2>3. Ends(r, p)
    BY <2>1, <2>2
  <2>4. QED
    BY <1>4, <2>3 DEF Answers
<1>5. CASE hit # 0 /\ failing = "data"
  <2>1. PICK f : f = [e EXCEPT !.data = NoData]
    OBVIOUS
  <2>2. f.data = NoData
    BY <2>1 DEF Entries
  <2>3. PICK held : held = {NodeOf(p), TextOf(p)}
    OBVIOUS
  <2>4. r = FieldDone(f, Clean(held), p, n)
    BY <1>2, <1>3, <1>5, <2>1, <2>3 DEF FieldRead
  <2>5. Ends(FieldDone(f, Clean(held), p, n), p)
    BY <2>2, <2>3, FieldEnds
  <2>6. Ends(r, p)
    BY <2>4, <2>5
  <2>7. QED
    BY <1>5, <2>6 DEF Answers
<1>6. CASE hit # 0 /\ failing # "data"
  <2>1. PICK d : d = DataOf(p, hit)
    OBVIOUS
  <2>2. hit \in 1 .. MaxItems /\ d \in DataRefs
    BY <1>6, <2>1, NextNode
  <2>3. PICK b : b = {NodeOf(p), TextOf(p), d}
    OBVIOUS
  <2>4. Acquire(Clean({NodeOf(p), TextOf(p)}), {d}) = Clean(b)
    <3>1. {NodeOf(p), TextOf(p)} \cup {d} = b
      BY <2>3
    <3>2. Acquire(Clean({NodeOf(p), TextOf(p)}), {d}) = Clean({NodeOf(p), TextOf(p)} \cup {d})
      BY HeapCalls
    <3>3. QED
      BY <3>1, <3>2
  <2>5. PICK f : f = [e EXCEPT !.data = d]
    OBVIOUS
  <2>6. PICK m : m = [n EXCEPT !.pos = hit]
    OBVIOUS
  <2>7. r = Item(f, Clean(b), p, m)
    BY <1>2, <1>3, <1>6, <2>1, <2>4, <2>5, <2>6 DEF FieldRead
  <2>8. f \in Entries(p) /\ f.data = d /\ m \in NodeStates /\ m.pos = hit
    BY <2>2, <2>5, <2>6 DEF Entries, NodeStates
  <2>9. InLoop(f, m, p, b)
    BY <2>1, <2>3, <2>8 DEF InLoop
  <2>10. r.ret = 0 /\ r.pass = p /\ r.node = m /\ r.entry = f /\ r.heap = Clean(b)
    BY <2>7 DEF Item
  <2>11. r.heap.live = b
    BY <2>10 DEF Clean
  <2>12. Serves(r, p, n.pos)
    <3> HIDE DEF r
    <3>1. QED
      BY <1>6, <2>8, <2>9, <2>10, <2>11 DEF Serves
  <2>13. QED
    BY <2>12 DEF Answers
<1>7. QED
  BY <1>4, <1>5, <1>6

LEMMA ArpEnds ==
  ASSUME kind = "arp", NEW p \in Passes, NEW n \in NodeStates, NEW e
  PROVE  Ends(ArpDone(e, Clean({HandleOf(p)}), p, n), p)
<1>1. PICK held : held = {HandleOf(p)}
  OBVIOUS
<1>2. Release(Clean(held), HandleOf(p)) = Clean(held \ {HandleOf(p)})
  BY <1>1, HeapCalls
<1>3. held \ {HandleOf(p)} = {}
  BY <1>1
<1>4. ArpDone(e, Clean(held), p, n) = Ended(e, Clean({}), p, n)
  BY <1>2, <1>3, PassesAre DEF ArpDone
<1>5. QED
  BY <1>1, <1>4 DEF Ends, Ended

LEMMA ArpReads ==
  ASSUME TypeInv, kind = "arp", NEW p \in Passes, NEW n \in NodeStates,
         n.pos <= Len(source), NEW e \in Entries(p), NEW failing
  PROVE  Answers(ArpRead(e, Clean({HandleOf(p)}), p, n), p, n.pos, failing)
<1> DEFINE hit == NextHit(n.pos)
<1>1. PICK held : held = {HandleOf(p)}
  OBVIOUS
<1> DEFINE r == ArpRead(e, Clean(held), p, n)
<1>2. Use(Clean(held), HandleOf(p)) = Clean(held)
  BY <1>1, HeapCalls
<1>3. CASE hit = 0
  <2>1. r = ArpDone(e, Clean(held), p, n)
    BY <1>2, <1>3 DEF ArpRead
  <2>2. Ends(r, p)
    BY <1>1, <2>1, ArpEnds
  <2>3. QED
    BY <1>1, <1>3, <2>2 DEF Answers
<1>4. CASE hit # 0
  <2>1. PICK m : m = [n EXCEPT !.pos = hit]
    OBVIOUS
  <2>2. r = Item(e, Clean(held), p, m)
    BY <1>2, <1>4, <2>1 DEF ArpRead
  <2>3. hit \in 1 .. MaxItems
    BY <1>4, NextNode
  <2>4. e \in Entries(p) /\ m \in NodeStates /\ m.pos = hit
    BY <2>1, <2>3 DEF Entries, NodeStates
  <2>5. InLoop(e, m, p, held)
    BY <1>1, <2>4 DEF InLoop
  <2>6. r.ret = 0 /\ r.pass = p /\ r.node = m /\ r.entry = e /\ r.heap = Clean(held)
    BY <2>2 DEF Item
  <2>7. r.heap.live = held
    BY <2>6 DEF Clean
  <2>8. Serves(r, p, n.pos)
    <3> HIDE DEF r
    <3>1. QED
      BY <1>4, <2>4, <2>5, <2>6, <2>7 DEF Serves
  <2>9. QED
    BY <1>1, <2>8 DEF Answers
<1>5. QED
  BY <1>3, <1>4

-----------------------------------------------------------------------------
(***************************************************************************)
(* What each call of the caller's loop gives.                              *)
(***************************************************************************)
LEMMA BeginAnswers ==
  ASSUME TypeInv, HeapInv, phase # "in", pass < MaxPasses, NEW failing \in Failures(kind, "START")
  PROVE  Answers(Result(ZeroEntry, failing), NewPass, 0, failing)
<1> DEFINE r == Result(ZeroEntry, failing)
<1>1. PICK p : p = NewPass
  OBVIOUS
<1>2. PICK n : n = NewNode
  OBVIOUS
<1>3. p \in Passes
  BY <1>1, PassesAre DEF TypeInv, Passes, NewPass
<1>4. n \in NodeStates /\ n.pos = 0 /\ n.buf = NoData /\ n.pos <= Len(source)
  BY <1>2, PassesAre DEF NewNode, NodeStates, TypeInv
<1>5. Heap = Clean({})
  BY DEF HeapInv, Heap, Clean
<1>6. PICK e : e = [ZeroEntry EXCEPT !.this = p, !.flag = "CON"]
  OBVIOUS
<1>7. e \in Entries(p) /\ e.data = NoData /\ ZeroEntry.flag = "START"
  BY <1>6, PassesAre DEF ZeroEntry, Entries
<1>8. \A more : Acquire(Clean({}), more) = Clean(more)
  <2>1. \A more : {} \cup more = more
    OBVIOUS
  <2>2. QED
    BY <2>1, HeapCalls
<1>9. ASSUME r = Ended(ZeroEntry, Heap, 0, NewNode), failing # "none"
      PROVE  Answers(r, p, 0, failing)
  BY <1>2, <1>4, <1>5, <1>9 DEF Answers, Ends, Ended
<1>10. CASE kind = "inode"
  <2>1. r = InodeCall(ZeroEntry, failing)
    BY <1>10 DEF Result
  <2>2. CASE failing \in {"node", "text", "open"}
    <3>1. r = Ended(ZeroEntry, Heap, 0, NewNode)
      BY <1>7, <2>1, <2>2 DEF InodeCall
    <3>2. QED
      BY <1>1, <1>9, <2>2, <3>1
  <2>3. CASE failing \notin {"node", "text", "open"}
    <3>1. r = InodeRead(e, Clean({NodeOf(p), TextOf(p), HandleOf(p)}), p, n, failing)
      BY <1>1, <1>2, <1>5, <1>6, <1>7, <1>8, <2>1, <2>3 DEF InodeCall
    <3>2. Answers(InodeRead(e, Clean({NodeOf(p), TextOf(p), HandleOf(p)}), p, n, failing),
                  p, n.pos, failing)
      BY <1>3, <1>4, <1>7, <1>10, InodeReads
    <3>3. QED
      BY <1>1, <1>4, <3>1, <3>2
  <2>4. QED
    BY <2>2, <2>3
<1>11. CASE kind = "field"
  <2>1. r = FieldCall(ZeroEntry, failing)
    BY <1>11 DEF Result
  <2>2. CASE failing \in {"node", "text"}
    <3>1. r = Ended(ZeroEntry, Heap, 0, NewNode)
      BY <1>7, <2>1, <2>2 DEF FieldCall
    <3>2. QED
      BY <1>1, <1>9, <2>2, <3>1
  <2>3. CASE failing \notin {"node", "text"}
    <3>1. r = FieldRead(e, Clean({NodeOf(p), TextOf(p)}), p, n, failing)
      BY <1>1, <1>2, <1>5, <1>6, <1>7, <1>8, <2>1, <2>3 DEF FieldCall
    <3>2. PICK held : held = {NodeOf(p), TextOf(p)}
      OBVIOUS
    <3>3. Answers(FieldRead(e, Clean(held), p, n, failing), p, n.pos, failing)
      BY <1>3, <1>4, <1>7, <1>11, <3>2, FieldReads
    <3>4. QED
      BY <1>1, <1>4, <3>1, <3>2, <3>3
  <2>4. QED
    BY <2>2, <2>3
<1>12. CASE kind = "arp"
  <2>1. r = ArpCall(ZeroEntry, failing)
    BY <1>12 DEF Result
  <2>2. CASE failing = "open"
    <3>1. r = Ended(ZeroEntry, Heap, 0, NewNode)
      BY <1>7, <2>1, <2>2 DEF ArpCall
    <3>2. QED
      BY <1>1, <1>9, <2>2, <3>1
  <2>3. CASE failing = "header"
    <3>1. r = ArpDone(e, Clean({HandleOf(p)}), p, n)
      BY <1>1, <1>2, <1>5, <1>6, <1>7, <1>8, <2>1, <2>3 DEF ArpCall
    <3>2. Ends(ArpDone(e, Clean({HandleOf(p)}), p, n), p)
      BY <1>3, <1>4, <1>12, ArpEnds
    <3>3. Ends(r, p)
      BY <3>1, <3>2
    <3>4. QED
      BY <1>1, <2>3, <3>3 DEF Answers
  <2>4. CASE failing \notin {"open", "header"}
    <3>1. r = ArpRead(e, Clean({HandleOf(p)}), p, n)
      BY <1>1, <1>2, <1>5, <1>6, <1>7, <1>8, <2>1, <2>4 DEF ArpCall
    <3>2. Answers(ArpRead(e, Clean({HandleOf(p)}), p, n), p, n.pos, failing)
      BY <1>3, <1>4, <1>7, <1>12, ArpReads
    <3>3. QED
      BY <1>1, <1>4, <3>1, <3>2
  <2>5. QED
    BY <2>2, <2>3, <2>4
<1>13. kind \in {"inode", "field", "arp"}
  BY KindAssumption DEF TypeInv
<1>14. QED
  BY <1>10, <1>11, <1>12, <1>13

\* What the body of a loop has in its hands.
LEMMA InBody ==
  ASSUME TypeInv, HeapInv, phase = "in"
  PROVE  /\ pass \in Passes /\ pass # 0 /\ entry \in Entries(pass)
         /\ node[pass] \in NodeStates /\ node[pass].pos <= Len(source)
         /\ InLoop(entry, node[pass], pass, live) /\ Heap = Clean(live)
<1>1. pass \in Passes /\ node[pass].pos \in 0 .. Len(source)
      /\ InLoop(entry, node[pass], pass, live) /\ faults = {}
  BY DEF HeapInv
<1>2. node[pass] \in NodeStates /\ Len(source) \in Nat
  BY <1>1 DEF TypeInv
<1>3. entry \in Entries(pass)
  BY <1>1 DEF InLoop
<1>4. QED
  BY <1>1, <1>2, <1>3, PassesAre DEF Heap, Clean

LEMMA ContinueAnswers ==
  ASSUME TypeInv, HeapInv, phase = "in", NEW failing
  PROVE  Answers(Result(entry, failing), pass, node[pass].pos, failing)
<1> DEFINE n == node[pass]
           held == {NodeOf(pass), TextOf(pass), HandleOf(pass)}
<1>1. /\ pass \in Passes /\ pass # 0 /\ entry \in Entries(pass)
      /\ n \in NodeStates /\ n.pos <= Len(source)
      /\ InLoop(entry, n, pass, live) /\ Heap = Clean(live)
  BY InBody
<1>2. entry.this = pass /\ entry.flag = "CON" /\ OldNode(entry) = n
  BY <1>1 DEF Entries, OldNode
<1>3. CASE kind = "inode"
  <2>1. entry.data = DataOf(pass, n.pos) /\ n.buf = entry.data /\ entry.data \in DataRefs
        /\ live = {NodeOf(pass), TextOf(pass), HandleOf(pass), entry.data}
    BY <1>1, <1>3 DEF InLoop, Entries
  <2>2. n.buf \notin held /\ n.buf # NoData
    BY <1>1, <2>1, Names
  <2>3. Use(Heap, NodeOf(pass)) = Clean(live)
    <3>1. NodeOf(pass) \in live
      BY <2>1
    <3>2. QED
      BY <1>1, <3>1, HeapCalls
  <2>4. ReleaseData(Clean(live), n.buf) = Clean(held)
    <3>1. n.buf \in live /\ live \ {n.buf} = held
      BY <2>1, <2>2
    <3>2. ReleaseData(Clean(live), n.buf) = Clean(live \ {n.buf})
      BY <2>2, <3>1, HeapCalls
    <3>3. QED
      BY <3>1, <3>2
  <2>5. PICK e : e = [entry EXCEPT !.data = NoData]
    OBVIOUS
  <2>6. PICK m : m = [n EXCEPT !.buf = NoData]
    OBVIOUS
  <2>7. e \in Entries(pass) /\ m \in NodeStates /\ m.pos = n.pos /\ m.buf = NoData
    BY <1>1, <2>5, <2>6, PassesAre DEF Entries, NodeStates
  <2>8. Result(entry, failing) = InodeCall(entry, failing)
    BY <1>3 DEF Result
  <2>9. InodeCall(entry, failing) = InodeRead(e, Clean(held), pass, m, failing)
    BY <1>2, <2>2, <2>3, <2>4, <2>5, <2>6 DEF InodeCall
  <2>10. Answers(InodeRead(e, Clean(held), pass, m, failing), pass, m.pos, failing)
    BY <1>1, <1>3, <2>7, InodeReads
  <2>11. QED
    BY <2>7, <2>8, <2>9, <2>10
<1>4. CASE kind = "field"
  <2>1. entry.data = DataOf(pass, n.pos) /\ live = {NodeOf(pass), TextOf(pass), entry.data}
    BY <1>1, <1>4 DEF InLoop
  <2>2. Result(entry, failing) = FieldCall(entry, failing)
    BY <1>4 DEF Result
  <2>3. FieldCall(entry, failing) = FieldRead(entry, Clean(live), pass, n, failing)
    BY <1>1, <1>2 DEF FieldCall
  <2>4. Answers(FieldRead(entry, Clean(live), pass, n, failing), pass, n.pos, failing)
    BY <1>1, <1>4, <2>1, FieldReads
  <2>5. QED
    BY <2>2, <2>3, <2>4
<1>5. CASE kind = "arp"
  <2>1. live = {HandleOf(pass)}
    BY <1>1, <1>5 DEF InLoop
  <2>2. Result(entry, failing) = ArpCall(entry, failing)
    BY <1>5 DEF Result
  <2>3. ArpCall(entry, failing) = ArpRead(entry, Clean({HandleOf(pass)}), pass, n)
    BY <1>1, <1>2, <2>1 DEF ArpCall
  <2>4. Answers(ArpRead(entry, Clean({HandleOf(pass)}), pass, n), pass, n.pos, failing)
    BY <1>1, <1>5, ArpReads
  <2>5. QED
    BY <2>2, <2>3, <2>4
<1>6. kind \in {"inode", "field", "arp"}
  BY KindAssumption DEF TypeInv
<1>7. QED
  BY <1>3, <1>4, <1>5, <1>6

LEMMA StopEnds ==
  ASSUME TypeInv, HeapInv, phase = "in"
  PROVE  Ends(Result([entry EXCEPT !.flag = "STOP"], "none"), pass)
<1> DEFINE n == node[pass]
<1>1. /\ pass \in Passes /\ pass # 0 /\ entry \in Entries(pass)
      /\ n \in NodeStates /\ InLoop(entry, n, pass, live) /\ Heap = Clean(live)
  BY InBody
<1>2. PICK e : e = [entry EXCEPT !.flag = "STOP"]
  OBVIOUS
<1>3. e.this = pass /\ e.flag = "STOP" /\ e.data = entry.data /\ OldNode(e) = n
  BY <1>1, <1>2 DEF Entries, OldNode
<1>4. CASE kind = "inode"
  <2>1. n.buf = DataOf(pass, n.pos) /\ live = {NodeOf(pass), TextOf(pass), HandleOf(pass), n.buf}
    BY <1>1, <1>4 DEF InLoop
  <2>2. Ends(InodeStop(Clean(live), pass, n), pass)
    BY <1>1, <1>4, <2>1, InodeStops
  <2>3. Result(e, "none") = InodeStop(Clean(live), pass, n)
    BY <1>1, <1>3, <1>4 DEF Result, InodeCall
  <2>4. QED
    BY <1>2, <2>2, <2>3
<1>5. CASE kind = "field"
  <2>1. e.data = DataOf(pass, n.pos) /\ live = {NodeOf(pass), TextOf(pass), e.data}
    BY <1>1, <1>3, <1>5 DEF InLoop
  <2>2. Ends(FieldDone(e, Clean(live), pass, n), pass)
    BY <1>1, <1>5, <2>1, FieldEnds
  <2>3. Result(e, "none") = FieldDone(e, Clean(live), pass, n)
    BY <1>1, <1>3, <1>5 DEF Result, FieldCall
  <2>4. QED
    BY <1>2, <2>2, <2>3
<1>6. CASE kind = "arp"
  <2>1. live = {HandleOf(pass)}
    BY <1>1, <1>6 DEF InLoop
  <2>2. Ends(ArpDone(e, Clean({HandleOf(pass)}), pass, n), pass)
    BY <1>1, <1>6, ArpEnds
  <2>3. Result(e, "none") = ArpDone(e, Clean({HandleOf(pass)}), pass, n)
    BY <1>1, <1>3, <1>6, <2>1 DEF Result, ArpCall
  <2>4. QED
    BY <1>2, <2>2, <2>3
<1>7. kind \in {"inode", "field", "arp"}
  BY KindAssumption DEF TypeInv
<1>8. QED
  BY <1>4, <1>5, <1>6, <1>7

-----------------------------------------------------------------------------
(***************************************************************************)
(* What a call leaves to the next one.                                     *)
(***************************************************************************)

\* A call that goes on from position from of pass p, or stops there.
CallOf(e, failing, done, stopping, p, from) ==
  /\ p \in Passes /\ (p = pass \/ p = pass + 1)
  /\ from \in 0 .. Len(source)
  /\ done \in Seq(Nat) /\ Handed(done, from)
  /\ \/ ~ stopping /\ Answers(Result(e, failing), p, from, failing)
     \/ stopping /\ Ends(Result(e, failing), p)

LEMMA HandedNext ==
  ASSUME TypeInv, NEW done \in Seq(Nat), NEW from \in 0 .. Len(source), Handed(done, from),
         NextHit(from) # 0
  PROVE  /\ Append(done, NextHit(from)) \in Seq(Nat)
         /\ Handed(Append(done, NextHit(from)), NextHit(from))
<1>1. PICK h : h = NextHit(from)
  OBVIOUS
<1>2. source \in Seq({"hit", "skip"}) /\ Len(source) \in Nat /\ from \in Nat
  BY DEF TypeInv
<1>3. h \in Nat /\ Items(h) = Items(from) \cup {h}
  BY <1>1, <1>2, NextHitIs
<1>4. PICK s : s = Append(done, h)
  OBVIOUS
<1>5. /\ s \in Seq(Nat) /\ Len(s) = Len(done) + 1 /\ Len(done) \in Nat
      /\ \A i \in 1 .. Len(done) : s[i] = done[i]
      /\ s[Len(done) + 1] = h
  BY <1>3, <1>4
<1>6. 1 .. Len(s) = 1 .. Len(done) \cup {Len(done) + 1}
  BY <1>5
<1>7. {s[i] : i \in 1 .. Len(s)} = {done[i] : i \in 1 .. Len(done)} \cup {h}
  BY <1>5, <1>6
<1>8. QED
  BY <1>1, <1>3, <1>4, <1>5, <1>7 DEF Handed

\* What is left for the cursor: the items behind the position reached, of
\* which the next one is the first.
LEMMA LeftIs ==
  ASSUME TypeInv, NEW done \in Seq(Nat), NEW from \in 0 .. Len(source), Handed(done, from)
  PROVE  /\ NextHit(from) = 0 => Abstract!Left(done) = {}
         /\ NextHit(from) # 0 => /\ NextHit(from) \in Abstract!Left(done)
                                 /\ \A j \in Abstract!Left(done) : NextHit(from) <= j
<1>1. source \in Seq({"hit", "skip"}) /\ Len(source) \in Nat /\ from \in Nat
  BY DEF TypeInv
<1>2. Abstract!Left(done) = Items(Len(source)) \ Items(from)
  BY DEF Abstract!Left, Handed
<1>3. CASE NextHit(from) = 0
  BY <1>1, <1>2, <1>3, NextHitIs
<1>4. CASE NextHit(from) # 0
  <2>1. PICK h : h = NextHit(from)
    OBVIOUS
  <2>2. h \in 1 .. Len(source) /\ h > from /\ h \notin Items(from)
        /\ Items(h) = Items(from) \cup {h}
    BY <1>1, <1>4, <2>1, NextHitIs
  <2>3. h \in Items(Len(source))
    BY <2>2 DEF Items
  <2>4. ASSUME NEW j \in Items(Len(source)), j \notin Items(from)
        PROVE  h <= j
    <3>1. j \in Nat /\ j >= 1 /\ source[j] = "hit"
      BY <1>1 DEF Items
    <3>2. j < h => j \in Items(h)
      BY <2>2, <3>1 DEF Items
    <3>3. QED
      BY <2>2, <2>4, <3>1, <3>2
  <2>5. QED
    BY <1>2, <1>4, <2>1, <2>2, <2>3, <2>4
<1>5. QED
  BY <1>3, <1>4

LEMMA InvokeKeeps ==
  ASSUME IInv, NEW e, NEW failing, NEW done, NEW stopping \in BOOLEAN, NEW p, NEW from,
         CallOf(e, failing, done, stopping, p, from), Invoke(e, failing, done, stopping)
  PROVE  IInv'
<1>1. PICK r : r = Result(e, failing)
  OBVIOUS
<1>2. /\ p \in Passes /\ from \in 0 .. Len(source) /\ done \in Seq(Nat) /\ Handed(done, from)
      /\ Serves(r, p, from) \/ Ends(r, p)
      /\ pass' \in 0 .. MaxPasses
  <2>1. pass \in 0 .. MaxPasses /\ p \in Passes /\ p \in 1 .. MaxPasses
        /\ (p = pass \/ p = pass + 1) /\ MaxPasses \in Nat
    BY PassesAre DEF CallOf, IInv, TypeInv, Passes
  <2>2. Serves(r, p, from) \/ Ends(r, p)
    BY <1>1 DEF CallOf, Answers
  <2>3. r.pass \in {0, p}
    BY <2>2 DEF Serves, Ends
  <2>4. pass' = IF r.pass > pass THEN r.pass ELSE pass
    BY <1>1 DEF Invoke
  <2>5. QED
    BY <2>1, <2>2, <2>3, <2>4 DEF CallOf
<1>3. /\ kind' = kind /\ source' = source /\ entry' = r.entry /\ live' = r.heap.live
      /\ faults' = r.heap.faults
      /\ node' = (IF r.pass \in Passes THEN [node EXCEPT ![r.pass] = r.node] ELSE node)
      /\ phase' = (IF r.ret = 0 THEN "in" ELSE "ended")
      /\ served' = (IF r.ret = 0 THEN Append(done, r.node.pos) ELSE done)
  BY <1>1 DEF Invoke
<1>4. r.node \in NodeStates /\ node \in [Passes -> NodeStates] /\ node' \in [Passes -> NodeStates]
  BY <1>2, <1>3 DEF Serves, Ends, IInv, TypeInv
<1>5. CASE Serves(r, p, from)
  <2>1. r.ret = 0 /\ r.pass = p /\ r.node.pos = NextHit(from) /\ NextHit(from) # 0
    BY <1>5 DEF Serves
  <2>2. pass' = p
    BY <1>1, <2>1, PassesAre DEF Invoke, CallOf, IInv, TypeInv
  <2>3. NextHit(from) \in 1 .. Len(source) /\ Len(source) \in Nat
    BY <1>2, <2>1, NextHitIs DEF IInv, TypeInv
  <2>4. PICK s : s = Append(done, NextHit(from))
    OBVIOUS
  <2>5. s \in Seq(Nat) /\ Handed(s, NextHit(from))
    BY <1>2, <2>1, <2>4, HandedNext DEF IInv
  <2>6. served' = s /\ node'[pass'] = r.node /\ phase' = "in"
    BY <1>2, <1>3, <1>4, <2>1, <2>2, <2>4
  <2>7. TypeInv'
    BY <1>2, <1>3, <1>4, <2>5, <2>6 DEF IInv, TypeInv
  <2>8. InLoop(entry, node[pass], pass, live)'
    <3>1. InLoop(r.entry, r.node, p, r.heap.live)
      BY <1>5 DEF Serves
    <3>2. QED
      BY <1>3, <2>2, <2>6, <3>1 DEF InLoop
  <2>9. HeapInv'
    <3>1. faults' = {}
      BY <1>3, <1>5 DEF Serves, Clean
    <3>2. node'[pass'].pos \in 0 .. Len(source')
      BY <1>3, <2>1, <2>3, <2>6
    <3>3. QED
      BY <1>2, <2>2, <2>6, <2>8, <3>1, <3>2 DEF HeapInv
  <2>10. ServedInv'
    <3>1. PICK h : h = NextHit(from)
      OBVIOUS
    <3>2. node'[pass'].pos = h
      BY <2>1, <2>6, <3>1
    <3>3. Items(node[pass].pos)' = Items(h)
      BY <1>3, <3>2 DEF Items
    <3>4. Handed(s, h)
      BY <2>5, <3>1
    <3>5. Handed(served, node[pass].pos)'
      BY <2>6, <3>3, <3>4 DEF Handed
    <3>6. QED
      BY <3>5 DEF ServedInv
  <2>11. QED
    BY <2>7, <2>9, <2>10 DEF IInv
<1>6. CASE Ends(r, p)
  <2>1. r.ret = -1 /\ r.heap = Clean({}) /\ (kind = "inode" => r.entry = ZeroEntry)
    BY <1>6 DEF Ends
  <2>2. served' = done /\ phase' = "ended" /\ live' = {} /\ faults' = {} /\ entry' = r.entry
    BY <1>3, <2>1 DEF Clean
  <2>3. TypeInv'
    BY <1>2, <1>3, <1>4, <2>2 DEF IInv, TypeInv
  <2>4. HeapInv'
    BY <1>3, <2>1, <2>2 DEF HeapInv, ZeroEntry
  <2>5. ServedInv'
    BY <2>2 DEF ServedInv
  <2>6. QED
    BY <2>3, <2>4, <2>5 DEF IInv
<1>7. QED
  BY <1>2, <1>5, <1>6

LEMMA InvokeMaps ==
  ASSUME IInv, NEW e, NEW failing, NEW done, NEW stopping \in BOOLEAN, NEW p, NEW from,
         CallOf(e, failing, done, stopping, p, from), Invoke(e, failing, done, stopping)
  PROVE  /\ Abstract!Serve(done) \/ Abstract!End(done)
         /\ Items(Len(source))' = Items(Len(source))
<1>1. PICK r : r = Result(e, failing)
  OBVIOUS
<1>2. /\ from \in 0 .. Len(source) /\ done \in Seq(Nat) /\ Handed(done, from)
      /\ Serves(r, p, from) \/ Ends(r, p)
  BY <1>1 DEF CallOf, Answers
<1>3. /\ source' = source
      /\ phase' = (IF r.ret = 0 THEN "in" ELSE "ended")
      /\ served' = (IF r.ret = 0 THEN Append(done, r.node.pos) ELSE done)
  BY <1>1 DEF Invoke
<1>4. Items(Len(source))' = Items(Len(source))
  BY <1>3 DEF Items
<1>5. CASE Serves(r, p, from)
  <2>1. r.ret = 0 /\ r.node.pos = NextHit(from) /\ NextHit(from) # 0
    BY <1>5 DEF Serves
  <2>2. NextHit(from) \in Abstract!Left(done)
        /\ \A j \in Abstract!Left(done) : NextHit(from) <= j
    BY <1>2, <2>1, LeftIs DEF IInv
  <2>3. served' = Append(done, NextHit(from)) /\ phase' = "in"
    BY <1>3, <2>1
  <2>4. why' = "none"
    BY <1>1, <2>1 DEF Invoke
  <2>5. Abstract!Serve(done)
    BY <2>2, <2>3, <2>4 DEF Abstract!Serve
  <2>6. QED
    BY <1>4, <2>5
<1>6. CASE Ends(r, p)
  <2>1. r.ret = -1
    BY <1>6 DEF Ends
  <2>2. served' = done /\ phase' = "ended"
    BY <1>3, <2>1
  <2>3. why' \in {"stopped", "failed", "exhausted"}
    BY <1>1, <2>1 DEF Invoke
  <2>4. why' = "exhausted" => Abstract!Left(done) = {}
    <3>1. SUFFICES ASSUME why' = "exhausted" PROVE NextHit(from) = 0
      BY <1>2, LeftIs DEF IInv
    <3>2. ~ stopping /\ failing = "none"
      BY <1>1, <2>1, <3>1 DEF Invoke
    <3>3. Answers(r, p, from, failing)
      BY <1>1, <3>2 DEF CallOf
    <3>4. ~ Serves(r, p, from)
      BY <2>1 DEF Serves
    <3>5. QED
      BY <3>2, <3>3, <3>4 DEF Answers
  <2>5. Abstract!End(done)
    BY <2>2, <2>3, <2>4 DEF Abstract!End
  <2>6. QED
    BY <1>4, <2>5
<1>7. QED
  BY <1>2, <1>5, <1>6

-----------------------------------------------------------------------------
(***************************************************************************)
(* Every step of the caller's loop is such a call.                         *)
(***************************************************************************)
LEMMA NothingHanded == Handed(<<>>, 0)
<1>1. Items(0) = {}
  BY DEF Items
<1>2. {<<>>[i] : i \in 1 .. Len(<<>>)} = {}
  OBVIOUS
<1>3. QED
  BY <1>1, <1>2 DEF Handed

LEMMA BeginIsCall ==
  ASSUME IInv, phase # "in", pass < MaxPasses, NEW failing \in Failures(kind, "START")
  PROVE  CallOf(ZeroEntry, failing, <<>>, FALSE, NewPass, 0)
<1>1. Answers(Result(ZeroEntry, failing), NewPass, 0, failing)
  BY BeginAnswers DEF IInv
<1>2. NewPass \in Passes /\ NewPass = pass + 1
  BY PassesAre DEF IInv, TypeInv, Passes, NewPass
<1>3. 0 \in 0 .. Len(source)
  BY DEF IInv, TypeInv
<1>4. <<>> \in Seq(Nat)
  OBVIOUS
<1>5. QED
  BY <1>1, <1>2, <1>3, <1>4, NothingHanded DEF CallOf

LEMMA AgainIsBegin ==
  ASSUME EntryIsZeroed, IInv, phase = "ended", kind \in CallAfterEnd
  PROVE  entry = ZeroEntry /\ entry.flag = "START"
<1>1. kind = "inode"
  BY DEF EntryIsZeroed
<1>2. QED
  BY <1>1 DEF IInv, HeapInv, ZeroEntry

LEMMA BodyIsAt ==
  ASSUME IInv, phase = "in"
  PROVE  /\ pass \in Passes /\ node[pass].pos \in 0 .. Len(source)
         /\ served \in Seq(Nat) /\ Handed(served, node[pass].pos)
BY DEF IInv, TypeInv, HeapInv, ServedInv

LEMMA ContinueIsCall ==
  ASSUME IInv, phase = "in", NEW failing
  PROVE  CallOf(entry, failing, served, FALSE, pass, node[pass].pos)
<1>1. Answers(Result(entry, failing), pass, node[pass].pos, failing)
  BY ContinueAnswers DEF IInv
<1>2. QED
  BY <1>1, BodyIsAt DEF CallOf

LEMMA StopIsCall ==
  ASSUME IInv, phase = "in"
  PROVE  CallOf([entry EXCEPT !.flag = "STOP"], "none", served, TRUE, pass, node[pass].pos)
<1>1. Ends(Result([entry EXCEPT !.flag = "STOP"], "none"), pass)
  BY StopEnds DEF IInv
<1>2. QED
  BY <1>1, BodyIsAt DEF CallOf

LEMMA InitHolds == Init => IInv
<1> SUFFICES ASSUME Init PROVE IInv
  OBVIOUS
<1>1. PICK n \in 0 .. MaxItems : source \in [1 .. n -> {"hit", "skip"}]
  BY DEF Init
<1>2. source \in Seq({"hit", "skip"}) /\ Len(source) = n /\ n <= MaxItems
  BY <1>1, PassesAre
<1>3. TypeInv
  <2>1. [pos |-> 0, buf |-> NoData] \in NodeStates
    BY PassesAre DEF NodeStates
  <2>2. node \in [Passes -> NodeStates]
    BY <2>1 DEF Init
  <2>3. pass \in 0 .. MaxPasses
    BY PassesAre DEF Init
  <2>4. QED
    BY <1>2, <2>2, <2>3 DEF Init, TypeInv
<1>4. HeapInv
  BY DEF Init, HeapInv
<1>5. ServedInv
  BY DEF Init, ServedInv
<1>6. QED
  BY <1>3, <1>4, <1>5 DEF IInv

\* A step keeps the invariant and is a step of the cursor.
LEMMA StepIs ==
  ASSUME EntryIsZeroed, IInv, Next
  PROVE  IInv' /\ Abstract!Next
<1>1. ASSUME NEW failing \in Failures(kind, "START"), phase # "in", pass < MaxPasses,
             Invoke(ZeroEntry, failing, <<>>, FALSE)
      PROVE  IInv' /\ Abstract!Begin
  <2>1. CallOf(ZeroEntry, failing, <<>>, FALSE, NewPass, 0)
    BY <1>1, BeginIsCall
  <2>2. IInv'
    BY <1>1, <2>1, InvokeKeeps
  <2>3. /\ Abstract!Serve(<<>>) \/ Abstract!End(<<>>)
        /\ Items(Len(source))' = Items(Len(source))
    BY <1>1, <2>1, InvokeMaps
  <2>4. QED
    BY <1>1, <2>2, <2>3 DEF Abstract!Begin
<1>2. ASSUME NEW e, NEW failing, NEW stopping \in BOOLEAN, phase = "in",
             CallOf(e, failing, served, stopping, pass, node[pass].pos),
             Invoke(e, failing, served, stopping)
      PROVE  IInv' /\ Abstract!Continue
  <2>1. IInv'
    BY <1>2, InvokeKeeps
  <2>2. /\ Abstract!Serve(served) \/ Abstract!End(served)
        /\ Items(Len(source))' = Items(Len(source))
    BY <1>2, InvokeMaps
  <2>3. QED
    BY <1>2, <2>1, <2>2 DEF Abstract!Continue
<1>3. ASSUME NEW failing \in Failures(kind, "START"), BeginLoop(failing)
      PROVE  IInv' /\ Abstract!Next
  BY <1>1, <1>3 DEF BeginLoop, Abstract!Next
<1>4. ASSUME NEW failing \in Failures(kind, entry.flag), Continue(failing)
      PROVE  IInv' /\ Abstract!Next
  <2>1. phase = "in" /\ Invoke(entry, failing, served, FALSE)
    BY <1>4 DEF Continue
  <2>2. CallOf(entry, failing, served, FALSE, pass, node[pass].pos)
    BY <2>1, ContinueIsCall
  <2>3. QED
    BY <1>2, <2>1, <2>2 DEF Abstract!Next
<1>5. ASSUME StopLoop
      PROVE  IInv' /\ Abstract!Next
  <2>1. phase = "in" /\ Invoke([entry EXCEPT !.flag = "STOP"], "none", served, TRUE)
    BY <1>5 DEF StopLoop
  <2>2. CallOf([entry EXCEPT !.flag = "STOP"], "none", served, TRUE, pass, node[pass].pos)
    BY <2>1, StopIsCall
  <2>3. QED
    BY <1>2, <2>1, <2>2 DEF Abstract!Next
<1>6. ASSUME NEW failing \in Failures(kind, entry.flag), CallAgain(failing)
      PROVE  IInv' /\ Abstract!Next
  <2>1. phase = "ended" /\ kind \in CallAfterEnd /\ pass < MaxPasses
        /\ Invoke(entry, failing, <<>>, FALSE)
    BY <1>6 DEF CallAgain
  <2>2. entry = ZeroEntry /\ entry.flag = "START"
    BY <2>1, AgainIsBegin
  <2>3. QED
    BY <1>1, <1>6, <2>1, <2>2 DEF Abstract!Next
<1>7. QED
  BY <1>3, <1>4, <1>5, <1>6 DEF Next

LEMMA StutterKeeps ==
  ASSUME IInv, UNCHANGED vars
  PROVE  IInv'
<1>1. TypeInv'
  BY DEF IInv, TypeInv, vars
<1>2. HeapInv'
  BY DEF IInv, HeapInv, InLoop, vars
<1>3. ServedInv'
  BY DEF IInv, ServedInv, Handed, Items, vars
<1>4. QED
  BY <1>1, <1>2, <1>3 DEF IInv

LEMMA Invariance ==
  ASSUME EntryIsZeroed
  PROVE  Spec => []IInv
<1>1. IInv /\ [Next]_vars => IInv'
  BY StepIs, StutterKeeps
<1>2. QED
  BY <1>1, InitHolds, PTL DEF Spec

-----------------------------------------------------------------------------
(***************************************************************************)
(* No iterator frees a block twice, touches a freed node or a closed       *)
(* handle or dereferences NULL, and the loop body finds the live buffer of *)
(* its item: for sources of any length, any number of passes over one      *)
(* entry, early stops and whatever allocation fails.                       *)
(***************************************************************************)
THEOREM NoBadAccess ==
  ASSUME EntryIsZeroed
  PROVE  Spec => []MemorySafe
<1>1. IInv => MemorySafe
  <2> SUFFICES ASSUME IInv PROVE MemorySafe
    OBVIOUS
  <2>1. faults = {}
    BY DEF IInv, HeapInv
  <2>2. ASSUME phase = "in", kind # "arp"
        PROVE  /\ entry.data = DataOf(entry.this, node[entry.this].pos)
               /\ live \cap DataRefs = {entry.data}
    <3>1. /\ pass # 0 /\ entry \in Entries(pass) /\ InLoop(entry, node[pass], pass, live)
      BY <2>2, InBody DEF IInv
    <3>2. entry.this = pass /\ entry.data \in DataRefs
      BY <3>1 DEF Entries
    <3>3. kind \in {"inode", "field"}
      BY <2>2, KindAssumption DEF IInv, TypeInv
    <3>4. entry.data = DataOf(pass, node[pass].pos)
      BY <3>1, <3>3 DEF InLoop
    <3>5. /\ entry.data \in live
          /\ live \subseteq {NodeOf(pass), TextOf(pass), HandleOf(pass), entry.data}
      BY <3>1, <3>3 DEF InLoop
    <3>6. {NodeOf(pass), TextOf(pass), HandleOf(pass)} \cap DataRefs = {}
      BY DEF NodeOf, TextOf, HandleOf, DataRefs, DataOf, NoData
    <3>7. live \cap DataRefs = {entry.data}
      BY <3>2, <3>5, <3>6
    <3>8. QED
      BY <3>2, <3>4, <3>7
  <2>3. QED
    BY <2>1, <2>2 DEF MemorySafe
<1>2. QED
  BY <1>1, Invariance, PTL

(***************************************************************************)
(* After a -1, for whatever reason, an iterator holds nothing: none of its *)
(* blocks and handles is left for a caller who cannot reach them.          *)
(***************************************************************************)
THEOREM AllReleased ==
  ASSUME EntryIsZeroed
  PROVE  Spec => []NothingLeaks
<1>1. IInv => NothingLeaks
  BY DEF IInv, HeapInv, NothingLeaks
<1>2. QED
  BY <1>1, Invariance, PTL

(***************************************************************************)
(* general_foreach_inode_entry, gen_foreach_field and                      *)
(* fcp_foreach_comm_arp implement Cursor: whatever memory they keep and    *)
(* whatever fails, the caller's loop gets with every call the first item   *)
(* it has not had, and a pass that is not cut short hands out all of them. *)
(***************************************************************************)
THEOREM RefinesCursor ==
  ASSUME EntryIsZeroed
  PROVE  Spec => ImplementsCursor
<1>1. Init => Abstract!Init
  <2> SUFFICES ASSUME Init PROVE Abstract!Init
    OBVIOUS
  <2>1. Len(source) \in Nat /\ Len(source) <= MaxItems
    BY InitHolds DEF IInv, TypeInv
  <2>2. Items(Len(source)) \in SUBSET (1 .. MaxItems)
    BY <2>1, PassesAre DEF Items
  <2>3. QED
    BY <2>2 DEF Init, Abstract!Init
<1>2. IInv /\ [Next]_vars => [Abstract!Next]_(Abstract!vars)
  <2>1. UNCHANGED vars => UNCHANGED Abstract!vars
    BY DEF vars, Abstract!vars, Items
  <2>2. QED
    BY <2>1, StepIs
<1>3. QED
  BY <1>1, <1>2, Invariance, PTL DEF Spec, ImplementsCursor, Abstract!Spec
=============================================================================
