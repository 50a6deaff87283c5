------------------------------- MODULE Foreach -------------------------------
(***************************************************************************)
(* The three iterators of libmyfcp over a caller-owned struct fcp_one_item *)
(* (this, data, flag): directory entries (general_foreach_inode_entry),    *)
(* fields of a line (gen_foreach_field) and lines of the ARP table         *)
(* (fcp_foreach_comm_arp).  The entry is all that survives between two     *)
(* calls, so which heap blocks and handles are live, and whether a second  *)
(* call may still touch them, depends on what the last call left in it.    *)
(*                                                                         *)
(* A call is one step: the library starts no thread and the entry belongs  *)
(* to its caller.  Any allocation or open in it may fail.                  *)
(***************************************************************************)
EXTENDS Integers, Sequences

CONSTANTS
  Kinds,         \* iterators in use, among "inode", "field", "arp"
  CallAfterEnd,  \* iterators whose callers may call again after a -1
  MaxItems,      \* bound on the length of what is iterated over
  MaxPasses      \* bound on the number of passes an entry is used for

ASSUME KindAssumption ==
  Kinds \subseteq {"inode", "field", "arp"} /\ CallAfterEnd \subseteq Kinds
ASSUME BoundAssumption == MaxItems \in Nat /\ MaxPasses \in Nat \ {0}

Flags == {"START", "CON", "STOP"}

\* What may fail in a call: allocations, opens, and the ARP table's header line.
Failures(k, flag) ==
  {"none"} \cup
  CASE k = "inode" -> IF flag = "START" THEN {"node", "text", "open", "data"} ELSE {"data"}
    [] k = "field" -> IF flag = "START" THEN {"node", "text", "data"} ELSE {"data"}
    [] k = "arp" -> IF flag = "START" THEN {"open", "header"} ELSE {}

(***************************************************************************)
(* A resource is named by the pass that acquired it: the node malloc'ed by *)
(* START, the copy of the path or line (text), the directory or file       *)
(* handle, and one data buffer per item.  0 stands for NULL.               *)
(***************************************************************************)
Passes == 1 .. MaxPasses
NodeOf(p) == <<p, "node", 0>>
TextOf(p) == <<p, "text", 0>>
HandleOf(p) == <<p, "handle", 0>>
DataOf(p, j) == <<p, "data", j>>
NoData == <<0, "data", 0>>
DataRefs == {NoData} \cup {DataOf(p, j) : p \in Passes, j \in 1 .. MaxItems}
Resources == DataRefs \cup UNION {{NodeOf(p), TextOf(p), HandleOf(p)} : p \in Passes}

VARIABLES
  kind,     \* which iterator works on this entry
  source,   \* what it iterates over: "hit" is handed out, "skip" passed over
  entry,    \* the caller's struct fcp_one_item
  node,     \* per pass: position reached, and the buffer the node points to
  live,     \* resources acquired and not released
  faults,   \* "double free", "use after free", "null" once they happened
  pass,     \* number of passes begun
  phase,    \* where the caller is: "out" of the loop, "in" its body, "ended"
  served,   \* history: positions handed out in the current pass
  why       \* history: how the last pass ended

vars == <<kind, source, entry, node, live, faults, pass, phase, served, why>>

ZeroEntry == [this |-> 0, data |-> NoData, flag |-> "START"]

Init ==
  /\ kind \in Kinds
  /\ source \in UNION {[1 .. n -> {"hit", "skip"}] : n \in 0 .. MaxItems}
  /\ entry = ZeroEntry
  /\ node = [p \in Passes |-> [pos |-> 0, buf |-> NoData]]
  /\ live = {}
  /\ faults = {}
  /\ pass = 0
  /\ phase = "out"
  /\ served = <<>>
  /\ why = "none"

-----------------------------------------------------------------------------
(***************************************************************************)
(* The heap: a pair of live resources and faults, threaded through a call. *)
(***************************************************************************)
Heap == [live |-> live, faults |-> faults]

Acquire(h, rs) == [h EXCEPT !.live = @ \cup rs]

\* free and fclose of something already released.
Release(h, r) ==
  IF r \in h.live THEN [h EXCEPT !.live = @ \ {r}]
                  ELSE [h EXCEPT !.faults = @ \cup {"double free"}]

\* free(NULL) and the tests around free.
ReleaseData(h, d) == IF d = NoData THEN h ELSE Release(h, d)

\* Dereferencing what entry->this points to; a resource of pass 0 is NULL.
Use(h, r) ==
  IF r \in h.live THEN h
  ELSE [h EXCEPT !.faults = @ \cup {IF r[1] = 0 THEN "null" ELSE "use after free"}]

\* Mutant: the last entry is never looked at.
NextHitMissesLast(pos) ==
  LET after == {j \in pos + 1 .. Len(source) - 1 : source[j] = "hit"} IN
  IF after = {} THEN 0 ELSE CHOOSE j \in after : \A k \in after : j <= k

\* Position of the next item after pos, 0 when there is none: the next entry of
\* the wanted type, the next piece of the line (found character by character in
\* Strings!gen_foreach_field), the next line of the table.
NextHit(pos) ==
  LET after == {j \in pos + 1 .. Len(source) : source[j] = "hit"} IN
  IF after = {} THEN 0 ELSE CHOOSE j \in after : \A k \in after : j <= k

(***************************************************************************)
(* The result of a call: return code, entry and heap left, node of the     *)
(* pass, position of the item handed out.                                  *)
(***************************************************************************)
Item(e, h, p, n) == [ret |-> 0, entry |-> e, heap |-> h, pass |-> p, node |-> n]
Ended(e, h, p, n) == [ret |-> -1, entry |-> e, heap |-> h, pass |-> p, node |-> n]

NewPass == pass + 1
NewNode == [pos |-> 0, buf |-> NoData]
OldNode(e) == IF e.this = 0 THEN NewNode ELSE node[e.this]

(***************************************************************************)
(* general_foreach_inode_entry                                             *)
(***************************************************************************)

\* Mutant: the entry keeps this and flag when the loop ends.
InodeStopKeepsEntry(h, p, n) ==
  Ended([entry EXCEPT !.data = NoData],
        Release(Release(Release(ReleaseData(Use(h, NodeOf(p)), n.buf),
          TextOf(p)), HandleOf(p)), NodeOf(p)), p, n)

\* The label stopread: everything is released and the entry zeroed.
InodeStop(h, p, n) ==
  LET used == Use(h, NodeOf(p))
      bare == IF p = 0 THEN used
              ELSE Release(Release(Release(ReleaseData(used, n.buf),
                     TextOf(p)), HandleOf(p)), NodeOf(p))
  IN Ended(ZeroEntry, bare, p, n)

\* From the readdir loop on.
InodeRead(e, h, p, n, failing) ==
  LET hit == NextHit(n.pos) IN
  IF hit = 0 \/ failing = "data" THEN InodeStop(h, p, n)
  ELSE Item([e EXCEPT !.data = DataOf(p, hit)], Acquire(h, {DataOf(p, hit)}), p,
            [pos |-> hit, buf |-> DataOf(p, hit)])

InodeCall(e, failing) ==
  CASE e.flag = "START" /\ failing \in {"node", "text", "open"} ->
         Ended(e, Heap, 0, NewNode)
    [] e.flag = "START" /\ failing \notin {"node", "text", "open"} ->
         InodeRead([e EXCEPT !.this = NewPass, !.flag = "CON"],
                   Acquire(Heap, {NodeOf(NewPass), TextOf(NewPass), HandleOf(NewPass)}),
                   NewPass, NewNode, failing)
    [] e.flag = "CON" ->
         LET n == OldNode(e)
             h == ReleaseData(Use(Heap, NodeOf(e.this)), n.buf)
         IN InodeRead(IF n.buf = NoData THEN e ELSE [e EXCEPT !.data = NoData],
                      h, e.this, [n EXCEPT !.buf = NoData], failing)
    [] e.flag = "STOP" -> InodeStop(Heap, e.this, OldNode(e))

(***************************************************************************)
(* gen_foreach_field                                                       *)
(***************************************************************************)

\* The label done: this becomes NULL, data is freed but not cleared, and the
\* flag stays as it is.
FieldDone(e, h, p, n) ==
  LET bare == IF p = 0 THEN h
              ELSE Release(Release(Use(h, NodeOf(p)), TextOf(p)), NodeOf(p))
  IN Ended([e EXCEPT !.this = 0], ReleaseData(bare, e.data), p, n)

FieldRead(e, h, p, n, failing) ==
  LET hit == NextHit(n.pos)
      used == Use(h, NodeOf(p))
  IN IF hit = 0 THEN FieldDone(e, used, p, n)
     ELSE IF failing = "data"
       THEN FieldDone([e EXCEPT !.data = NoData], ReleaseData(used, e.data), p, n)
     ELSE Item([e EXCEPT !.data = DataOf(p, hit)],
               Acquire(ReleaseData(used, e.data), {DataOf(p, hit)}), p,
               [n EXCEPT !.pos = hit])

FieldCall(e, failing) ==
  CASE e.flag = "START" /\ failing \in {"node", "text"} -> Ended(e, Heap, 0, NewNode)
    [] e.flag = "START" /\ failing \notin {"node", "text"} ->
         FieldRead([e EXCEPT !.this = NewPass, !.flag = "CON"],
                   Acquire(Heap, {NodeOf(NewPass), TextOf(NewPass)}),
                   NewPass, NewNode, failing)
    [] e.flag = "CON" /\ e.this # 0 -> FieldRead(e, Heap, e.this, OldNode(e), failing)
    [] OTHER -> FieldDone(e, Heap, e.this, OldNode(e))

(***************************************************************************)
(* fcp_foreach_comm_arp; entry->this is the FILE, items are copied into    *)
(* the entry.                                                              *)
(***************************************************************************)

\* Mutant: the file stays open.
ArpDoneOpen(e, h, p, n) == Ended(e, h, p, n)

\* The label done: the file is closed, the entry keeps pointing to it.
ArpDone(e, h, p, n) ==
  Ended(e, IF p = 0 THEN h ELSE Release(h, HandleOf(p)), p, n)

ArpRead(e, h, p, n) ==
  LET hit == NextHit(n.pos)
      used == Use(h, HandleOf(p))
  IN IF hit = 0 THEN ArpDone(e, used, p, n) ELSE Item(e, used, p, [n EXCEPT !.pos = hit])

ArpCall(e, failing) ==
  CASE e.flag = "START" /\ failing = "open" -> Ended(e, Heap, 0, NewNode)
    [] e.flag = "START" /\ failing # "open" ->
         LET opened == [e EXCEPT !.this = NewPass, !.flag = "CON"]
             h == Acquire(Heap, {HandleOf(NewPass)})
         IN IF failing = "header" THEN ArpDone(opened, h, NewPass, NewNode)
            ELSE ArpRead(opened, h, NewPass, NewNode)
    [] e.flag = "CON" /\ e.this # 0 -> ArpRead(e, Heap, e.this, OldNode(e))
    [] OTHER -> ArpDone(e, Heap, e.this, OldNode(e))

-----------------------------------------------------------------------------
(***************************************************************************)
(* The caller's loop: while( foreach(..., entry) == 0 ) body.              *)
(***************************************************************************)
Result(e, failing) ==
  CASE kind = "inode" -> InodeCall(e, failing)
    [] kind = "field" -> FieldCall(e, failing)
    [] kind = "arp" -> ArpCall(e, failing)

\* A call with entry e of a pass that has served the positions in done.
Invoke(e, failing, done, stopping) ==
  LET r == Result(e, failing) IN
  /\ entry' = r.entry
  /\ live' = r.heap.live
  /\ faults' = r.heap.faults
  /\ node' = IF r.pass \in Passes THEN [node EXCEPT ![r.pass] = r.node] ELSE node
  /\ pass' = IF r.pass > pass THEN r.pass ELSE pass
  /\ phase' = IF r.ret = 0 THEN "in" ELSE "ended"
  /\ served' = IF r.ret = 0 THEN Append(done, r.node.pos) ELSE done
  /\ why' = CASE r.ret = 0 -> "none"
              [] r.ret # 0 /\ stopping -> "stopped"
              [] r.ret # 0 /\ ~ stopping /\ failing # "none" -> "failed"
              [] OTHER -> "exhausted"
  /\ UNCHANGED <<kind, source>>

\* The macros foreach_dir_entry, foreach_regfile_entry and foreach_line_field,
\* or a fresh entry {0}: the entry is zeroed and the first item asked for.
BeginLoop(failing) ==
  /\ phase # "in"
  /\ pass < MaxPasses
  /\ Invoke(ZeroEntry, failing, <<>>, FALSE)

\* The loop goes on, as in process_cpu_mtime.
Continue(failing) ==
  /\ phase = "in"
  /\ Invoke(entry, failing, served, FALSE)

\* The body wants out: flag = LOOP_TYPE_STOP, then one more call, as in
\* general_find_proc_pid when the callback returns non-zero.
StopLoop ==
  /\ phase = "in"
  /\ Invoke([entry EXCEPT !.flag = "STOP"], "none", served, TRUE)

\* A call on an entry whose loop has ended, without zeroing it.
CallAgain(failing) ==
  /\ phase = "ended"
  /\ kind \in CallAfterEnd
  /\ pass < MaxPasses
  /\ Invoke(entry, failing, <<>>, FALSE)

Next ==
  \/ \E failing \in Failures(kind, "START") : BeginLoop(failing)
  \/ \E failing \in Failures(kind, entry.flag) : Continue(failing)
  \/ StopLoop
  \/ \E failing \in Failures(kind, entry.flag) : CallAgain(failing)

Spec == Init /\ [][Next]_vars

-----------------------------------------------------------------------------
\* No sequence of passes, early stops, failed allocations and, for the
\* iterators that allow it, calls after the end frees a block twice, touches a
\* freed node or a closed handle, or dereferences NULL; and in the loop body the
\* item handed out is the live buffer of the position the node has reached, the
\* only item buffer left.
MemorySafe ==
  /\ faults = {}
  /\ phase = "in" /\ kind # "arp" =>
       /\ entry.data = DataOf(entry.this, node[entry.this].pos)
       /\ live \cap DataRefs = {entry.data}

\* Whenever a call has returned -1, for whatever reason, everything acquired
\* since the first call has been released.
NothingLeaks == phase # "in" => live = {}

\* The positions up to which an item is found.
Items(upto) == {j \in 1 .. upto : source[j] = "hit"}

Abstract == INSTANCE Cursor WITH items <- Items(Len(source))

\* An iterator is a cursor over the items, whatever memory it keeps: with every
\* call its caller gets the first item it has not had in this pass, none twice
\* and none passed over, and a pass that nobody stopped and in which nothing
\* failed ends only when all items have been handed out.
ImplementsCursor == Abstract!Spec
=============================================================================
