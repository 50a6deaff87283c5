------------------------------- MODULE Logins -------------------------------
(***************************************************************************)
(* os_info_logout_tty (fcp_os.c): reads the login records of wtmp into a   *)
(* list of list.h and pairs each login with the first later logout on its  *)
(* terminal, reporting the pair to the caller's callback.  Nodes are taken *)
(* out of the list and freed while it is being walked, so the model keeps  *)
(* the pointers of the list and the set of nodes that are allocated.       *)
(*                                                                         *)
(* A record is named by its place in the file; the node made for it has    *)
(* the same name.  A field of the file that is neither compared nor        *)
(* assigned (user, host) is left out.                                      *)
(***************************************************************************)
EXTENDS LinkedList, FiniteSets

CONSTANTS
  Ttys,        \* names of terminals
  MaxTime,     \* time stamps are 1 .. MaxTime, several records may share one
  MaxRecords,  \* bound on the length of wtmp
  MaxFailures  \* bound on failing allocations

ASSUME BoundAssumption ==
  MaxTime \in Nat /\ MaxRecords \in Nat /\ MaxFailures \in Nat

\* USER_PROCESS, DEAD_PROCESS, and all others in one.
Records ==
  [type : {"USER", "DEAD"}, tty : Ttys, time : 1 .. MaxTime]
  \cup [type : {"OTHER"}, tty : {CHOOSE t \in Ttys : TRUE}, time : {1}]

Anchor == 0                     \* tmphead, on the stack
Nodes == 1 .. MaxRecords

VARIABLES
  wtmp,      \* the records of the file
  read,      \* how many fread has returned
  m,         \* the pointers of tmphead and of every node
  heap,      \* nodes that are allocated
  pc,        \* "open", "load", "pop", "scan", "exit", "free", "done"
  pNode,     \* the login taken from the list
  pos, next, \* the variables of list_for_each_safe
  reports,   \* history: pairs of a login and a logout, as reported
  failures,  \* history: allocations that failed
  aborted,   \* history: the callback returned a negative number
  faults,    \* "use after free" once something freed was used or freed
  ret        \* what the function returned

vars == <<wtmp, read, m, heap, pc, pNode, pos, next, reports, failures, aborted, faults, ret>>

Init ==
  /\ wtmp \in UNION {[1 .. n -> Records] : n \in 0 .. MaxRecords}
  /\ read = 0
  /\ m = InitHead([c \in {Anchor} \cup Nodes |-> [prev |-> c, next |-> c]], Anchor)
  /\ heap = {}
  /\ pc = "open"
  /\ pNode = Anchor /\ pos = Anchor /\ next = Anchor
  /\ reports = <<>>
  /\ failures = {}
  /\ aborted = FALSE
  /\ faults = {}
  /\ ret = "none"

-----------------------------------------------------------------------------
\* What is dereferenced must be allocated or be the list's head.
Touch(ps) ==
  faults' = IF ps \subseteq heap \cup {Anchor} THEN faults ELSE faults \cup {"use after free"}

Goto(step) == pc' = step

\* fopen fails and init_login_list returns -1.
Open ==
  /\ pc = "open"
  /\ \/ Goto("load") /\ UNCHANGED ret
     \/ Goto("done") /\ ret' = "-1"
  /\ UNCHANGED <<wtmp, read, m, heap, pNode, pos, next, reports, failures, aborted, faults>>

\* One fread of init_login_list; the file has ended otherwise.
Load ==
  /\ pc = "load"
  /\ IF read = Len(wtmp)
     THEN Goto("pop") /\ UNCHANGED <<read, m, heap, failures, faults>>
     ELSE LET r == read + 1 IN
          /\ read' = r
          /\ \/ /\ wtmp[r].type = "OTHER"
                /\ UNCHANGED <<m, heap, failures, faults>>
             \/ /\ wtmp[r].type # "OTHER"
                /\ heap' = heap \cup {r}
                /\ m' = ListAddTail(m, r, Anchor)
                /\ Touch({m[Anchor].prev})
                /\ UNCHANGED failures
             \/ \* malloc fails, the record is skipped
                /\ wtmp[r].type # "OTHER"
                /\ Cardinality(failures) < MaxFailures
                /\ failures' = failures \cup {r}
                /\ UNCHANGED <<m, heap, faults>>
          /\ UNCHANGED pc
  /\ UNCHANGED <<wtmp, pNode, pos, next, reports, aborted, ret>>

\* Mutant: nodes that are no login are not freed.
PopKeeps(x) == heap

PopFree(x) == IF wtmp[x].type # "USER" THEN heap \ {x} ELSE heap

\* Mutant: list_front instead of list_pop_front.
TakeNot(x) == m

Take(x) == ListDel(m, x)

\* list_pop_front; the scan begins with a login, a logout is freed.
Pop ==
  /\ pc = "pop"
  /\ IF ListEmpty(m, Anchor)
     THEN Goto("exit") /\ UNCHANGED <<m, heap, pNode, pos, next, faults>>
     ELSE LET x == ListFront(m, Anchor) IN
          /\ m' = Take(x)
          /\ Touch({x, m[x].next})
          /\ heap' = PopFree(x)
          /\ IF wtmp[x].type = "USER"
             THEN /\ Goto("scan")
                  /\ pNode' = x
                  /\ pos' = m'[Anchor].next
                  /\ next' = m'[pos'].next
             ELSE UNCHANGED <<pc, pNode, pos, next>>
  /\ UNCHANGED <<wtmp, read, reports, failures, aborted, ret>>

-----------------------------------------------------------------------------
\* Mutant: the time stamps are not compared.
MatchesAnyTime(in, out) == wtmp[out].type = "DEAD" /\ wtmp[out].tty = wtmp[in].tty

\* Mutant: the names of the terminals are not compared.
MatchesAnyTty(in, out) == wtmp[out].type = "DEAD" /\ wtmp[in].time <= wtmp[out].time

Matches(in, out) ==
  wtmp[out].type = "DEAD" /\ wtmp[out].tty = wtmp[in].tty /\ wtmp[in].time <= wtmp[out].time

\* Mutant: the reported logout stays in the list.
UnlinkNot(out) == m

Unlink(out) == ListDel(m, out)

FreePair(in, out) == heap \ {in, out}

\* One iteration: list_for_each_safe has read next before the body runs.
Scan ==
  /\ pc = "scan"
  /\ \/ /\ pos = Anchor
        /\ Goto("pop")      \* no logout for pNode, which nobody frees
        /\ UNCHANGED <<m, heap, pos, next, reports, aborted, faults>>
     \/ /\ pos # Anchor /\ ~Matches(pNode, pos)
        /\ pos' = next
        /\ next' = m[next].next
        /\ Touch({pos, next})
        /\ UNCHANGED <<pc, m, heap, reports, aborted>>
     \/ /\ pos # Anchor /\ Matches(pNode, pos)
        /\ reports' = Append(reports, <<pNode, pos>>)
        /\ Touch({pNode, pos, m[pos].prev, m[pos].next})
        /\ \/ /\ aborted' = TRUE
              /\ Goto("exit")
              /\ UNCHANGED <<m, heap>>
           \/ /\ m' = Unlink(pos)
              /\ heap' = FreePair(pNode, pos)
              /\ Goto("pop")
              /\ UNCHANGED aborted
        /\ UNCHANGED <<pos, next>>
  /\ UNCHANGED <<wtmp, read, pNode, failures, ret>>

\* exit_login_list with list_for_each_safe, and the return.
Exit ==
  /\ pc = "exit"
  /\ Goto("free")
  /\ pos' = m[Anchor].next
  /\ next' = m[pos'].next
  /\ Touch({pos'})
  /\ UNCHANGED <<wtmp, read, m, heap, pNode, reports, failures, aborted, ret>>

Free ==
  /\ pc = "free"
  /\ IF pos = Anchor
     THEN Goto("done") /\ ret' = "0" /\ UNCHANGED <<m, heap, pos, next, faults>>
     ELSE /\ m' = ListDel(m, pos)
          /\ heap' = heap \ {pos}
          /\ Touch({pos, m[pos].prev, next})
          /\ pos' = next
          /\ next' = m'[next].next
          /\ UNCHANGED <<pc, ret>>
  /\ UNCHANGED <<wtmp, read, pNode, reports, failures, aborted>>

Next == Open \/ Load \/ Pop \/ Scan \/ Exit \/ Free

Spec == Init /\ [][Next]_vars

FairSpec == Spec /\ WF_vars(Next)

-----------------------------------------------------------------------------
(***************************************************************************)
(* Nodes are unlinked and freed while the list is walked by two nested     *)
(* loops: nothing freed is followed, compared, reported or freed again.    *)
(***************************************************************************)
MemorySafe == faults = {}

Loaded(type) == {r \in 1 .. read : r \notin failures /\ wtmp[r].type = type}
LoginsReported == {reports[i][1] : i \in DOMAIN reports}
LastLogin == reports[Len(reports)][1]

(***************************************************************************)
(* What the function leaves allocated when it returns: the logins for      *)
(* which it found no logout, and the one whose callback ended the loop.    *)
(* Everything else is freed, on every path.                                *)
(***************************************************************************)
OnlyUnmatchedLeak ==
  pc = "done" =>
    heap = {x \in Loaded("USER") \ LoginsReported : aborted => x < LastLogin}
           \cup (IF aborted THEN {LastLogin} ELSE {})

\* j is a logout that may belong to login i: same terminal, later in the file
\* and not earlier in time.
MayEnd(i, j) ==
  i < j /\ wtmp[i].tty = wtmp[j].tty /\ wtmp[i].time <= wtmp[j].time

TakenBefore(i, j) == \E k \in DOMAIN reports : reports[k][1] < i /\ reports[k][2] = j

(***************************************************************************)
(* The two loops over a shrinking list compute this pairing: every login   *)
(* gets the first logout that may end it and that no earlier login got,    *)
(* and is reported exactly if there is one; the callback sees logins in    *)
(* the order of the file, each once.                                       *)
(***************************************************************************)
FirstFreeLogout ==
  /\ \A k, l \in DOMAIN reports : k < l => reports[k][1] < reports[l][1] /\ reports[k][2] # reports[l][2]
  /\ pc = "done" /\ ret = "0" =>
       \A i \in Loaded("USER") : (aborted => i <= LastLogin) =>
         LET mayEnd == {j \in Loaded("DEAD") : MayEnd(i, j) /\ ~TakenBefore(i, j)} IN
         IF mayEnd = {} THEN i \notin LoginsReported
         ELSE \E k \in DOMAIN reports :
                reports[k] = <<i, CHOOSE j \in mayEnd : \A h \in mayEnd : j <= h>>

-----------------------------------------------------------------------------
\* Two records of one terminal with none of that terminal between them.
Adjacent(i, j) ==
  /\ i < j /\ {i, j} \subseteq Loaded("USER") \cup Loaded("DEAD")
  /\ wtmp[i].tty = wtmp[j].tty
  /\ \A k \in Loaded("USER") \cup Loaded("DEAD") :
       i < k /\ k < j => wtmp[k].tty # wtmp[i].tty

\* A login and the logout that ended it.
Session(i, j) == Adjacent(i, j) /\ wtmp[i].type = "USER" /\ wtmp[j].type = "DEAD"

Chronological ==
  \A i, j \in Loaded("USER") \cup Loaded("DEAD") : i <= j => wtmp[i].time <= wtmp[j].time

\* No login is followed by another one on its terminal.
EverySessionEnds == \A i, j \in Nodes : Adjacent(i, j) => wtmp[i].type = "DEAD" \/ wtmp[j].type = "DEAD"

FoundAll == pc = "done" /\ ret = "0" /\ ~aborted /\ failures = {} /\ Chronological

(***************************************************************************)
(* os_info_logout_tty reports the sessions that have ended: in a           *)
(* chronological file in which every session but the last of a terminal    *)
(* ends with a logout, exactly each of them, with its own logout.          *)
(***************************************************************************)
SessionsReported ==
  FoundAll /\ EverySessionEnds =>
    \A i, j \in Nodes : Session(i, j) <=> \E k \in DOMAIN reports : reports[k] = <<i, j>>

\* Both loops and the freeing of the list come to an end.
Returns == <>(pc = "done")
=============================================================================
