------------------------------- MODULE NetInfo -------------------------------
(***************************************************************************)
(* com_foreach_net_info (fcp_net.c): one line of /proc/net/tcp or udp at a *)
(* time is parsed into procnetinfo, the process that has the socket is     *)
(* looked for in /proc/<pid>/fd of every process, and procnetinfo goes to  *)
(* the caller's callback.  Meanwhile processes open, share and close       *)
(* sockets, end, and pids are used again: a line, the directory of /proc,  *)
(* a descriptor and the link to the executable are each read at a moment   *)
(* of their own.                                                           *)
(*                                                                         *)
(* procnetinfo is one buffer for all lines.  procpath is modelled as an    *)
(* array in which every character is named by the executable it came from, *)
(* as readlink writes the characters of a path and no terminating zero.    *)
(*                                                                         *)
(* Of a line only the socket and its inode are kept; the inode of a socket *)
(* without a process is 0.  The descriptors of one process are looked      *)
(* through in one step, whose moment stands for that at which the link     *)
(* that decides was read.                                                  *)
(***************************************************************************)
EXTENDS Integers, Sequences, FiniteSets

CONSTANTS
  Sockets,    \* sockets, each with its inode
  MaxPid,     \* pids are 1 .. MaxPid
  PathLen,    \* per pid: length of the path of its executable
  MaxEvents,  \* bound on what other processes do during the call
  MaxFailures \* bound on failing allocations and reads

ASSUME BoundAssumption ==
  /\ MaxPid \in Nat /\ PathLen \in [1 .. MaxPid -> Nat \ {0}]
  /\ MaxEvents \in Nat /\ MaxFailures \in Nat

Pids == 1 .. MaxPid
NoPid == 0
NoInode == "0"
NoPath == <<>>

\* Inode 0 stands in /proc/net for a socket no process has.
ASSUME InodeAssumption == NoInode \notin Sockets

\* The path of the process that is the n-th to have the pid p.
PathOf(p, n) == [i \in 1 .. PathLen[p] |-> <<p, n>>]

VARIABLES
  run,      \* per pid: how many processes have had it, odd while one has
  owns,     \* per pid: sockets among its descriptors
  orphans,  \* sockets no process has any more
  hidden,   \* pids whose fd directory the caller may not read
  pc,       \* "open", "header", "line", "proc", "fds", "exe", "call", "close", "done"
  listed,   \* sockets whose line was read
  info,     \* procnetinfo: socket, inode, pid, executable
  cursor,   \* position in the directory /proc
  found,    \* the callback of general_find_proc_pid returned -1
  handles,  \* open: "net" the file, "proc" the iterator over /proc
  ret,      \* the return value, "any" if the function ends without one
  had,      \* history: pids that had the socket since its line was read
  kept,     \* history: readable pids that had it all the time
  failures, \* history: allocations and reads that failed, overall and in this line
  events    \* history: what other processes did

world == <<run, owns, orphans, events>>
caller == <<pc, listed, info, cursor, found, handles, ret, failures>>
vars == <<world, hidden, caller, had, kept>>

Live(p) == run[p] % 2 = 1
Have(s) == {p \in Pids : s \in owns[p]}
Exists(s) == s \in orphans \/ Have(s) # {}
Inode(s) == IF Have(s) # {} THEN s ELSE NoInode

ZeroInfo == [sock |-> NoInode, inode |-> NoInode, pid |-> NoPid, path |-> NoPath]

Init ==
  /\ run \in [Pids -> {0, 1}]
  /\ owns \in [Pids -> SUBSET Sockets]
  /\ \A p \in Pids : ~Live(p) => owns[p] = {}
  /\ orphans \in SUBSET {s \in Sockets : Have(s) = {}}
  /\ hidden \in SUBSET Pids
  /\ pc = "open"
  /\ listed = {}
  /\ info = ZeroInfo
  /\ cursor = 0
  /\ found = FALSE
  /\ handles = {}
  /\ ret = "none"
  /\ had = {} /\ kept = {}
  /\ failures = [all |-> 0, line |-> 0]
  /\ events = 0

-----------------------------------------------------------------------------
(***************************************************************************)
(* The other processes.                                                    *)
(***************************************************************************)
World ==
  /\ pc # "done" /\ events < MaxEvents
  /\ events' = events + 1
  /\ had' = had \cup {p \in Pids : info.sock \in owns'[p]}
  /\ kept' = kept \cap {p \in Pids : info.sock \in owns'[p]}
  /\ UNCHANGED <<hidden, caller>>

OpenSocket(p, s) ==
  /\ Live(p) /\ ~Exists(s) /\ s \notin listed
  /\ owns' = [owns EXCEPT ![p] = @ \cup {s}]
  /\ UNCHANGED <<run, orphans>>

\* A descriptor goes to another process with fork or SCM_RIGHTS.
Share(p, q, s) ==
  /\ Live(q) /\ s \in owns[p] \ owns[q]
  /\ owns' = [owns EXCEPT ![q] = @ \cup {s}]
  /\ UNCHANGED <<run, orphans>>

\* The last close leaves a connection that the kernel takes down, or nothing.
CloseSocket(p, s) ==
  /\ s \in owns[p]
  /\ owns' = [owns EXCEPT ![p] = @ \ {s}]
  /\ orphans' \in IF Have(s) = {p} THEN {orphans, orphans \cup {s}} ELSE {orphans}
  /\ UNCHANGED run

End(p) ==
  /\ Live(p)
  /\ run' = [run EXCEPT ![p] = @ + 1]
  /\ owns' = [owns EXCEPT ![p] = {}]
  /\ orphans' = orphans \cup {s \in owns[p] : Have(s) = {p}}

Begin(p) ==
  /\ ~Live(p)
  /\ run' = [run EXCEPT ![p] = @ + 1]
  /\ UNCHANGED <<owns, orphans>>

OthersAct ==
  /\ \/ \E p \in Pids, s \in Sockets : OpenSocket(p, s) \/ CloseSocket(p, s)
     \/ \E p, q \in Pids, s \in Sockets : Share(p, q, s)
     \/ \E p \in Pids : End(p) \/ Begin(p)
  /\ World

-----------------------------------------------------------------------------
(***************************************************************************)
(* com_foreach_net_info: open, header line, one line after another.        *)
(***************************************************************************)
Goto(step) == pc' = step
Return(what) == Goto("done") /\ ret' = what
MayFail == failures.all < MaxFailures
CountFailure == failures' = [all |-> failures.all + 1, line |-> failures.line + 1]
Unwatched == UNCHANGED <<had, kept>>

Open ==
  /\ pc = "open"
  /\ \/ Goto("header") /\ handles' = {"net"} /\ UNCHANGED <<ret, failures>>
     \/ MayFail /\ CountFailure /\ Return("-1") /\ UNCHANGED handles
  /\ UNCHANGED <<listed, info, cursor, found>> /\ Unwatched

\* A header that cannot be read returns without fclose.
Header ==
  /\ pc = "header"
  /\ \/ Goto("line") /\ UNCHANGED <<ret, failures>>
     \/ MayFail /\ CountFailure /\ Return("-1")
  /\ UNCHANGED <<listed, info, cursor, found, handles>> /\ Unwatched

\* parse_net_field overwrites what the line has; pid and procpath stay.
Parse(s) == [info EXCEPT !.sock = s, !.inode = Inode(s)]

Line ==
  /\ pc = "line"
  /\ \/ \E s \in Sockets \ listed :
          /\ Exists(s)
          /\ listed' = listed \cup {s}
          /\ info' = Parse(s)
          /\ failures' = [failures EXCEPT !.line = 0]
          /\ had' = Have(s) /\ kept' = Have(s) \ hidden
          /\ Goto("proc") /\ cursor' = 0 /\ found' = FALSE
          /\ handles' = handles \cup {"proc"}
     \/ /\ \A s \in Sockets \ listed : ~Exists(s)
        /\ Goto("close")
        /\ UNCHANGED <<listed, info, failures, cursor, found, handles>> /\ Unwatched
  /\ UNCHANGED ret

-----------------------------------------------------------------------------
(***************************************************************************)
(* general_find_proc_pid: the next pid in the order of the directory.  A   *)
(* non-zero result of the callback stops the iteration, and so does a      *)
(* failure of the iterator: the process is then not found.                 *)
(***************************************************************************)
\* Mutant: the directory loses an entry after the one handed out.
LaterSkips == {p \in Pids : p > cursor + 1 /\ Live(p)}

Later == {p \in Pids : p > cursor /\ Live(p)}

\* Mutant: the loop is left without the call that ends the iteration.
NextPidBreaks ==
  /\ pc = "proc"
  /\ IF found \/ Later = {}
     THEN Goto("call") /\ handles' = (IF found THEN handles ELSE handles \ {"proc"}) /\ UNCHANGED cursor
     ELSE Goto("fds") /\ cursor' = (CHOOSE p \in Later : \A q \in Later : p <= q) /\ UNCHANGED handles
  /\ UNCHANGED <<listed, info, found, ret, failures>> /\ Unwatched

NextPid ==
  /\ pc = "proc"
  /\ \/ /\ found \/ Later = {}
        /\ Goto("call") /\ handles' = handles \ {"proc"} /\ UNCHANGED <<cursor, failures>>
     \/ /\ ~found /\ MayFail /\ CountFailure     \* malloc or opendir of the iterator
        /\ Goto("call") /\ handles' = handles \ {"proc"} /\ UNCHANGED cursor
     \/ /\ ~found /\ Later # {}
        /\ Goto("fds")
        /\ cursor' = CHOOSE p \in Later : \A q \in Later : p <= q
        /\ UNCHANGED <<handles, failures>>
  /\ UNCHANGED <<listed, info, found, ret>> /\ Unwatched

\* Mutant: the inodes are not compared.
HasSocket(p) == owns[p] # {}

\* Does some descriptor of p link to the inode of the line?
HasInode(p) == info.inode \in owns[p]

\* deal_proc_pid_info up to closedir; 0 if the directory cannot be opened.
Descriptors ==
  /\ pc = "fds"
  /\ \/ /\ MayFail /\ CountFailure      \* malloc
        /\ Goto("proc") /\ UNCHANGED <<info, found>>
     \/ /\ cursor \in hidden \/ ~HasInode(cursor)
        /\ Goto("proc") /\ UNCHANGED <<info, found, failures>>
     \/ /\ cursor \notin hidden /\ HasInode(cursor)
        /\ Goto("exe")
        /\ found' = TRUE
        /\ info' = [info EXCEPT !.pid = cursor]
        /\ UNCHANGED failures
  /\ UNCHANGED <<listed, cursor, handles, ret>> /\ Unwatched

\* Mutant: every path is written behind the one before.
OverwriteAfter(old, new) == old \o new

\* readlink into procpath: what lies behind the new path stays.
Overwrite(old, new) == new \o SubSeq(old, Len(new) + 1, Len(old))

\* The link to the executable; of whoever has the pid now.
Executable ==
  /\ pc = "exe"
  /\ \/ Live(cursor) /\ info' = [info EXCEPT !.path = Overwrite(@, PathOf(cursor, run[cursor]))] /\ UNCHANGED failures
     \/ ~Live(cursor) /\ UNCHANGED <<info, failures>>
     \/ MayFail /\ CountFailure /\ UNCHANGED info
  /\ Goto("proc")
  /\ UNCHANGED <<listed, cursor, found, handles, ret>> /\ Unwatched

\* The caller's callback, which may end the iteration, and the end.
Callback ==
  /\ pc = "call"
  /\ Goto("line") \/ Goto("close")
  /\ UNCHANGED <<listed, info, cursor, found, handles, ret, failures>> /\ Unwatched

Close ==
  /\ pc = "close"
  /\ handles' = handles \ {"net"}
  /\ Return("any")
  /\ UNCHANGED <<listed, info, cursor, found, failures>> /\ Unwatched

Reader ==
  /\ Open \/ Header \/ Line \/ NextPid \/ Descriptors \/ Executable \/ Callback \/ Close
  /\ UNCHANGED <<world, hidden>>

Next == Reader \/ OthersAct

Spec == Init /\ [][Next]_vars

-----------------------------------------------------------------------------
(***************************************************************************)
(* A process that the search finds had the socket after its line was read, *)
(* and none that comes first in /proc had it all along: forked processes   *)
(* that share a socket do not hide the first of them.  A failing malloc    *)
(* makes the search pass over a process.                                   *)
(***************************************************************************)
FoundIsOwner ==
  pc = "call" /\ found =>
    info.pid \in had /\ (failures.line = 0 => \A q \in kept : info.pid <= q)

(***************************************************************************)
(* The search misses nobody: if it ends without a result and nothing       *)
(* failed, no process whose descriptors can be read had the socket all     *)
(* along, whatever others opened, closed and ended meanwhile.              *)
(***************************************************************************)
MissesNoOwner == pc = "call" /\ ~found /\ failures.line = 0 => kept = {}

(***************************************************************************)
(* The executable is read after the descriptors: procpath begins with that *)
(* of the process found if this process has had the socket all along.      *)
(***************************************************************************)
FoundAndKept == pc = "call" /\ found /\ failures.line = 0 /\ info.pid \in kept

PathBegins ==
  FoundAndKept => SubSeq(info.path, 1, PathLen[info.pid]) = PathOf(info.pid, run[info.pid])

(***************************************************************************)
(* Ending the search early still takes the call that closes the iterator,  *)
(* and every way out closes the file but one: a header that cannot be read.*)
(***************************************************************************)
OnlyHeaderLeaks ==
  /\ pc = "call" => handles = {"net"}
  /\ pc = "done" /\ ret = "any" => handles = {}

(***************************************************************************)
(* The pid given to the callback is that of a process with the socket, as  *)
(* the description of NetProcInfo has it.  It is not if no process is      *)
(* found: the record still has the pid of an earlier line.                 *)
(***************************************************************************)
ReportedPidIsOwner == pc = "call" => info.pid \in had \cup {NoPid}
=============================================================================
