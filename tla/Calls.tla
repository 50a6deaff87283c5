------------------------------- MODULE Calls --------------------------------
(***************************************************************************)
(* The descriptor table of a program whose threads call the library at the *)
(* same time: every function of fcp_proc.c, fcp_os.c, fcp_file.c,          *)
(* fcp_net.c, fcp_socket.c and genstring.c that opens a descriptor and     *)
(* ends without handing it to an iterator (Foreach, NetInfo and Logins     *)
(* have those) or keeping it as a lock (Instance).  What a call answers is *)
(* the matter of Queries and Md5; here a call opens, goes on and closes,   *)
(* and others can run between any two of its steps.  A call that fails     *)
(* before it has opened anything changes nothing and is no step.           *)
(***************************************************************************)
EXTENDS Naturals, SequencesExt

CONSTANTS
  Threads,
  Limit,      \* size of the descriptor table
  MaxOptions  \* bound: descriptors with an option set by a netutil_socket_ call

ASSUME LimitAssumption == Limit \in Nat \ {0}

VARIABLES
  fds,      \* fds[n]: who opened descriptor n and what it is, or Closed
  held,     \* held[n]: what the call that gave the program descriptor n promised
  call,     \* call[t]: the function thread t is in, how far, and with what descriptors
  crashed

vars == <<fds, held, call, crashed>>

Numbers == 0 .. Limit - 1
Closed == [by |-> "none", is |-> {}]
Idle == [fn |-> "none", at |-> "none", own |-> <<>>]
Options == {"cloexec", "nonblock", "reuse_addr", "reuse_port"}
Free == {n \in Numbers : fds[n] = Closed}
Lowest == Min(Free)
Held == DOMAIN held

\* 0 is standard input, unless the program was started without.
Init ==
  /\ \E std \in SUBSET {0} :
       /\ fds = [n \in Numbers |-> IF n \in std THEN [by |-> "program", is |-> {}] ELSE Closed]
       /\ held = [n \in std |-> {}]
  /\ call = [t \in Threads |-> Idle]
  /\ crashed = FALSE

-----------------------------------------------------------------------------
(* What a step of a call can do.                                           *)

Enters(t) == ~crashed /\ call[t] = Idle
In(t, fn, at) == ~crashed /\ call[t].fn = fn /\ call[t].at = at
Goes(t, fn, at, own) == call' = [call EXCEPT ![t] = [fn |-> fn, at |-> at, own |-> own]]
Returns(t) == call' = [call EXCEPT ![t] = Idle]

\* The lowest free number is taken, if there is one.
Takes(fn, is) == Free # {} /\ fds' = [fds EXCEPT ![Lowest] = [by |-> fn, is |-> is]]

Opens(t, fn, is) ==
  Enters(t) /\ Takes(fn, is) /\ Goes(t, fn, "open", <<Lowest>>) /\ UNCHANGED <<held, crashed>>

Shut(ns) == fds' = [n \in Numbers |-> IF n \in ns THEN Closed ELSE fds[n]]

\* Mutant: an error path closes the descriptor and meets the other close.
ClosesTwice(t, fn) ==
  /\ ~crashed /\ call[t].fn = fn /\ Shut(ToSet(call[t].own))
  /\ Returns(t) \/ UNCHANGED call
  /\ UNCHANGED <<held, crashed>>

\* Mutant: an error path returns without closing.
ReturnsOnly(t, fn) ==
  /\ ~crashed /\ call[t].fn = fn
  /\ Shut(ToSet(call[t].own)) \/ UNCHANGED fds
  /\ Returns(t) /\ UNCHANGED <<held, crashed>>

\* What the call has opened is closed, and it is over.
Closes(t, fn) ==
  /\ ~crashed /\ call[t].fn = fn /\ Shut(ToSet(call[t].own))
  /\ Returns(t) /\ UNCHANGED <<held, crashed>>

\* The program has descriptors ns, which became what "gained" says, and with
\* them the promise of the call.
Give(ns, gained, promise) ==
  /\ fds' = [n \in Numbers |->
               IF n \in ns THEN [by |-> "program", is |-> fds[n].is \cup gained] ELSE fds[n]]
  /\ held' = [n \in Held \cup ns |->
                (IF n \in Held THEN held[n] ELSE {}) \cup (IF n \in ns THEN promise ELSE {})]

GivesBack(t, gained, promise) ==
  Give(ToSet(call[t].own), gained, promise) /\ Returns(t) /\ UNCHANGED crashed

\* Opened, read or written, and closed on every path.
Reads(t, fn) == Opens(t, fn, {}) \/ Closes(t, fn)

\* Opened, and closed on no path.
Loses(t, fn) == Enters(t) /\ Takes(fn, {}) /\ UNCHANGED <<held, call, crashed>>

-----------------------------------------------------------------------------
(* /proc, /etc, the login records, any file.                               *)

taskutil_elf_type(t) == Reads(t, "taskutil_elf_type")
taskutil_current_session(t) == Reads(t, "taskutil_current_session")
process_max_number(t) == Reads(t, "process_max_number")
taskutil_task_proc_stat(t) == Reads(t, "taskutil_task_proc_stat")
process_cmdline(t) == Reads(t, "process_cmdline")
os_info_boot_time(t) == Reads(t, "os_info_boot_time")
os_info_last_shutdow_time(t) == Reads(t, "os_info_last_shutdow_time")
os_info_running_tty(t) == Reads(t, "os_info_running_tty")
os_info_machine_id(t) == Reads(t, "os_info_machine_id")
general_os_version_con(t) == Reads(t, "general_os_version_con")
fcp_set_pingv4_state(t) == Reads(t, "fcp_set_pingv4_state")
fcp_is_allow_pingv4(t) == Reads(t, "fcp_is_allow_pingv4")

\* os_info_uuid and os_info_bootid.
os_info(t) == Loses(t, "os_info")
file_execute_type(t) == Loses(t, "file_execute_type")

\* A descriptor 0 is taken for a failure.
gen_file_md5(t) ==
  LET fn == "gen_file_md5" IN
  \/ 0 \notin Free /\ Opens(t, fn, {})
  \/ 0 \in Free /\ Loses(t, fn)
  \/ Closes(t, fn)

\* The task directory is open while one schedstat after another is read.
process_cpu_mtime(t) ==
  LET fn == "process_cpu_mtime"
      own == call[t].own
  IN \/ Opens(t, fn, {})
     \/ /\ In(t, fn, "open") /\ Takes(fn, {})
        /\ Goes(t, fn, "file", Append(own, Lowest)) /\ UNCHANGED <<held, crashed>>
     \/ /\ In(t, fn, "file") /\ Shut({Last(own)})
        /\ Goes(t, fn, "open", Front(own)) /\ UNCHANGED <<held, crashed>>
     \/ In(t, fn, "open") /\ Closes(t, fn)

-----------------------------------------------------------------------------
(* Files and sockets for the program.                                      *)

\* Mutant: open and then fcntl, the way of systems without O_CLOEXEC.
OpenThenFcntl(t) ==
  LET fn == "fileutil_open_on_closeexec" IN
  \/ Opens(t, fn, {})
  \/ In(t, fn, "open") /\ GivesBack(t, {"cloexec"}, {"cloexec"})

\* O_CLOEXEC is part of the open.
fileutil_open_on_closeexec(t) ==
  LET fn == "fileutil_open_on_closeexec" IN
  \/ Opens(t, fn, {"cloexec"})
  \/ In(t, fn, "open") /\ GivesBack(t, {}, {"cloexec"})

netutil_socket_block_connect(t) ==
  LET fn == "netutil_socket_block_connect" IN
  \/ Opens(t, fn, {})
  \/ In(t, fn, "open") /\ GivesBack(t, {"connected"}, {"connected"})
  \/ Closes(t, fn)

\* A connection in progress is a failure like any other, and closed.
netutil_socket_nonblock_connect(t) ==
  LET fn == "netutil_socket_nonblock_connect" IN
  \/ Opens(t, fn, {})
  \/ /\ In(t, fn, "open")
     /\ fds' = [fds EXCEPT ![call[t].own[1]].is = @ \cup {"nonblock"}]
     /\ Goes(t, fn, "nonblock", call[t].own) /\ UNCHANGED <<held, crashed>>
  \/ /\ In(t, fn, "nonblock")
     /\ GivesBack(t, {"connected"}, {"nonblock", "connected"})
  \/ Closes(t, fn)

netutil_socket_unix_pair(t) ==
  /\ Enters(t) /\ Cardinality(Free) >= 2
  /\ Give({Lowest, Min(Free \ {Lowest})}, {"connected"}, {"connected"})
  /\ UNCHANGED <<call, crashed>>

\* Without a listensock_callback a null pointer is called; a given one is not
\* called.  A descriptor 0 is taken for a failure.  For a listening socket the
\* program has, only the accept is left to do; it is returned if that fails, too.
netutil_socket_accept(t) ==
  LET fn == "netutil_socket_accept"
      own == call[t].own
  IN \/ 0 \in Free /\ Loses(t, fn)
     \/ 0 \notin Free /\ Opens(t, fn, {})
     \/ In(t, fn, "open") /\ crashed' = TRUE /\ UNCHANGED <<fds, held, call>>
     \/ In(t, fn, "open") /\ Goes(t, fn, "bound", own) /\ UNCHANGED <<fds, held, crashed>>
     \/ (In(t, fn, "open") \/ In(t, fn, "bound")) /\ Closes(t, fn)
     \/ /\ In(t, fn, "bound")
        /\ fds' = [fds EXCEPT ![own[1]].is = @ \cup {"listening"}]
        /\ Goes(t, fn, "listening", own) /\ UNCHANGED <<held, crashed>>
     \/ /\ Enters(t)
        /\ \E n \in Held : "listening" \in held[n] /\ Goes(t, fn, "listening", <<n>>)
        /\ UNCHANGED <<fds, held, crashed>>
     \/ /\ In(t, fn, "listening") /\ Takes(fn, {"connected"})
        /\ Goes(t, fn, "accepted", Append(own, Lowest)) /\ UNCHANGED <<held, crashed>>
     \/ /\ In(t, fn, "accepted") /\ Goes(t, fn, "told", Front(own)) /\ UNCHANGED crashed
        /\ \/ own[2] > 0 /\ Give({own[2]}, {}, {"connected"})
           \/ UNCHANGED <<fds, held>>     \* no accept_callback, or descriptor 0
     \/ (In(t, fn, "listening") \/ In(t, fn, "told")) /\ GivesBack(t, {}, {"listening"})

\* netutil_socket_nonblocking, _closeonexec, _reuse_addr and _reuse_port.  The
\* flags are read before they are written, but the library sets only one of each.
Sets(t, option) ==
  /\ Enters(t)
  /\ \E n \in Held :
       /\ Cardinality({m \in Held : held[m] \cap Options # {}} \cup {n}) <= MaxOptions
       /\ Give({n}, {option}, {option})
  /\ UNCHANGED <<call, crashed>>

netutil_socket_nonblocking(t) == Sets(t, "nonblock")
netutil_socket_closeonexec(t) == Sets(t, "cloexec")
netutil_socket_reuse_addr(t) == Sets(t, "reuse_addr")
netutil_socket_reuse_port(t) == Sets(t, "reuse_port")

\* The program closes what it has, unless one of its threads is using it.
ProgramCloses(n) ==
  /\ ~crashed /\ n \in Held /\ \A t \in Threads : n \notin ToSet(call[t].own)
  /\ Shut({n})
  /\ held' = [m \in Held \ {n} |-> held[m]]
  /\ UNCHANGED <<call, crashed>>

Reading(t) ==
  \/ taskutil_elf_type(t) \/ taskutil_current_session(t) \/ process_max_number(t)
  \/ taskutil_task_proc_stat(t) \/ process_cpu_mtime(t) \/ process_cmdline(t)
  \/ os_info_boot_time(t) \/ os_info_last_shutdow_time(t) \/ os_info_running_tty(t)
  \/ os_info_machine_id(t) \/ general_os_version_con(t) \/ os_info(t)
  \/ fcp_set_pingv4_state(t) \/ fcp_is_allow_pingv4(t)
  \/ file_execute_type(t) \/ gen_file_md5(t)

Giving(t) ==
  \/ fileutil_open_on_closeexec(t)
  \/ netutil_socket_block_connect(t) \/ netutil_socket_nonblock_connect(t)
  \/ netutil_socket_unix_pair(t) \/ netutil_socket_accept(t)

Setting(t) ==
  \/ netutil_socket_nonblocking(t) \/ netutil_socket_closeonexec(t)
  \/ netutil_socket_reuse_addr(t) \/ netutil_socket_reuse_port(t)

Next ==
  \/ \E t \in Threads : Reading(t) \/ Giving(t) \/ Setting(t)
  \/ \E n \in Numbers : ProgramCloses(n)

Spec == Init /\ [][Next]_vars

-----------------------------------------------------------------------------
(***************************************************************************)
(* No call closes a descriptor that is not its own, in whatever order the  *)
(* threads open and close: what the program was given stays open and its   *)
(* own until the program closes it, and what a call works with until the   *)
(* call is over (fcp_proc.c, fcp_os.c, fcp_net.c, genstring.c: an fclose   *)
(* on each error path; fcp_socket.c:138, :229-243).                        *)
(***************************************************************************)
InUse(t) == ToSet(call[t].own)

HeldAreOpen ==
  /\ \A n \in Held : fds[n].by = "program"
  /\ \A t \in Threads : \A n \in InUse(t) : fds[n].by = call[t].fn \/ n \in Held
  /\ \A t, u \in Threads : t # u => InUse(t) \cap InUse(u) \subseteq Held

(***************************************************************************)
(* Whatever paths the calls took, the descriptors nobody can close are     *)
(* those of file_execute_type (fcp_file.c:87), of os_info (fcp_os.c:88,    *)
(* :99), of an accepted connection nobody is told of (fcp_socket.c:251),   *)
(* and descriptor 0, which gen_file_md5 (genstring.c:306) and              *)
(* netutil_socket_accept (fcp_socket.c:219) take for a failure.            *)
(***************************************************************************)
Lost == {n \in Numbers \ Held : fds[n] # Closed /\ \A t \in Threads : n \notin InUse(t)}

OnlyKnownLeaks ==
  \A n \in Lost :
    \/ fds[n].by \in {"file_execute_type", "os_info"}
    \/ fds[n].by = "netutil_socket_accept" /\ (n = 0 \/ fds[n].is = {"connected"})
    \/ fds[n].by = "gen_file_md5" /\ n = 0

(***************************************************************************)
(* What a call promised of a descriptor is true as long as the program has *)
(* it (fcp_socket.c:20-260): connected, not blocking, listening, closed on *)
(* exec; and at no moment could a program that another thread executes     *)
(* inherit a descriptor of fileutil_open_on_closeexec (fcp_file.c:132).    *)
(* The program stops only in netutil_socket_accept, between the socket and *)
(* the bind, if it gave no listensock_callback (fcp_socket.c:225).         *)
(***************************************************************************)
AsPromised ==
  /\ \A n \in Held : held[n] \subseteq fds[n].is
  /\ \A n \in Numbers : fds[n].by = "fileutil_open_on_closeexec" => "cloexec" \in fds[n].is
  /\ crashed => \E t \in Threads : call[t].fn = "netutil_socket_accept" /\ call[t].at = "open"

=============================================================================
