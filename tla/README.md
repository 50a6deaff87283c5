# A TLA+ model of libmyfcp

This directory specifies the C library libmyfcp (`src/src/myfcp`, described in
`src/README.md`) in TLA+: what its stateful parts do, step by step, what they
promise, TLC configurations that check the promises on small instances, and
proofs, checked by TLAPS, of the ones that hold for every instance.

Everything is translated from the C source.  The kernel, the C library and the
programs that call libmyfcp are modelled from how the source uses them; their
definitions are marked `external` in `PROJECT.json`, which also maps each other
definition to the lines it stands for.

## 1. The system

libmyfcp is a collection of helpers for C programs on Linux.  It starts no
thread of its own, yet most of it runs beside something that changes what it
works on: signal handlers, other launches of the program, other processes seen
through `/proc`, files written by others, a caller's loop body that ends early.

| component | state it keeps | operations | interacts with | what is hard | what makes it correct |
|---|---|---|---|---|---|
| signal registry, `fcp_signal.c` | static tables `g_oldsig[]` (old disposition, inited) and `g_promasksig` (shadow of the mask) | `sigutil_ignore_all_sig`, `_sig_add`, `_sig_del`, `_sig_delall`, `_block_sig`, `_unblock_sig` | kernel dispositions and mask; handlers that interrupt it and call it | a signal between any two system calls; tables and kernel change at different moments | a handler in force can be undone; the shadow set is the mask; a result of 0 is true |
| iterators, `general.c`, `genstring.c`, `fcp_net.c` | the caller's `struct fcp_one_item`, a heap node, a handle | `general_foreach_inode_entry`, `gen_foreach_field`, `fcp_foreach_comm_arp` and the `foreach_*` macros | the caller's loop; directories and files | early stop, failing allocation, a call after the end | each item once and in order; no leak, double free or use after free |
| instance lock and daemon, `fcp_base.c`, `fcp_proc.c` | an open descriptor that nobody holds in a variable; the process's descriptor table | `program_is_running`, `taskutil_task_to_daemon` | other launches; the kernel's flock | two forks and a sweep of descriptors between the lock and the service; kills | at most one instance, no stale lock, a winner of each race |
| linked list, `list.h` | two pointers per node | add, add tail, delete, replace, pop, front, size, loops | whoever embeds a node | order of the assignments, stale pointers | the pointers are the sequence the calls describe |
| logouts from wtmp, `fcp_os.c` | a list of records on the heap | `os_info_logout_tty` with `init_login_list`, `exit_login_list` | `list.h`; the file; a callback | nodes are freed while two nested loops walk the list; records missing after a crash | each login gets its own logout; what is allocated is freed |
| sockets and their processes, `fcp_net.c`, `general.c` | one `NetProcInfo` for all lines | `com_foreach_net_info`, `parse_net_field`, `deal_proc_pid_info`, `general_find_proc_pid` | the directory iterator; other processes; a callback | `/proc` changes during the scan; fields of an earlier line stay | the process reported has the socket; nobody is missed |
| MD5 stream, `genmd5.c`, `genstring.c` | context: four words, a 64-bit count in two words, 64 bytes | `md5_init`, `md5_update`, `md5_final`; `gen_string_md5`, `gen_file_md5` | files read in blocks of 256 | splitting, carry, padding, a short read | the digest does not depend on how the message is cut |
| sockets, `fcp_socket.c` | descriptors | connect, pair, accept, set an option | network; callbacks; other threads | which step failed, who closes, descriptor 0 | no descriptor is lost or closed twice; what is promised of it is true |
| files, `fcp_file.c` | none | `file_is_*`, `file_execute_type`, `fileutil_open_on_closeexec` | file system; programs executed by other threads | close-on-exec, descriptors | the type of a file; nothing is inherited |
| fields and strings, `general.c`, `genstring.c` | none | `general_get_field`, trimming, last path component, base64 | - | empty input, borders, signed chars, what lies behind a string | agree with a plain definition |
| process and OS information, `fcp_proc.c`, `fcp_os.c`, `fcp_net.c` | descriptors during a call | read `/proc`, `/etc`, utmp, wtmp, the interface list | field splitting; other threads | names with spaces, full buffers, overflow, error paths that close | the answer is that of the file; each call closes what it opened |
| memory, `genmm.c` | none | realloc, realloc and zero | the C library | a size of 0 frees the block and is a failure | not modelled, section 7 |
| logging, `genlog.c` | two callbacks set once | print | - | - | - |

All but the last row are modelled; section 7 says what is left out of them.
`PROJECT.json` lists each of them as a component, and every hazard of the code
at its line with the properties that would catch it going wrong.

## 2. The modules

```
Signals      <- MCSignals,  SignalsProofs
Cursor       <= Foreach     <- MCForeach, ForeachProofs   (<= is implemented by)
Instance     <- MCInstance, InstanceProofs
LinkedList   <- Lists => Deque;  Lists <- MCLists, ListsProofs
             <- Logins      <- MCLogins, LoginsProofs
NetInfo      <- MCNetInfo,  NetInfoProofs
Hash         <= Md5         <- MCResults, ResultsProofs
Strings      <- Queries     <- MCResults, ResultsProofs
Calls        <- MCCalls,    CallsProofs
```

A module that EXTENDS another stands to its right.  Definitions named in a
comment "Mutant:" are plausible mistakes in the definition that follows them;
no specification uses them, they only serve to show that each property can fail.

### Signals

One process.  `frame[1]` is the program, `frame[2]` and above are handlers that
interrupted it; a frame's `pc` is the next statement of the library function in
progress.  `disp`, `mask`, `pending` are the kernel's; `oldsig`, `inited` are
`g_oldsig`; `maskInited`, `promask` are `g_promasksig`.  Each system call and
each write to a static table is an action of its own (`AddSigaction`,
`AddInited`, `DelCheck`, `DelSigaction`, `DelClear`, `BlockInit`, ...), because
a signal can be delivered after any of them: user code runs only while nothing
is deliverable (`Running`), as the kernel delivers on return to user mode.
`sigutil_sig_delall` and `sigutil_ignore_all_sig` are loops over the same
statements (`NextSignal`).  The `memset` and the filled `sa_mask` of a handler
are `HandlerMask`.  `foreign` and `inherited` are history: the last disposition
that no handler of the program was, and the mask at the start.

What a handler may call is the constant `HandlerCalls`.  The checked and proved
value is `{"del", "delall"}`, the calls a handler makes in
`example/testsignal.c`.  It is a real restriction, see section 6.

### Cursor and Foreach

`Cursor` is the promise of an iterator: the items in order, each once; an end
because of a stop, a failure, or because all have been handed out.  `Foreach`
has the three functions with all they keep between two calls: `entry` (`this`,
`data`, `flag`), the heap node of the pass (`node`) and the set `live` of
blocks and handles.  A call is one step: the entry belongs to its caller.
`InodeCall`, `FieldCall`, `ArpCall` follow the branches of the functions, with
their `stopread` and `done` labels as operators of their own, because the
three functions differ in what they reset there.  `failing` chooses the
allocation, open or header read that fails.  The caller is `BeginLoop`,
`Continue`, `StopLoop` and, where the code allows it, `CallAgain`.
A faulty release or use is recorded in `faults`.  Which entries of a source are
handed out and which are passed over (`NextHit`) is free here; where
`gen_foreach_field` cuts a line is `Strings!gen_foreach_field`.

### Instance

Launches of one program, each up to three processes (`orig`, `child`,
`daemon`) because `taskutil_task_to_daemon` forks twice.  `fds` is a descriptor
table per process with the open file description behind each number; `owner`
is the description that holds the flock, given up when nobody refers to it any
more (`SetTable`).  `OpenLock`, `Flock`, `CloseLock` are the calls of
`program_is_running`; `Fork1`, `Setsid`, `Fork2`, `ParentExit`, `RedirectStd`,
`CloseFiles`, `Chdir` those of `taskutil_task_to_daemon`, each with its failure
where the code looks at the result and with its silence where it does not
(`RedirectStd`).  `Kill` ends a process anywhere.  A program is a record of
`Programs`: which calls it makes in which order, with which arguments, started
with which descriptors.  `KeepsLock` states which of them keep the lock; the
rest is section 6.

### LinkedList, Lists and Deque

`LinkedList` holds the functions of `list.h` as operators on a memory of `prev`
and `next` pointers, assignment by assignment in the order of the code.
`Lists` is a program that calls them in any order; `Deque` is the sequence that
a list stands for, with one step for each function: what becomes of the sequence,
and what the function returns.  `call` is the function called last, its arguments
and its result, and is the same in both, so that `Lists` implements `Deque`
(with `items <- Items`, what `list_for_each` visits) only if every function does
its own step: an exchange of `list_add` and `list_add_tail`, or a pop that takes
the tail, is no refinement.  `Logins` uses the same operators.

### Logins

`os_info_logout_tty` record by record: `Load` is one `fread` with its malloc
that may fail, `Pop` the outer loop, `Scan` one iteration of
`list_for_each_safe`, which has read `next` before its body frees the node,
`Exit` and `Free` the cleaning up.  The list is the real one, pointers
included, and `heap` the set of allocated nodes, so a dereference of a freed
node is seen (`Touch`).  Only the fields that are compared are kept.

### NetInfo

`com_foreach_net_info` and the search for the process of each socket.  `info`
is `procnetinfo`, one record for all lines; `Parse` overwrites what a line
has and nothing else.  The search (`NextPid`, `Descriptors`, `Executable`)
reads the directory, the descriptors and the executable of a process at
moments of their own, and in between `OthersAct` opens, shares and closes
sockets and ends and begins processes; pids are used again.  `had` and `kept`
are history: who has had the socket of the line since the line was read, and
who has had it all the time.

### Hash and Md5

`Hash` is what a hash function promises: bytes are absorbed, and the digest is
the compression of the padded message's blocks.  `Md5` is `genmd5.c`: the two
words of the count that wrap at `2^W` and the carry between them (`Carry`), the
buffer whose old bytes stay behind, the two `memcpy`s and the blocks compressed
straight from the input (`Updated`), the padding and the encoded count
(`Finalised`); and its callers in `genstring.c`, `gen_file_md5` read by read.
The compression of a block is free: the state is the sequence of blocks
compressed, so that two digests are equal exactly if the same blocks went in.
A byte is the place it has in its message.

### Strings and Queries

The functions that compute something from what they are given or read, as
operators: `Strings` has those of `genstring.c` and `general_get_field`,
`Queries` those of `fcp_proc.c`, `fcp_os.c`, `fcp_file.c`, `fcp_net.c`,
`general.c` that read one file or list.  What a function
reads is its argument: the line the kernel writes for a task (`StatLine`, whose
name may hold anything), the bytes of a command line, the records of utmp.
Whatever depends on a place is kept: the newline that is looked for after the
start of the string has moved (`Chopped`), the newlines that fill the buffer of
`process_cmdline`, the byte behind the terminator that `gen_base64_encode`
reads, the place where the character loop of `gen_foreach_field` stands after
each call, the `int` that wraps, the precedence of `==` in `judge_file_type`.
A state of `Queries` is a question; each property compares the answer with a
definition that does not follow the code (words of a line, bits of the bytes in
groups of six, the pieces between separators, the last record of its kind).  A
property says what the answer should be; where the code gives another one than
the repository says, no property takes it for right: what the repository says is
a property of its own, which does not hold (section 4).  `Legal` says what may be asked at
all, `Asked` what is asked in a run; TLC evaluates `AskedAssumption`, that the
second is part of the first, and the proofs use nothing else about `Asked`.

### Calls

Threads of one program that call the library at the same time, and the
descriptor table they share.  `fds[n]` is who opened descriptor `n` and what it
is (`connected`, `listening`, `cloexec`, ...); `held[n]` is what the call that
gave it to the program promised of it; `call[t]` is the function thread `t` is
in, how far, and the descriptors it works with.  Each function is an action of
its own: `Reads` those that open, read and close, `Loses` those that never
close, `process_cpu_mtime` with two descriptors, and the functions of
`fcp_socket.c` step by step, each with the path of every failure.  The table
hands out the lowest free number, so descriptor 0 is given to a program that
has no standard input, and a number that is closed once too often may belong to
another thread by then.  `netutil_socket_accept` calls the null pointer when it
is given no `listensock_callback` (`crashed`), and does not call one it is
given.

## 3. The runs

| run | question | bounds | why they are enough |
|---|---|---|---|
| signals | do the tables stay restorable and the shadow set faithful under every interleaving? | 2 catchable signals, 1 handler function, 2 signals raised, stack of 3 | a handler interrupts a call about the same or another signal; stack 3 leaves room for the nesting that `HandlersDoNotNest` excludes; one signal is fatal by default, one is not |
| signals_live | does every call return? | one catchable and one uncatchable signal, 2 handlers, 1 raise | both branches of each loop body, including a failing `sigaction` |
| signals_readd, signals_unblock | findings, section 4 | as signals | |
| foreach | memory, leaks and refinement of `Cursor` for three iterators | up to 3 entries, each handed out or passed over; 3 passes on one entry | first, middle and last item; a pass after a stop, a failure and an end |
| instance | one instance, no stale lock, a winner, a detached daemon, and nobody waits | 2 launches, 3 processes each, 6 descriptors, limit 4 or 6, 7 kinds of program | the lock has two contenders at a time; descriptors on both sides of either limit; standard descriptors open, closed and partly open |
| lists | are the pointers the sequence? | 4 interchangeable nodes, any number of calls | empty, one, two neighbours, and a node away from both ends, beside nodes outside with stale pointers |
| logins | memory, leaks, pairing, end | up to 4 records, 2 terminals, 2 times, 1 failing malloc | two sessions that interleave, a shared time stamp, a clock set back, and a failure among them |
| netinfo | does the search find an owner if there is one? | 2 interchangeable sockets, 3 processes, 2 changes by others, 1 failure | an owner passed by before the cursor and one behind it; a pid that ends and is used again takes 2 changes |
| netinfo_stale | finding, section 4 | as netinfo, nothing changes, nothing fails | |
| results | is the digest that of the message, and does each function answer what it is asked? | blocks of 4 bytes, words of 6 bits, reads of 8 bytes, two messages of up to 25 bytes in pieces of up to 13; texts of up to 8 characters, numbers of 8 bits | the lower word of the count wraps every 8 bytes, so messages cross it three times; a message ends at every place of a block and of a read, and the padding needs one block or two; every text of the length has each border case: nothing but separators, one at either end, several in a row |
| calls | who closes a descriptor, which are lost, is what was promised true? | 2 threads, a table of 3, 1 descriptor with options set | two descriptors of one call beside one of the other; the table is full; 0 free and taken; a number that one thread closes and the other gets |

What the passing runs show:

- **signals** - `RestorePointKept`: a handler in force that was not registered
  over another one is known to the library, with the last foreign disposition
  as what it will restore.  `DelAllForgetsAll`: after `sigutil_sig_delall`
  nothing is registered, handlers that deleted signals meanwhile included.
  `MaskMatchesShadow`: between calls shadow set and mask agree, and a result of
  0 was true of both.  `DeliveryOnlyInWindow`: a signal of
  the shadow set is handled only inside a call that moves the mask.
  `HandlersDoNotNest`: the filled `sa_mask` keeps handlers apart.
- **signals_live** - `CallReturns`.
- **foreach** - `MemorySafe` (the item in the loop body is live, and the only
  one), `NothingLeaks`, and `ImplementsCursor`: each iterator is a `Cursor`, which
  serves the items of its kind once and in order.  What `gen_foreach_field` takes
  for an item is `TextsTakenApart` of results.
- **instance** - `SingleInstance`, `BelieverOwnsLock`: the lock survives both
  forks, the exits and the sweep.  `NeverRefusedAlone`: nothing that a killed
  launch leaves refuses the next one.  `OneServes`: launches without a failure
  are not all refused by one another.  `DaemonDetached`: what a serving daemon
  has let go of.  `LaunchSettles`: every launch ends up serving or gone.
- **lists** - `ChainsAgree`: no stale pointer is reachable; `ImplementsDeque`:
  each function does to the sequence its own step of `Deque`, at the nodes it was
  given, and returns what that step returns.
- **logins** - `MemorySafe` for the nested loops; `OnlyUnmatchedLeak`: exactly
  which nodes are never freed; `FirstFreeLogout`: the loops compute the greedy
  pairing, reported in order; `SessionsReported`: in a chronological file in
  which each session but the last of a terminal has its logout, exactly the
  ended sessions are reported; `Returns`.
- **netinfo** - `FoundIsOwner`, `MissesNoOwner` against changing processes;
  `PathBegins`: pid and executable belong together for a process that keeps
  its socket; `OnlyHeaderLeaks`: one way out, and only that one, leaves the
  file open.
- **results** - `ContextHoldsMessage`: between two calls the context stands for
  exactly the bytes given; `ImplementsHash`: `Md5` is a `Hash`;
  `WholeFileDigested`: a file is hashed to its end unless a read gave less than
  was asked before it.  `FieldsAreWords`, `StatIsTasks`, `Base64Inverts` and
  `CmdlineReadable` compare what the parsers make of a text with a definition;
  each says at which inputs the answer is another one: a space at the end of a
  line, a space in the name of a task, a char that is negative, a command line as
  long as the buffer.  `TextsTakenApart`: trimming, last path component and
  `gen_foreach_field`, whose last piece must not get lost.  `RecordsFound`: which
  record answers, what a callback is shown before it stops, and how exact the
  time of a process is if it fits an `int`.  `KindsTold`: the release in each of
  three layouts, and the type of an ELF file.
- **calls** - `HeldAreOpen`: no call closes a descriptor that is not its own,
  however the threads interleave; `OnlyKnownLeaks`: what nobody can close any
  more is from `file_execute_type`, `os_info_uuid` and `os_info_bootid`, an
  accepted connection nobody is told of, or descriptor 0 taken for a failure;
  `AsPromised`: a socket returned as connected is connected, one made
  non-blocking stays so, and no program executed by another thread ever inherits
  a descriptor of `fileutil_open_on_closeexec`.

Deadlock is checked in **lists** only.  The other systems do stop: the process
is killed by a signal and the bound on raised signals is used up (signals), the
bound on passes is used up (foreach), every launch serves or is gone
(instance), the function has returned (logins, netinfo), the question is
answered (results), every descriptor is lost or the program has crashed
(calls).

Fairness:

- `Signals!FairSpec` - weak fairness of the library's own steps, of a
  handler's return and of delivery: the process is scheduled, its handlers
  return, the kernel delivers what is pending and not masked.  Raising signals
  and calling the library are not fair.
- `Instance!FairSpec` - as long as some process can take a step one does, with
  no process preferred; starts and kills are not fair.  This is enough because
  of LOCK_NB: with a flock that waits (mutant `FlockWaits`) it is not.
- `Logins!FairSpec` - the function runs on; it has no other process to wait for.

## 4. What the code does otherwise than its documentation

The first three are runs that TLC is expected to refute, with the shortest such
behaviour.

- **signals_readd**, `fcp_signal.c:52`.  A second `sigutil_sig_add` overwrites
  the saved disposition by the program's own first handler, which
  `sigutil_sig_del` and `sigutil_sig_delall` then restore for good.
- **signals_unblock**, `fcp_signal.c:131`.  `sigutil_unblock_sig` unblocks the
  whole shadow set before it blocks the rest again: the handler of another
  blocked signal runs inside the call.
- **netinfo_stale**, `fcp_net.c:226`.  A socket without a process that can be
  read is reported with the pid of an earlier line.

Six more are about single answers.  What the repository says of each is stated
at the end of `Queries`, and `MCResultsDocs.cfg` has them all:
`tlc -continue -config MCResultsDocs.cfg MCResults` reports every one violated.
No property of the run results takes one of these answers for right.

- `SlashesGiveNull`, `genstring.c:66`.  `gen_path_last_component` gives the
  empty string for `/`, not NULL as the comments at `genstring.c:55` and
  `fcp_string.c:54` have it.
- `LocalMeansLocal`, `fcp_net.c:302`.  `com_is_local_ipv4` compares as many
  characters as the interface's address has: `10.0.0.12` is local if
  `10.0.0.1` is.  (It returns 1 or 0, not the 0 or negative number of
  `README.md:85`.)
- `IdsBare`, `fcp_os.c:281`.  `os_info_machine_id` keeps the newline of an
  id that `README.md:296` has 32 characters long: it looks for the terminator
  where `os_info` looks for the newline.
- `GoneProcessFails`, `fcp_proc.c:283`.  `process_cpu_mtime` returns 0 for a
  process that is gone, where `README.md:148` has -1.
- `CpuTimeTold`, `fcp_proc.c:276`.  It sums milliseconds in an `int`, which
  wraps after 24.8 days of CPU time.
- `FileTypesTold`, `fcp_file.c:32`.  `file_is_reg` and the others always
  say no, since `==` binds closer than `&`; `file_execute_type` works because
  of it (`KindsTold`).

What the modules of the passing runs show beside that, each stated where the
property is:

- `readlink` does not terminate the path (`fcp_net.c:97`): a shorter one is
  followed by the end of a longer one before it, so `PathBegins` says "begins".
- If a logout is missing after a crash (`fcp_os.c:237`), the next logout of the
  terminal is given to the old login, and the session it ended is not reported:
  `SessionsReported` needs `EverySessionEnds`.
- `listensock_callback` is never called and a null pointer is called without it
  (`fcp_socket.c:225`); `README.md:462` has the program set options in it.
- `netutil_socket_accept` returns the listening socket also if no connection
  was accepted (`fcp_socket.c:250`), though `README.md:457` has one for each
  return.
- `netutil_socket_nonblock_connect` closes a connection in progress
  (`fcp_socket.c:129`): it succeeds only where a non-blocking connect succeeds
  at once.
- `com_foreach_net_info` has no return statement after a complete iteration
  (`fcp_net.c:236`); the model returns "any".

## 5. The proofs

**SignalsProofs** proves, for every size of the table, every set of handlers,
every number of raised signals and every stack, the six properties of the run
signals: `TypeCorrect`, `NoNesting`, `RestorePoint`, `DelAllForgets`,
`ShadowFaithful`, `DeliveryInWindow`.  They rest on the assumptions of
`Signals` (TLC evaluates them on each run) and on `DeletingHandlers`, that
handlers call at most `sigutil_sig_del` and `sigutil_sig_delall`; the latter
is a hypothesis of every theorem but `TypeCorrect`.

The properties are not inductive.  `IInv` adds to the types

- `StackInv`: there is at most one handler, it runs with every catchable signal
  masked, and the only library function it can be in is `sigutil_sig_del`,
  alone or in the loop of `sigutil_sig_delall`;
- `KernelInv`: SIGKILL and SIGSTOP keep their default action and are never
  registered;
- `CallInv`: the statement at which the program's own frame stands determines
  the operation in progress;
- `RestoreInv`: how far an add or a delete has come: what the program finds
  without a handler is remembered in `foreign`, and a delete that has called
  `sigaction` and not yet cleared `inited` leaves a handler in force only if
  it restored one.  This is what keeps `RestorePointKept`, itself a part, true
  when a handler deletes the signal in the middle;
- `DelAllInv`: the loop of `sigutil_sig_delall` has cleared what it has passed;
- `MaskInv`: for each statement, how mask, shadow set and inherited mask are
  related while the call that moves them is under way.  The mask meant is the
  one of the program's own code (`MainMask`): the kernel's mask, or the one
  saved for it while a handler runs.

Lemmas say what a return, a jump and a `sigaction` change; then there is one
lemma per action, with a step for each part of the invariant it can disturb.

**CallsProofs** proves `OwnDescriptors`, `KnownLeaks` and `Promises` for any
number of threads and a table of any size, without a hypothesis.  What a call in
progress has is a sequence of one or two descriptors, so `IInv` says for each
stage which function it belongs to (`StageInv`); that a descriptor in use was
opened by the function that uses it, with the listening socket of an accept as
the only exception (`OwnInv`); that a call has done what it is about to promise
(`ReadyInv`); that two calls share at most descriptors of the program
(`Apart`); and that the program knows its own (`HeldInv`).  A new descriptor is
the lowest free one, hence in nobody's hands.  `Apart` is what the three
properties rest on: none of them is inductive, since each would be broken by a
call that closes or changes a number another call works with.

**InstanceProofs** proves five properties for any number of launches, any
descriptor limit, any set of programs and every failure and kill.  `NoStaleLock`,
`RaceHasWinner` and `DaemonLetsGo` need no hypothesis; `OneInstance` and
`InstanceOwnsLock` have `LockIsKept`, that each program satisfies `KeepsLock`
(section 6).  `IInv` has, per process, the steps its role allows, what it has
still to do and has been told (`TodoInv`), whose files are in its table and
where the lock is being opened (`TableInv`), and how far a daemon has detached
(`DetachInv`); and for all of them

- `LineInv`: a launch is one line of processes, who has forked does no more than
  exit.  Two believers are therefore of two launches, and the descriptions of
  two launches differ (`FilesAreApart`): this is `OneInstance`;
- `OwnerInv`: the lock belongs to a description somebody refers to, and the
  launch it belongs to has been told so;
- `AloneInv` and `RefusedInv`: who is told that the program runs had another
  launch beside it, or failed;
- `RaceInv`: while nothing fails, somebody may still win or has won.

`TableInv` has a case `KeepsLock` needs: if 0, 1 and 2 are inherited they are
never free, so the lock is never opened on one of them and
`taskutil_task_to_daemon` does not replace it.

**NetInfoProofs** proves `OwnerFound`, `NobodyMissed`, `PathOfOwner` and
`HeaderLeaksOnly` for any number of sockets and processes and paths of any
length; besides the bounds it uses only `InodeAssumption`, that no socket has
inode 0.  `WatchInv` ties the history to the world: whoever has the socket of
the line is in `had`, and who is in `kept` still has it and can be read.
`SearchInv` says where the search has been: as long as nothing failed, every
process in `kept` is at or after the cursor.  With that a process cannot be
missed although the owners before the cursor come and go.  `PathInv` and
`HandleInv` follow the path buffer and the two open files from step to step.

**ListsProofs** proves `ChainsAgree` (`Linked`) and that `Lists` implements
`Deque` (`RefinesDeque`) for any finite set of nodes.  `InsertIs`, `DelIs` and
`ReplaceIs` say, pointer by pointer, what the assignments of `list.h` amount to;
`InsertLinks`, `DelLinks`, `ReplaceLinks` what they do to linked chains.
`ReplaceLinks` covers a case no run reaches: a member that is its own neighbour,
which the chains alone do not exclude.  The refinement needs the order of the
nodes: `Chain` says that a sequence has the members, each once, with the head
before its first and after its last element, and each next to its neighbours;
`Image`, the inductive invariant, that the memory is the image of the sequence
`list_for_each` visits.  That sequence is a recursive function of the memory.  It
is shown to exist and to be the one a chain describes by the least step at which
the two would differ (`WalkExists`, `WalkIs`, `VisitsList`), which takes no
induction but the well-foundedness of the numbers; `FiniteAssumption`, that
there are finitely many nodes, bounds its length.  One lemma per operation
(`TailAppends`, `FrontPrepends`, `DelTakesOut`, `ReplaceExchanges`) says what
becomes of the sequence.  Each function is then shown to take its own step of
`Deque`, with its arguments and its result; the result of `list_size` is the
length of the sequence because its walk visits the same nodes (`Seen`).

**LoginsProofs** proves `ListWalkSafe`, `LeavesOnlyUnmatched`, `FirstLogoutWins`
and `ReportsSessions` for a file of any length and any terminals, with the real
pointers.  It never recurs over the list: nodes enter at the tail and leave
from anywhere, so the list is always in the order of the file, and `Ordered`
describes its pointers by their neighbours in a set.  Which set is known from the
history: the records loaded that are after the last one popped and have not
been reported as a logout (`Listed`).  `OrderedAdd` and `OrderedDel` rest on
`InsertIs` and `DelIs`.  `IInv` says at each statement how far the walk is
(`Walk`), that the logins before it have got their first free logout and no
later one has been reported (`Answered`, by `FirstFree`), and that the `next` read
before the body is still the successor (`ScanInv`).  `LeavesOnlyUnmatched`
follows because what is allocated is the list and the logins that left it
without a logout (`Left`).  `ReportsSessions` is a consequence of
`FirstLogoutWins`: in a file in which each session ends, a first pair that is
no session would have taken a logout from an earlier one.

**ForeachProofs** proves `NoBadAccess`, `AllReleased` and that
`Foreach` implements `Cursor` (`RefinesCursor`), for sources of any length and
any number of passes.  The hypothesis `EntryIsZeroed` is the case of section 6:
only `general_foreach_inode_entry` is called after its end without zeroing the
entry.  `HeapInv` lists for each iterator exactly what is allocated in a loop
body, and says that outside of one nothing is; `ServedInv` relates what a pass
has handed out to the position in the node.  One lemma per branch
(`InodeReads`, `FieldReads`, `ArpReads`, `InodeStops`, `FieldEnds`, `ArpEnds`)
shows that a call either serves the next item or ends with everything released,
and ends without a failure only after the last item (`Answers`); the caller's
four kinds of call are all such calls (`CallOf`), and one lemma shows that these
keep the invariant (`InvokeKeeps`), one that they are steps of the cursor
(`InvokeMaps`).

**ResultsProofs** proves what the run results checks, for blocks, words, reads,
texts and logs of any size.

*MD5* (`ContextHoldsMessageAlways`, `WholeFileDigestedAlways`,
`ImplementsHashAlways`).  The inductive invariant is `Holds(c, m)`: the two
words count the bits of the message so far, each modulo `2^W`; the blocks
compressed are its full blocks; the buffer begins with the rest of it.
`UpdateHolds` shows that `md5_update` makes `Holds(c', m \o input)` of it, in
the case that fills the buffer and in the one that does not; the carry
between the words is arithmetic of remainders.  `FinalisedIs` shows that padding
and length complete the blocks of the padded message, and that one block or two
are added where the padding of the definition says so.  The invariant of a file
adds that what was read is what was hashed.  A power of two is counted as the
subsets of an interval, since exponentiation is unknown to the provers, and
division is used through its bounds.

*Command lines* (`CmdlineReadableAlways`).  `LineEnds` says how far `fgets` gets,
`LoopStops` where the loop stops, and the buffer follows place by place.  There
are three cases: a newline in the part that is read, room for two terminators
behind the line, and neither; the last is the one that leaves no terminator.

*base64* (`Base64InvertsAlways`).  Bits of three octets in groups of six are what
the shifts and masks compute (`SextetsAre`); a negative char makes one of its
four lookups fall outside the table (`CodeIsOutside`); four places give back
their three octets (`BytesAre`), and counting the pad characters gives the size
of the buffer (`PadsAre`).

*Fields* (`FieldsAreWordsAlways`).  Of a line only the set of its spaces and the
set of its blanks matter.  `LastField` and `NextOne` are one step of the loop:
behind a word there is none, or the next one in the order of the line.  The
loop is a recursive function; the function `Begin`, which gives the word at each
place, satisfies its equation (`BeginStep`), so there is one, and there is no
other, by the least field where two would differ (`StartsAre`).

*Tasks* (`StatIsTasksAlways`).  The line is the name between two fixed parts, so
the places of its nine fields are known from the length of the name
(`TaskBegins`), as soon as there is no space in it.

*Texts, records and kinds* (`TextsTakenApartAlways`, `RecordsFoundAlways`,
`KindsToldAlways`): one lemma per function.  Most look for an extreme place (the
last record of its kind, the last character that is no white space, the last
slash before a component).  Four are loops that carry a value from element to
element, recursive functions here: `RunExists` shows that such a function
exists, `StepsTo` that what each step keeps holds at its end.
`gen_foreach_field` carries a place in the line: after `k` calls it stands
behind the `k`-th piece.  `process_cpu_mtime` keeps `Timed`, that after `k` threads the `int`
is what it makes of a number of milliseconds at most `k` less than the exact
one; `com_foreach_local_ipv4` and `os_info_running_tty` keep `Saw`, that the
callback saw the first elements of their kind in their order.

What these theorems assume about their input is `Legal`: a command line and an
address are not empty, the buffer of `process_cmdline` has room for a character
and a terminator, a char has eight bits and the string no terminator in it, the
name of a task no newline (the kernel escapes it), the records of a log are in
the order of time, and the answer that makes a walk over the addresses stop is
not 0.

The inductive invariants of `Calls`, `Foreach`, `Instance`, `Lists`, `Logins`,
`Md5` and `NetInfo` also hold in every state TLC finds for the component's run.

Only model-checked: everything about liveness (`CallReturns`, `LaunchSettles`,
`Returns`), which is out of the prover's reach.

## 6. What the results depend on

- **Handlers that register.**  A handler that calls `sigutil_sig_add` between
  the `sigaction` and the `inited = 0` of a `sigutil_sig_del` it interrupted
  leaves a handler in force that the library has forgotten; one that calls
  `sigutil_block_sig` has its effect on the mask undone when it returns, while
  the shadow set keeps it.  With these calls in `HandlerCalls` TLC finds both.
- **Programs that keep the lock.**  `taskutil_task_to_daemon` without
  `nofileclose` closes the descriptor of the lock, and replaces it if it is 0,
  1 or 2.  `KeepsLock` excludes programs that lock first and let this happen;
  with one of them TLC reports two instances.
- **No call after the end** for `gen_foreach_field` and `fcp_foreach_comm_arp`
  without zeroing the entry: their `done` label leaves pointers behind.  With
  them in `CallAfterEnd` TLC reports a double free and a use after close.
- **A program that closes only what it has.**  `ProgramCloses` never closes a
  descriptor another thread's call is using, nor one it was not given.  A daemon
  that sweeps its descriptors is in `Instance`.
- **Inputs below 4 GiB.**  `md5_update` compares `i+64` with the length in an
  unsigned int (`genmd5.c:202`); for one input that ends less than a block below
  2^32 bytes the sum wraps and the loop has no end.  `Md5!Inputs` bounds what is
  given to one call; the length of a message is not bounded by it.
- **A reader in time.**  The functions of `Queries` see one content of a file:
  `/proc` and the login records are read by one `read` or one record at a time,
  and a file that changes in between may give a mixture.
- **Interfaces with an address.**  `com_foreach_local_ipv4` and
  `com_is_local_ipv4` follow `ifa_addr`, which is null for an interface that
  has none (`fcp_net.c:253`); the lists of the run have none such.
- **A stable owner.**  `PathBegins` and `MissesNoOwner` speak about processes
  that keep the socket from the line to the callback.  About others nothing can
  be promised by a scan of `/proc`.

## 7. What is not modelled, and the plan

- `genlog.c`: two callbacks that are set before the library is used, and
  formatted output; the programs in `src/src/example`.
- `genmm.c`: `gen_mm_realloc` and `gen_mm_recalloc` are one realloc and a memset
  behind a test of their arguments.
- `taskutil_kill_task` and `os_current_user`: one call of the C library each.
  Of `taskutil_current_session`, `process_max_number` and the ping switch only
  the descriptors are modelled, their value is one number read or written.
- The compression of an MD5 block (`genmd5.c:84-169`), left free.
- The columns of `/proc/net/*` other than the inode, the user and host of a
  login and the text of paths; the sizes of buffers that hold what their
  functions read, except where a function is given the size
  (`process_cmdline`, `os_info_*`).
- Memory is sequentially consistent and a system call is atomic.

Every invariant, step property and refinement that a passing run checks is
proved, some under the hypotheses of section 6.  What the plan has left is to
keep the modules beside the code.
