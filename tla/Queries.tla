------------------------------ MODULE Queries -------------------------------
(***************************************************************************)
(* What the functions of the library answer that read a file of /proc or   *)
(* /etc, the login records or the interface list (fcp_proc.c, fcp_os.c,    *)
(* fcp_file.c, fcp_net.c, general.c), as functions of what they read, and  *)
(* the string functions of Strings.  That the files can be missing and     *)
(* that they are closed again is the matter of Calls.                      *)
(*                                                                         *)
(* A program asks one question: the answer is a function of the question.  *)
(***************************************************************************)
EXTENDS Strings, SequencesExt

CONSTANTS
  Asked,      \* for every function the inputs it is asked with, some of Legal
  IntBits,    \* bits of an int: 32
  Unit        \* nanoseconds in a millisecond: 1000000

ASSUME UnitsAssumption == IntBits \in Nat \ {0, 1} /\ Unit \in Nat \ {0}

VARIABLE call   \* the function asked and its input

QueryInit == call = [fn |-> "none"]

Ask(fn) ==
  /\ call.fn = "none"
  /\ \E input \in Asked[fn] : call' = [fn |-> fn, in |-> input]

QueryNext == \E fn \in DOMAIN Asked : Ask(fn)

-----------------------------------------------------------------------------
(* /proc/<pid>/stat.  A task's numbers are single digits here, in the      *)
(* order of the file; the last one is its flags, PF_KTHREAD being 9.       *)

PF_KTHREAD == "9"
Digits == {"0", "1", "2", "3", "4", "5", "6", "7", "8", "9"}

\* What the kernel writes: comm in parentheses, as it is, then the rest.
StatLine(task) ==
  <<"1", " ", "(">> \o task.comm \o <<")", " ", task.state, " ", "2", " ", "3", " ",
    "4", " ", "5", " ", "6", " ", task.flags, " ", "0", "\n">>

atoi(s) == IF s # <<>> /\ s[1] \in Digits THEN s[1] ELSE "0"

States == [R |-> "RUNNIG", S |-> "INTERRUPTIBLE", D |-> "UNINTERRUPTIBLE",
           Z |-> "ZOMBIE", T |-> "STOP", t |-> "TASK_TRACED", X |-> "DEAD", x |-> "DEAD"]

StateOf(field) ==
  IF Len(field) = 1 /\ field[1] \in DOMAIN States THEN States[field[1]] ELSE "UNKNOW"

\* Mutant: the parenthesis at the end is kept.
CommUncut(field) == Tail(field)

\* field[1] + 1 without one closing parenthesis.  Of an empty name the code
\* tests the byte before it, the highest one of pid, which no pid makes a
\* parenthesis.
CommOf(field) ==
  LET comm == Tail(field) IN
  IF comm # <<>> /\ Last(comm) = ")" THEN Front(comm) ELSE comm

taskutil_task_proc_stat(line) ==
  LET field == general_get_field(line, 9) IN
  [pid |-> atoi(field[1]), comm |-> CommOf(field[2]), state |-> StateOf(field[3]),
   ids |-> [k \in 1 .. 5 |-> atoi(field[k + 3])], flags |-> atoi(field[9])]

taskutil_kernel_task(line) == taskutil_task_proc_stat(line).flags = PF_KTHREAD

-----------------------------------------------------------------------------
(* process_cmdline.  The buffer is filled with newlines, fgets writes what *)
(* fits and a terminator, and the loop makes blanks of the terminators up  *)
(* to the first newline, which becomes the terminator.                     *)

NUL == "NUL"

\* Mutant: the buffer is zeroed, as buffers usually are.
FillZero == NUL

Fill == "\n"

process_cmdline(bytes, size) ==
  LET line == Min({i \in DOMAIN bytes : bytes[i] = "\n"} \cup {Len(bytes)})
      got == Min({line, size - 1})
      raw == [i \in 1 .. size |->
                IF i <= got THEN bytes[i] ELSE IF i = got + 1 THEN NUL ELSE Fill]
      nl == Min({i \in 1 .. size : raw[i] = "\n"} \cup {size + 1})
  IN [i \in 1 .. size |->
        CASE i = nl -> NUL
          [] i < nl /\ raw[i] = NUL -> " "
          [] OTHER -> raw[i]]

\* What an int makes of a longer number.
ToInt(n) == ((n + 2^(IntBits - 1)) % 2^IntBits) - 2^(IntBits - 1)

\* The nanoseconds of each thread, -1 if its schedstat could not be read;
\* summt[k]: the milliseconds after k of them.
process_cpu_mtime(threads) ==
  LET summt[k \in 0 .. Len(threads)] ==
        IF k = 0 THEN 0
        ELSE IF threads[k] < 0 THEN summt[k - 1]
        ELSE ToInt(summt[k - 1] + threads[k] \div Unit)
  IN summt[Len(threads)]

-----------------------------------------------------------------------------
(* Login records, ids, the release file, files by type, addresses.         *)

os_info_boot_time(utmp) ==
  LET boots == {i \in DOMAIN utmp : utmp[i].user = "reboot" /\ utmp[i].type = "BOOT_TIME"}
  IN IF boots = {} THEN -1 ELSE utmp[Min(boots)].time

os_info_last_shutdow_time(wtmp) ==
  LET downs == {i \in DOMAIN wtmp : wtmp[i].user = "shutdown" /\ wtmp[i].type = "RUN_LVL"}
  IN IF downs = {} THEN -1 ELSE wtmp[Max(downs)].time

\* Mutant: one more is handed over before the callback's answer is looked at.
HandedOneMore(list, taken, stop) ==
  LET seen[i \in 0 .. Len(list)] ==
        IF i = 0 THEN <<>>
        ELSE IF i \notin taken \/ Len(seen[i - 1]) > stop THEN seen[i - 1]
        ELSE Append(seen[i - 1], list[i])
  IN seen[Len(list)]

\* The elements of a list, at the places "taken", that are handed to a
\* callback which stops at the one numbered "stop".
Handed(list, taken, stop) ==
  LET seen[i \in 0 .. Len(list)] ==
        IF i = 0 THEN <<>>
        ELSE IF i \notin taken \/ Len(seen[i - 1]) = stop THEN seen[i - 1]
        ELSE Append(seen[i - 1], list[i])
  IN seen[Len(list)]

os_info_running_tty(utmp, stop) ==
  Handed(utmp, {i \in DOMAIN utmp : utmp[i].type = "USER_PROCESS"}, stop)

\* The line of a one-line file in a buffer of size bytes.
Fgets(line, size) == SubSeq(line, 1, Min({Len(line), size - 1}))

\* uuid and boot id lose their newline.
os_info(line, size) ==
  LET got == Fgets(line, size) IN IF Last(got) = "\n" THEN Front(got) ELSE got

\* The test for the newline compares with the terminator instead.
os_info_machine_id(line, size) == Fgets(line, size)

\* Mutant: the word before is not tried.
VersionAtOnce(words, fieldnum) ==
  IF Len(words) < fieldnum THEN NULL ELSE <<words[1].name, words[fieldnum].number>>

\* A word of the release file: its number before the dot, 0 if it is a name.
general_os_version_con(words, fieldnum) ==
  IF Len(words) < fieldnum THEN NULL
  ELSE IF words[fieldnum].number = 0 /\ fieldnum > 2
       THEN <<words[1].name, words[fieldnum - 1].number>>
       ELSE <<words[1].name, words[fieldnum].number>>

\* redhat: the words of /etc/redhat-release or NULL; issue: of /etc/issue.
general_os_version(redhat, issue) ==
  LET version == IF redhat # NULL THEN general_os_version_con(redhat, 4)
                 ELSE IF issue # NULL THEN general_os_version_con(issue, 2) ELSE NULL
  IN CASE version = <<"ubuntu", 18>> -> "UBUNTU18"
       [] version = <<"centos", 7>> -> "CENTOS7"
       [] version = <<"centos", 6>> -> "CENTOS6"
       [] OTHER -> "-1"

\* The mode of a file that cannot be stat'ed or opened.
NoMode == -1

S_IFMT == 61440
S_IFREG == 32768
S_IFLNK == 40960
S_IFDIR == 16384

\* st_mode & S_IFMT == type: the comparison binds closer.
judge_file_type(mode, type) ==
  mode # NoMode /\ (IF S_IFMT = type THEN mode % 2 ELSE 0) = 1

ElfTypes == {"REL", "EXEC", "DYN", "CORE"}
Bit(mode, bit) == (mode \div bit) % 2 = 1

\* A file has a mode, a size and a beginning: that of an ELF file, of a
\* script, or another; 52 bytes are an Elf32_Ehdr.
taskutil_elf_type(f) ==
  IF f.mode = NoMode THEN "ERROR"
  ELSE IF f.size >= 52 /\ f.head = "ELF" /\ f.etype \in ElfTypes THEN f.etype ELSE "OTHER"

file_execute_type(f) ==
  CASE f.mode = NoMode \/ f.size = 0 \/ 
       (judge_file_type(f.mode, S_IFREG) /\ ~judge_file_type(f.mode, S_IFLNK)) -> "NOTEXEC"
    [] OTHER ->
         CASE f.head = "ELF" /\ f.size >= 52 /\ f.etype \in ElfTypes -> f.etype
           [] f.head \in {"bash", "sh"} -> "SHELL_SCRPT"
           [] f.head = "python" -> "PYTHON_SCRPT"
           [] OTHER -> IF Bit(f.mode, 64) \/ Bit(f.mode, 8) \/ Bit(f.mode, 1)
                       THEN "SUSPICIOUS_SCRPT" ELSE "NOTEXEC"

\* strncmp with the length of the interface's address, which is AF_INET or not.
com_is_local_ipv4(addr, interfaces) ==
  addr # <<>> /\ \E i \in DOMAIN interfaces :
    interfaces[i].inet /\ IsPrefix(interfaces[i].addr, addr)

\* The addresses the callback sees when it answers 0 (continue) to the first
\* n of them and "last" to the next one, and what is returned then.
com_foreach_local_ipv4(interfaces, n, last) ==
  LET seen == Handed(interfaces, {i \in DOMAIN interfaces : interfaces[i].inet}, n + 1)
  IN [seen |-> seen, ret |-> IF Len(seen) <= n \/ last = -1 THEN 0 ELSE last]

-----------------------------------------------------------------------------
(* What the program may ask: a command line is not empty (the functions    *)
(* return before that) and there is room for a character; a char has 8     *)
(* bits and a sign; the kernel escapes a newline in the name of a task,    *)
(* whose state is a letter of any kind; records are in the order of time;  *)
(* an address or id is not empty; a callback stops with an answer that is  *)
(* not 0.                                                                  *)
Char == -128 .. 127

Legal ==
  [cmdline |-> [bytes : Seq(STRING) \ {<<>>}, size : Nat \ {0, 1}],
   base64 |-> [str : Seq(Char \ {0}), past : Char],
   field |-> [line : Seq(STRING), fieldnum : Nat \ {0}],
   stat |-> [comm : Seq(STRING \ {"\n"}), state : STRING \ Space, flags : Digits],
   strim |-> Seq(STRING),
   component |-> Seq(STRING),
   items |-> [line : Seq(STRING), key : STRING],
   cputime |-> Seq(Nat \cup {-1}),
   times |-> {log \in Seq([user : STRING, type : STRING, time : Nat]) :
                \A i, j \in DOMAIN log : i <= j => log[i].time <= log[j].time},
   release |-> [name : STRING, number : Nat, layout : {"long", "short", "issue"}],
   ids |-> [id : Seq(STRING) \ {<<>>}, size : Nat \ {0}],
   exec |-> [mode : Nat \cup {NoMode}, size : Nat, head : STRING, etype : STRING],
   local |-> [addr : Seq(STRING) \ {<<>>},
              interfaces : Seq([inet : BOOLEAN, addr : Seq(STRING)])],
   walk |-> [interfaces : Seq([inet : BOOLEAN, addr : Seq(STRING)]), n : Nat, last : Int \ {0}],
   users |-> [log : Seq([user : STRING, type : STRING, time : Nat]), stop : Nat \ {0}]]

ASSUME AskedAssumption ==
  \A fn \in DOMAIN Asked \cap DOMAIN Legal : Asked[fn] \subseteq Legal[fn]

QuerySpec == QueryInit /\ [][QueryNext]_call

-----------------------------------------------------------------------------
(***************************************************************************)
(* general_get_field (general.c:153-191), with the key ' ', returns the    *)
(* words of the line, in order and whole, as many as there is room for:    *)
(* a space and the blanks behind it separate them, a tab alone does not.   *)
(* Only a space at the end of the line adds an empty field, and only a     *)
(* line with leading spaces keeps its newline.                             *)
(***************************************************************************)
LineOf(line) ==
  IF line # <<>> /\ line[1] # " " /\ Last(line) = "\n" THEN Front(line)
  ELSE From(line, Skip(line, 1, {" "}))

Separates(s, j, i) ==
  j < i /\ s[j] = " " /\ \A k \in j .. i - 1 : s[k] \in {" ", "\t"}

BeginsWord(s, i) ==
  i = 1 \/ (s[i] \notin {" ", "\t"} /\ \E j \in 1 .. i : Separates(s, j, i))

WordAt(s, i) ==
  SubSeq(s, i, Max({j \in i .. Len(s) : \A k \in i .. j : s[k] # " "}))

FieldsAreWords ==
  call.fn = "field" =>
    LET s == LineOf(call.in.line)
        words == {i \in DOMAIN s : BeginsWord(s, i)}
        place(i) == Cardinality({j \in words : j <= i})
        behind == Cardinality(words) + 1
        field == general_get_field(call.in.line, call.in.fieldnum)
    IN IF s = <<>> THEN field = <<>>
       ELSE /\ \A i \in words : place(i) <= call.in.fieldnum => field[place(i)] = WordAt(s, i)
            /\ \A k \in behind .. call.in.fieldnum :
                 field[k] = IF k = behind /\ \E j \in DOMAIN s : Separates(s, j, Len(s) + 1)
                            THEN <<>> ELSE NULL

(***************************************************************************)
(* taskutil_task_proc_stat and taskutil_kernel_task (fcp_proc.c:143-248)   *)
(* describe the task of the line: its name may hold parentheses, but once  *)
(* it holds a space everything behind the name is another field's, and     *)
(* only the pid is sure to be right.                                       *)
(***************************************************************************)
StatIsTasks ==
  call.fn = "stat" =>
    LET task == call.in
        stat == taskutil_task_proc_stat(StatLine(task))
    IN /\ stat.pid = "1"
       /\ ~Contains(task.comm, " ") =>
            /\ stat = [pid |-> "1", comm |-> task.comm,
                       state |-> IF task.state \in DOMAIN States
                                 THEN States[task.state] ELSE "UNKNOW",
                       ids |-> <<"2", "3", "4", "5", "6">>, flags |-> task.flags]
            /\ taskutil_kernel_task(StatLine(task)) <=> task.flags = PF_KTHREAD

(***************************************************************************)
(* gen_base64_encode and gen_base64_decode (genstring.c:182-271) against   *)
(* RFC 4648: the bits of the bytes in groups of six.  A text of 7-bit      *)
(* chars is encoded right whatever lies behind its terminator, any other   *)
(* char makes the encoder look outside its table; what another encoder     *)
(* made of any bytes is decoded right, but with two pad characters one     *)
(* byte more is written than the buffer has.                               *)
(***************************************************************************)
BitOf(bytes, b) ==
  IF b < 8 * Len(bytes) THEN (bytes[b \div 8 + 1] \div 2^(7 - (b % 8))) % 2 ELSE 0

Sextet(bytes, k) ==
  LET bit(i) == BitOf(bytes, 6 * (k - 1) + i) IN
  32 * bit(0) + 16 * bit(1) + 8 * bit(2) + 4 * bit(3) + 2 * bit(4) + bit(5)

Standard(bytes) ==
  LET n == Len(bytes)
      used == (8 * n + 5) \div 6
  IN [k \in 1 .. 4 * ((n + 2) \div 3) |-> IF k <= used THEN Sextet(bytes, k) ELSE PadChar]

Base64Inverts ==
  call.fn = "base64" =>
    LET bytes == [i \in DOMAIN call.in.str |-> call.in.str[i] % 256]
        code == gen_base64_encode(call.in.str, call.in.past)
        text == gen_base64_decode(Standard(bytes))
    IN /\ \A i \in DOMAIN call.in.str : call.in.str[i] >= 0 \/ Contains(code, Outside)
       /\ Contains(code, Outside) \/ code = Standard(bytes)
       /\ text = [out |-> bytes, over |-> IF Len(bytes) % 3 = 1 THEN 1 ELSE 0]

(***************************************************************************)
(* process_cmdline (fcp_proc.c:287-324) gives the arguments separated by   *)
(* blanks, up to the first newline in them and with two blanks at the end  *)
(* of the last one, if the buffer has room for one byte more than fgets    *)
(* needs.  A command line that fills the buffer is left without a          *)
(* terminator, all size bytes of it being characters.                      *)
(***************************************************************************)
Joined(bytes) == [i \in DOMAIN bytes |-> IF bytes[i] = NUL THEN " " ELSE bytes[i]]

CmdlineReadable ==
  call.fn = "cmdline" =>
    LET bytes == call.in.bytes
        size == call.in.size
        buffer == process_cmdline(bytes, size)
        newlines == {i \in DOMAIN bytes : bytes[i] = "\n" /\ i < size}
        text == IF newlines # {} THEN SubSeq(bytes, 1, Min(newlines) - 1)
                ELSE Append(bytes, NUL)
    IN IF newlines # {} \/ Len(bytes) + 1 < size
       THEN IsPrefix(Append(Joined(text), NUL), buffer)
       ELSE ~Contains(buffer, NUL)

(***************************************************************************)
(* Texts are taken apart where they should be (genstring.c:21-83, 135-157).*)
(* gen_strim takes the blanks at both ends and nothing else;               *)
(* gen_path_last_component finds the last component of a path that has     *)
(* one, with the slashes behind it; the calls of gen_foreach_field hand    *)
(* out the pieces between separators, in order and without the blanks      *)
(* before them, and leave out the empty ones: the last piece is handed out *)
(* whether or not a separator or a newline follows.                        *)
(***************************************************************************)
TrimmedIs(s, t) ==
  /\ \E i \in 0 .. Len(s) : \E j \in i .. Len(s) :
       /\ t = SubSeq(s, i + 1, j)
       /\ \A k \in 1 .. i : s[k] \in Space
       /\ \A k \in j + 1 .. Len(s) : s[k] \in Space
  /\ t # <<>> => t[1] \notin Space /\ Last(t) \notin Space

HasComponent(path) == \E i \in DOMAIN path : path[i] # "/"

LastComponentIs(path, t) ==
  \E i \in DOMAIN path :
    /\ t = From(path, i)
    /\ path[i] # "/" /\ (i = 1 \/ path[i - 1] = "/")
    /\ \A k \in i .. Len(path) - 1 : path[k] = "/" => path[k + 1] = "/"

\* The first character of a piece that is no blank.
BeginsPiece(s, i, key) ==
  /\ s[i] \notin {" ", "\t", key}
  /\ \A j \in 1 .. i - 1 : s[j] \in {" ", "\t", key} \/ \E k \in j .. i - 1 : s[k] = key

PiecesAre(line, key, pieces) ==
  LET s == Copied(line)
      begins == {i \in DOMAIN s : BeginsPiece(s, i, key)}
      place(i) == Cardinality({j \in begins : j <= i})
  IN /\ Len(pieces) = Cardinality(begins)
     /\ \A i \in begins : pieces[place(i)] = SubSeq(s, i, KeyFrom(s, i, key) - 1)

TextsTakenApart ==
  CASE call.fn = "strim" -> TrimmedIs(call.in, gen_strim(call.in))
    [] call.fn = "component" ->
         HasComponent(call.in) => LastComponentIs(call.in, gen_path_last_component(call.in))
    [] call.fn = "items" ->
         PiecesAre(call.in.line, call.in.key, gen_foreach_field(call.in.line, call.in.key))
    [] OTHER -> TRUE

(***************************************************************************)
(* A scan of records finds what it is for (fcp_os.c:82-171, fcp_net.c:     *)
(* 238-278, fcp_proc.c:250-284).  The boot time is that of the first boot  *)
(* record, the shutdown time that of the last orderly shutdown, -1 without *)
(* one; a callback sees the users, or the IPv4 addresses, in their order   *)
(* and none behind the one it stopped at, which com_foreach_local_ipv4     *)
(* does not take for a failure; the time of a process of which a thread    *)
(* could be read is exact to a millisecond a thread if it fits an int.     *)
(***************************************************************************)
TimesAre(log) ==
  LET at(user, type) == {log[i].time : i \in {j \in DOMAIN log : log[j].user = user /\ log[j].type = type}}
  IN /\ os_info_last_shutdow_time(log) = Max(at("shutdown", "RUN_LVL") \cup {-1})
     /\ LET boots == at("reboot", "BOOT_TIME")
        IN os_info_boot_time(log) = IF boots = {} THEN -1 ELSE Min(boots)

SeesFirst(seen, list, taken, stop) ==
  /\ Len(seen) = Min({Cardinality(taken), stop})
  /\ \A i \in taken :
       LET place == Cardinality({j \in taken : j <= i}) IN place <= stop => seen[place] = list[i]

CallbackSees(interfaces, n, last) ==
  LET walk == com_foreach_local_ipv4(interfaces, n, last)
      inet == {i \in DOMAIN interfaces : interfaces[i].inet}
  IN /\ SeesFirst(walk.seen, interfaces, inet, n + 1)
     /\ walk.ret # 0 <=> Cardinality(inet) > n /\ last # -1

UsersAre(log, stop) ==
  SeesFirst(os_info_running_tty(log, stop), log,
            {i \in DOMAIN log : log[i].type = "USER_PROCESS"}, stop)

\* The time of all threads that could be read, in milliseconds.
Exact(threads) ==
  LET total[k \in 0 .. Len(threads)] ==
        IF k = 0 THEN 0
        ELSE IF threads[k] < 0 THEN total[k - 1] ELSE total[k - 1] + threads[k]
  IN total[Len(threads)] \div Unit

SomeRead(threads) == \E k \in DOMAIN threads : threads[k] >= 0

CpuTimeIs(threads, ms) == ms >= 0 /\ ms \in Exact(threads) - Len(threads) .. Exact(threads)

RecordsFound ==
  CASE call.fn = "times" -> TimesAre(call.in)
    [] call.fn = "walk" -> CallbackSees(call.in.interfaces, call.in.n, call.in.last)
    [] call.fn = "users" -> UsersAre(call.in.log, call.in.stop)
    [] call.fn = "cputime" ->
         SomeRead(call.in) /\ Exact(call.in) < 2^(IntBits - 1) =>
           CpuTimeIs(call.in, process_cpu_mtime(call.in))
    [] OTHER -> TRUE

(***************************************************************************)
(* The kind of a system and of a file is told whatever the layout of what  *)
(* tells it (general.c:194-292, fcp_file.c:26-120, fcp_proc.c:29-64).  The *)
(* releases of the two files are those the comments of general.c quote.  A *)
(* file with the header of an ELF file has the same type for taskutil and  *)
(* for file_execute_type, which would turn every regular file away if      *)
(* judge_file_type, which it asks first, ever said yes.                    *)
(***************************************************************************)
Word(name, number) == [name |-> name, number |-> number]

ReleaseIs(name, number, layout) ==
  LET long == <<Word(name, 0), Word("linux", 0), Word("release", 0), Word("", number), Word("(core)", 0)>>
      short == <<Word(name, 0), Word("release", 0), Word("", number), Word("(final)", 0)>>
      issue == <<Word(name, 0), Word("", number), Word("lts", 0)>>
      answer == CASE layout = "long" -> general_os_version(long, issue)
                  [] layout = "short" -> general_os_version(short, issue)
                  [] layout = "issue" -> general_os_version(NULL, issue)
  IN answer = CASE name = "ubuntu" /\ number = 18 -> "UBUNTU18"
                [] name = "centos" /\ number = 7 -> "CENTOS7"
                [] name = "centos" /\ number = 6 -> "CENTOS6"
                [] OTHER -> "-1"

ExecutableIs(f) ==
  f.mode # NoMode /\ f.size >= 52 /\ f.head = "ELF" /\ f.etype \in ElfTypes =>
    file_execute_type(f) = f.etype /\ taskutil_elf_type(f) = f.etype

KindsTold ==
  CASE call.fn = "release" -> ReleaseIs(call.in.name, call.in.number, call.in.layout)
    [] call.fn = "exec" -> ExecutableIs(call.in)
    [] OTHER -> TRUE

-----------------------------------------------------------------------------
(***************************************************************************)
(* What the repository says of these functions and the code does not do.   *)
(* None of the following holds: MCResultsDocs.cfg has TLC report each.     *)
(***************************************************************************)

\* A path of nothing but slashes has no last component and gives NULL
\* (genstring.c:55, fcp_string.c:54-55).
SlashesGiveNull ==
  call.fn = "component" /\ ~HasComponent(call.in) => gen_path_last_component(call.in) = NULL

\* com_is_local_ipv4 tells whether an address is one of this host's
\* (README.md:81).
LocalMeansLocal ==
  call.fn = "local" =>
    (com_is_local_ipv4(call.in.addr, call.in.interfaces) <=>
     \E i \in DOMAIN call.in.interfaces :
       call.in.interfaces[i].inet /\ call.in.interfaces[i].addr = call.in.addr)

\* An id that fits the buffer, newline and terminator included, is returned as
\* the id and no more (README.md:296), as uuid and boot id are.
IdsBare ==
  call.fn = "ids" =>
    LET line == Append(call.in.id, "\n") IN
    Len(line) < call.in.size =>
      /\ os_info(line, call.in.size) = call.in.id
      /\ os_info_machine_id(line, call.in.size) = call.in.id

\* process_cpu_mtime returns -1 when it fails (README.md:148): no thread of
\* the process could be read, because it is gone.
GoneProcessFails ==
  call.fn = "cputime" /\ ~SomeRead(call.in) => process_cpu_mtime(call.in) = -1

\* process_cpu_mtime returns the time of a process in milliseconds
\* (README.md:148).
CpuTimeTold ==
  call.fn = "cputime" /\ SomeRead(call.in) =>
    CpuTimeIs(call.in, process_cpu_mtime(call.in))

\* file_is_dir and file_is_reg tell what a file is (README.md:333-338).
FileTypesTold ==
  call.fn = "exec" /\ call.in.mode # NoMode =>
    \A type \in {S_IFREG, S_IFDIR} :
      judge_file_type(call.in.mode, type) <=> 4096 * ((call.in.mode \div 4096) % 16) = type
=============================================================================
