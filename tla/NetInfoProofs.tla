--------------------------- MODULE NetInfoProofs ----------------------------
(***************************************************************************)
(* Proofs about NetInfo, for any number of sockets and processes, paths of *)
(* any length and whatever the other processes do during the call.         *)
(***************************************************************************)
EXTENDS NetInfo, NaturalsInduction, WellFoundedInduction, TLAPS

Searching == {"proc", "fds", "exe", "call"}

TypeInv ==
  /\ run \in [Pids -> Nat]
  /\ owns \in [Pids -> SUBSET Sockets]
  /\ pc \in {"open", "header", "line", "proc", "fds", "exe", "call", "close", "done"}
  /\ info \in [sock : Sockets \cup {NoInode}, inode : Sockets \cup {NoInode},
               pid : Pids \cup {NoPid}, path : Seq(Pids \X Nat)]
  /\ cursor \in Nat
  /\ found \in BOOLEAN
  /\ failures \in [all : Nat, line : Nat]
  /\ kept \subseteq Pids

\* Who has descriptors is a process.
LiveInv == \A p \in Pids : owns[p] # {} => Live(p)

\* What has been watched since the line was read.
WatchInv ==
  pc \in Searching =>
    /\ info.sock \in Sockets
    /\ info.inode \in {info.sock, NoInode}
    /\ Have(info.sock) \subseteq had
    /\ kept \subseteq Have(info.sock) \ hidden
    /\ kept # {} => info.inode = info.sock

\* Where the search has been: nobody it passed over had the socket all along,
\* unless something failed.
SearchInv ==
  /\ pc \in {"fds", "exe"} => cursor \in Pids
  /\ pc = "fds" => ~ found
  /\ pc = "exe" => found
  /\ pc \in Searching /\ found =>
       /\ info.pid = cursor
       /\ cursor \in had
  /\ pc \in Searching /\ failures.line = 0 =>
       \A q \in kept : IF found \/ pc = "fds" THEN cursor <= q ELSE cursor < q
  /\ pc = "call" /\ ~ found /\ failures.line = 0 => kept = {}

PathInv ==
  pc \in {"proc", "call"} /\ found /\ failures.line = 0 /\ info.pid \in kept =>
    SubSeq(info.path, 1, PathLen[info.pid]) = PathOf(info.pid, run[info.pid])

HandleInv ==
  /\ pc \in {"proc", "fds", "exe"} => handles = {"net", "proc"}
  /\ pc \in {"header", "line", "call", "close"} => handles = {"net"}
  /\ pc = "done" /\ ret = "any" => handles = {}

IInv == TypeInv /\ LiveInv /\ WatchInv /\ SearchInv /\ PathInv /\ HandleInv

-----------------------------------------------------------------------------
\* The iterator over /proc finds the next process.
LEMMA SmallestIsIn ==
  ASSUME NEW S \in SUBSET Pids, S # {}
  PROVE  LET m == CHOOSE p \in S : \A q \in S : p <= q IN m \in S /\ \A q \in S : m <= q
<1>1. S \subseteq Nat
  BY BoundAssumption DEF Pids
<1>2. PICK m \in S : \A n \in S : ~ (<<n, m>> \in OpToRel(<, Nat))
  BY <1>1, NatLessThanWellFounded, WFMin
<1>3. ASSUME NEW n \in S
      PROVE  m <= n
  <2> DEFINE pair == <<n, m>>
  <2>1. pair \in Nat \X Nat /\ pair[1] = n /\ pair[2] = m
    BY <1>1
  <2> HIDE DEF pair
  <2>2. pair \notin OpToRel(<, Nat)
    BY <1>2 DEF pair
  <2>3. QED
    BY <2>1, <2>2 DEF OpToRel
<1>4. QED
  BY <1>3

LEMMA PathTyped ==
  ASSUME NEW p \in Pids, NEW n \in Nat
  PROVE  /\ PathOf(p, n) \in Seq(Pids \X Nat)
         /\ Len(PathOf(p, n)) = PathLen[p]
<1>1. PathLen[p] \in Nat
  BY BoundAssumption DEF Pids
<1>2. <<p, n>> \in Pids \X Nat
  OBVIOUS
<1>3. PathOf(p, n) \in [1 .. PathLen[p] -> Pids \X Nat]
  BY <1>2 DEF PathOf
<1>4. QED
  BY <1>1, <1>3

\* readlink: the buffer begins with the path, whatever it had before.
LEMMA OverwriteBegins ==
  ASSUME NEW S, NEW old \in Seq(S), NEW new \in Seq(S)
  PROVE  /\ Overwrite(old, new) \in Seq(S)
         /\ SubSeq(Overwrite(old, new), 1, Len(new)) = new
<1> DEFINE rest == SubSeq(old, Len(new) + 1, Len(old))
<1>1. rest \in Seq(S)
  OBVIOUS
<1> HIDE DEF rest
<1>2. new \o rest \in Seq(S) /\ Len(new \o rest) = Len(new) + Len(rest)
  BY <1>1
<1>3. \A i \in 1 .. Len(new) : (new \o rest)[i] = new[i]
  BY <1>1
<1> DEFINE whole == new \o rest
<1>4. whole \in Seq(S) /\ Len(new) <= Len(whole) /\ \A i \in 1 .. Len(new) : whole[i] = new[i]
  BY <1>1, <1>2, <1>3
<1> HIDE DEF whole
<1>5. SubSeq(whole, 1, Len(new)) = new
  BY <1>4
<1>6. QED
  BY <1>2, <1>5 DEF Overwrite, rest, whole

-----------------------------------------------------------------------------
(***************************************************************************)
(* The other processes.                                                    *)
(***************************************************************************)

\* Whatever they do, a process that keeps its sockets stays the same.
Act ==
  /\ run' \in [Pids -> Nat]
  /\ owns' \in [Pids -> SUBSET Sockets]
  /\ LiveInv'
  /\ \A p \in Pids : owns[p] \cap owns'[p] # {} => run'[p] = run[p]

LEMMA OthersActIs ==
  ASSUME IInv, OthersAct
  PROVE  Act /\ World
<1>0. World
  BY DEF OthersAct
<1>1. run \in [Pids -> Nat] /\ owns \in [Pids -> SUBSET Sockets] /\ LiveInv
  BY DEF IInv, TypeInv
<1>2. ASSUME NEW p \in Pids, NEW s \in Sockets, OpenSocket(p, s)
      PROVE  Act
  BY <1>1, <1>2 DEF OpenSocket, Act, LiveInv, Live
<1>3. ASSUME NEW p \in Pids, NEW s \in Sockets, CloseSocket(p, s)
      PROVE  Act
  BY <1>1, <1>3 DEF CloseSocket, Act, LiveInv, Live
<1>4. ASSUME NEW p \in Pids, NEW q \in Pids, NEW s \in Sockets, Share(p, q, s)
      PROVE  Act
  BY <1>1, <1>4 DEF Share, Act, LiveInv, Live
<1>5. ASSUME NEW p \in Pids, End(p)
      PROVE  Act
  BY <1>1, <1>5 DEF End, Act, LiveInv, Live
<1>6. ASSUME NEW p \in Pids, Begin(p)
      PROVE  Act
  BY <1>1, <1>6 DEF Begin, Act, LiveInv, Live
<1>7. QED
  BY <1>0, <1>2, <1>3, <1>4, <1>5, <1>6 DEF OthersAct

LEMMA OthersKeep ==
  ASSUME IInv, OthersAct
  PROVE  IInv'
<1>1. Act /\ World
  BY OthersActIs
<1>2. /\ UNCHANGED <<hidden, pc, listed, info, cursor, found, handles, ret, failures>>
      /\ had' = had \cup {p \in Pids : info.sock \in owns'[p]}
      /\ kept' = kept \cap {p \in Pids : info.sock \in owns'[p]}
  BY <1>1 DEF World, caller
<1>3. TypeInv' /\ LiveInv'
  BY <1>1, <1>2 DEF IInv, TypeInv, Act
<1>4. WatchInv'
  BY <1>2 DEF IInv, WatchInv, Have
<1>5. SearchInv'
  BY <1>2 DEF IInv, SearchInv
<1>6. PathInv'
  <2> SUFFICES ASSUME pc \in {"proc", "call"}, found, failures.line = 0, info.pid \in kept'
               PROVE  SubSeq(info.path, 1, PathLen[info.pid]) = PathOf(info.pid, run'[info.pid])
    BY <1>2 DEF PathInv
  <2>1. info.pid \in kept /\ info.sock \in owns'[info.pid] /\ info.pid \in Pids
    BY <1>2
  <2>2. info.sock \in owns[info.pid]
    BY <2>1 DEF IInv, WatchInv, Searching, Have
  <2>3. run'[info.pid] = run[info.pid]
    BY <1>1, <2>1, <2>2 DEF Act
  <2>4. QED
    BY <2>1, <2>3 DEF IInv, PathInv
<1>7. HandleInv'
  BY <1>2 DEF IInv, HandleInv
<1>8. QED
  BY <1>3, <1>4, <1>5, <1>6, <1>7 DEF IInv

-----------------------------------------------------------------------------
(***************************************************************************)
(* The caller of com_foreach_net_info, a step at a time.                   *)
(***************************************************************************)
LEMMA CallKeeps ==
  ASSUME IInv, UNCHANGED <<world, hidden>>, Open \/ Header \/ Callback \/ Close
  PROVE  IInv'
<1>1. /\ UNCHANGED <<run, owns, hidden, listed, info, cursor, found, had, kept>>
      /\ pc' \in {"header", "line", "close", "done"}
      /\ pc' = "header" => handles' = {"net"}
      /\ pc' = "line" => pc \in {"header", "call"} /\ UNCHANGED handles
      /\ pc' = "close" => pc = "call" /\ UNCHANGED handles
      /\ pc' = "done" /\ ret' = "any" => pc = "close" /\ handles' = handles \ {"net"}
      /\ failures' \in [all : Nat, line : Nat]
  <2>1. failures.all + 1 \in Nat /\ failures.line + 1 \in Nat
    BY DEF IInv, TypeInv
  <2>2. CASE Open
    BY <2>1, <2>2 DEF IInv, TypeInv, Open, Goto, Return, CountFailure, Unwatched, world
  <2>3. CASE Header
    BY <2>1, <2>3 DEF IInv, TypeInv, Header, Goto, Return, CountFailure, Unwatched, world
  <2>4. CASE Callback
    BY <2>4 DEF IInv, TypeInv, Callback, Goto, Unwatched, world
  <2>5. CASE Close
    BY <2>5 DEF IInv, TypeInv, Close, Goto, Return, Unwatched, world
  <2>6. QED
    BY <2>2, <2>3, <2>4, <2>5
<1>2. TypeInv' /\ LiveInv'
  BY <1>1 DEF IInv, TypeInv, LiveInv, Live
<1>3. WatchInv' /\ SearchInv' /\ PathInv'
  BY <1>1 DEF WatchInv, SearchInv, PathInv, Searching
<1>4. HandleInv'
  BY <1>1 DEF IInv, HandleInv
<1>5. QED
  BY <1>2, <1>3, <1>4 DEF IInv

LEMMA LineKeeps ==
  ASSUME IInv, UNCHANGED <<world, hidden>>, Line
  PROVE  IInv'
<1>1. pc = "line" /\ UNCHANGED <<run, owns, hidden, ret>>
  BY DEF Line, world
<1>2. CASE /\ Goto("close")
           /\ UNCHANGED <<listed, info, failures, cursor, found, handles>> /\ Unwatched
  <2>1. pc' = "close" /\ UNCHANGED <<had, kept>>
    BY <1>2 DEF Goto, Unwatched
  <2>2. TypeInv' /\ LiveInv'
    BY <1>1, <1>2, <2>1 DEF IInv, TypeInv, LiveInv, Live
  <2>3. WatchInv' /\ SearchInv' /\ PathInv' /\ HandleInv'
    BY <1>1, <1>2, <2>1 DEF IInv, WatchInv, SearchInv, PathInv, HandleInv, Searching
  <2>4. QED
    BY <2>2, <2>3 DEF IInv
<1>3. ASSUME NEW s \in Sockets \ listed,
             info' = Parse(s), failures' = [failures EXCEPT !.line = 0],
             had' = Have(s), kept' = Have(s) \ hidden,
             Goto("proc"), cursor' = 0, found' = FALSE, handles' = handles \cup {"proc"}
      PROVE  IInv'
  <2>1. /\ info' \in [sock : Sockets \cup {NoInode}, inode : Sockets \cup {NoInode},
                      pid : Pids \cup {NoPid}, path : Seq(Pids \X Nat)]
        /\ info'.sock = s /\ info'.inode \in {s, NoInode}
        /\ Have(s) # {} => info'.inode = s
    BY <1>3 DEF Parse, Inode, IInv, TypeInv
  <2>2. pc' = "proc"
    BY <1>3 DEF Goto
  <2>3. Have(s) \subseteq Pids /\ failures' \in [all : Nat, line : Nat] /\ Have(s)' = Have(s)
    BY <1>1, <1>3 DEF Have, IInv, TypeInv
  <2>4. TypeInv' /\ LiveInv'
    BY <1>1, <1>3, <2>1, <2>2, <2>3 DEF IInv, TypeInv, LiveInv, Live
  <2>5. WatchInv'
    BY <1>1, <1>3, <2>1, <2>2 DEF WatchInv, Have
  <2>6. SearchInv'
    BY <1>3, <2>2, <2>3 DEF SearchInv, Pids
  <2>7. PathInv'
    BY <1>3 DEF PathInv
  <2>8. HandleInv'
    BY <1>1, <1>3, <2>2 DEF HandleInv, IInv
  <2>9. QED
    BY <2>4, <2>5, <2>6, <2>7, <2>8 DEF IInv
<1>4. QED
  BY <1>2, <1>3 DEF Line

LEMMA NextPidKeeps ==
  ASSUME IInv, UNCHANGED <<world, hidden>>, NextPid
  PROVE  IInv'
<1>1. pc = "proc" /\ UNCHANGED <<run, owns, hidden, listed, info, found, ret, had, kept>>
  BY DEF NextPid, Unwatched, world
<1>2. \A q \in kept : Live(q) /\ q \in Pids
  BY <1>1 DEF IInv, TypeInv, LiveInv, WatchInv, Searching, Have
<1>3. ASSUME \/ (found \/ Later = {}) /\ UNCHANGED failures
             \/ ~ found /\ CountFailure,
             Goto("call"), handles' = handles \ {"proc"}, UNCHANGED cursor
      PROVE  IInv'
  <2>1. pc' = "call" /\ handles' = handles \ {"proc"} /\ cursor' = cursor
    BY <1>3 DEF Goto
  <2>2. /\ failures' \in [all : Nat, line : Nat]
        /\ failures'.line = 0 => failures.line = 0 /\ (found \/ Later = {})
    BY <1>3 DEF IInv, TypeInv, CountFailure
  <2>3. TypeInv' /\ LiveInv'
    BY <1>1, <2>1, <2>2 DEF IInv, TypeInv, LiveInv, Live
  <2>4. WatchInv'
    BY <1>1, <2>1 DEF IInv, WatchInv, Searching, Have
  <2>5. SearchInv'
    <3>1. ~ found /\ failures'.line = 0 => kept = {}
      BY <1>1, <1>2, <2>2 DEF IInv, SearchInv, Searching, Later
    <3>2. QED
      BY <1>1, <2>1, <2>2, <3>1 DEF IInv, SearchInv, Searching
  <2>6. PathInv' /\ HandleInv'
    BY <1>1, <2>1, <2>2 DEF IInv, PathInv, HandleInv
  <2>7. QED
    BY <2>3, <2>4, <2>5, <2>6 DEF IInv
<1>4. ASSUME ~ found, Later # {}, Goto("fds"),
             cursor' = CHOOSE p \in Later : \A q \in Later : p <= q,
             UNCHANGED <<handles, failures>>
      PROVE  IInv'
  <2>1. /\ pc' = "fds" /\ handles' = handles /\ UNCHANGED failures
        /\ cursor' = CHOOSE p \in Later : \A q \in Later : p <= q
    BY <1>4 DEF Goto
  <2>2. Later \in SUBSET Pids
    BY DEF Later
  <2>3. cursor' \in Later /\ \A q \in Later : cursor' <= q
    BY <1>4, <2>1, <2>2, SmallestIsIn
  <2>4. cursor' \in Pids /\ cursor' \in Nat
    BY <2>2, <2>3, BoundAssumption DEF Pids
  <2>5. TypeInv' /\ LiveInv'
    BY <1>1, <2>1, <2>4 DEF IInv, TypeInv, LiveInv, Live
  <2>6. WatchInv'
    BY <1>1, <2>1 DEF IInv, WatchInv, Searching, Have
  <2>7. SearchInv'
    <3>1. failures.line = 0 => \A q \in kept : q \in Later
      BY <1>1, <1>2, <1>4 DEF IInv, SearchInv, Searching, Later
    <3>2. QED
      BY <1>1, <1>4, <2>1, <2>3, <2>4, <3>1 DEF SearchInv
  <2>8. PathInv' /\ HandleInv'
    BY <1>1, <1>4, <2>1 DEF IInv, PathInv, HandleInv
  <2>9. QED
    BY <2>5, <2>6, <2>7, <2>8 DEF IInv
<1>5. QED
  BY <1>3, <1>4 DEF NextPid

LEMMA DescriptorsKeeps ==
  ASSUME IInv, UNCHANGED <<world, hidden>>, Descriptors
  PROVE  IInv'
<1>1. /\ pc = "fds" /\ UNCHANGED <<run, owns, hidden, listed, cursor, handles, ret, had, kept>>
      /\ cursor \in Pids /\ ~ found
  BY DEF Descriptors, Unwatched, world, IInv, SearchInv
<1>2. CASE MayFail /\ CountFailure /\ Goto("proc") /\ UNCHANGED <<info, found>>
  <2>1. pc' = "proc" /\ failures' \in [all : Nat, line : Nat] /\ failures'.line # 0
    BY <1>2 DEF Goto, CountFailure, IInv, TypeInv
  <2>2. TypeInv' /\ LiveInv'
    BY <1>1, <1>2, <2>1 DEF IInv, TypeInv, LiveInv, Live
  <2>3. WatchInv' /\ SearchInv' /\ PathInv' /\ HandleInv'
    BY <1>1, <1>2, <2>1 DEF IInv, WatchInv, SearchInv, PathInv, HandleInv, Searching, Have
  <2>4. QED
    BY <2>2, <2>3 DEF IInv
<1>3. CASE /\ cursor \in hidden \/ ~ HasInode(cursor)
           /\ Goto("proc") /\ UNCHANGED <<info, found, failures>>
  <2>1. pc' = "proc"
    BY <1>3 DEF Goto
  <2>2. TypeInv' /\ LiveInv'
    BY <1>1, <1>3, <2>1 DEF IInv, TypeInv, LiveInv, Live
  <2>3. WatchInv'
    BY <1>1, <1>3, <2>1 DEF IInv, WatchInv, Searching, Have
  <2>4. SearchInv'
    <3>1. cursor \notin kept
      BY <1>1, <1>3 DEF IInv, WatchInv, Searching, Have, HasInode
    <3>2. failures.line = 0 => \A q \in kept : cursor <= q /\ q # cursor
      BY <1>1, <3>1 DEF IInv, SearchInv, Searching
    <3>3. \A q \in kept : q \in Nat /\ cursor \in Nat
      BY BoundAssumption DEF IInv, TypeInv, Pids
    <3>4. failures.line = 0 => \A q \in kept : cursor < q
      BY <3>2, <3>3
    <3>5. QED
      BY <1>1, <1>3, <2>1, <3>4 DEF SearchInv
  <2>5. PathInv' /\ HandleInv'
    BY <1>1, <1>3, <2>1 DEF IInv, PathInv, HandleInv
  <2>6. QED
    BY <2>2, <2>3, <2>4, <2>5 DEF IInv
<1>4. CASE /\ cursor \notin hidden /\ HasInode(cursor)
           /\ Goto("exe") /\ found' = TRUE
           /\ info' = [info EXCEPT !.pid = cursor]
           /\ UNCHANGED failures
  <2>1. /\ pc' = "exe" /\ info'.pid = cursor /\ info'.sock = info.sock
        /\ info'.inode = info.inode /\ info'.path = info.path
        /\ info' \in [sock : Sockets \cup {NoInode}, inode : Sockets \cup {NoInode},
                      pid : Pids \cup {NoPid}, path : Seq(Pids \X Nat)]
    BY <1>1, <1>4 DEF Goto, IInv, TypeInv
  <2>2. TypeInv' /\ LiveInv'
    BY <1>1, <1>4, <2>1 DEF IInv, TypeInv, LiveInv, Live
  <2>3. WatchInv'
    BY <1>1, <1>4, <2>1 DEF IInv, WatchInv, Searching, Have
  <2>4. cursor \in had
    <3>1. info.inode \in owns[cursor] /\ owns[cursor] \subseteq Sockets
      BY <1>1, <1>4 DEF HasInode, IInv, TypeInv
    <3>2. info.inode = info.sock
      BY <1>1, <3>1, InodeAssumption DEF IInv, WatchInv, Searching
    <3>3. QED
      BY <1>1, <3>1, <3>2 DEF IInv, WatchInv, Searching, Have
  <2>5. SearchInv'
    BY <1>1, <1>4, <2>1, <2>4 DEF IInv, SearchInv, Searching
  <2>6. PathInv' /\ HandleInv'
    BY <1>1, <1>4, <2>1 DEF IInv, PathInv, HandleInv
  <2>7. QED
    BY <2>2, <2>3, <2>5, <2>6 DEF IInv
<1>5. QED
  BY <1>2, <1>3, <1>4 DEF Descriptors

LEMMA ExecutableKeeps ==
  ASSUME IInv, UNCHANGED <<world, hidden>>, Executable
  PROVE  IInv'
<1>1. /\ pc = "exe" /\ pc' = "proc"
      /\ UNCHANGED <<run, owns, hidden, listed, cursor, found, handles, ret, had, kept>>
      /\ cursor \in Pids /\ found /\ info.pid = cursor
  BY DEF Executable, Unwatched, Goto, world, IInv, SearchInv, Searching
<1> DEFINE new == PathOf(cursor, run[cursor])
<1>2. /\ info.path \in Seq(Pids \X Nat) /\ new \in Seq(Pids \X Nat) /\ Len(new) = PathLen[cursor]
  BY <1>1, PathTyped DEF IInv, TypeInv
<1>3. /\ Overwrite(info.path, new) \in Seq(Pids \X Nat)
      /\ SubSeq(Overwrite(info.path, new), 1, PathLen[cursor]) = new
  BY <1>2, OverwriteBegins
<1>4. /\ info' \in [sock : Sockets \cup {NoInode}, inode : Sockets \cup {NoInode},
                    pid : Pids \cup {NoPid}, path : Seq(Pids \X Nat)]
      /\ info'.sock = info.sock /\ info'.inode = info.inode /\ info'.pid = info.pid
      /\ failures' \in [all : Nat, line : Nat]
      /\ failures'.line = 0 => failures.line = 0 /\ (Live(cursor) => info'.path = Overwrite(info.path, new))
  <2> HIDE DEF new
  <2>1. CASE Live(cursor) /\ info' = [info EXCEPT !.path = Overwrite(@, new)] /\ UNCHANGED failures
    BY <1>3, <2>1 DEF IInv, TypeInv
  <2>2. CASE ~ Live(cursor) /\ UNCHANGED <<info, failures>>
    BY <2>2 DEF IInv, TypeInv
  <2>3. CASE MayFail /\ CountFailure /\ UNCHANGED info
    BY <2>3 DEF IInv, TypeInv, CountFailure
  <2>4. QED
    BY <2>1, <2>2, <2>3 DEF Executable, new
<1>5. TypeInv' /\ LiveInv'
  BY <1>1, <1>4 DEF IInv, TypeInv, LiveInv, Live
<1>6. WatchInv'
  BY <1>1, <1>4 DEF IInv, WatchInv, Searching, Have
<1>7. SearchInv'
  BY <1>1, <1>4 DEF IInv, SearchInv, Searching
<1>8. PathInv'
  <2> SUFFICES ASSUME failures'.line = 0, cursor \in kept
               PROVE  SubSeq(info'.path, 1, PathLen[cursor]) = new
    BY <1>1, <1>4 DEF PathInv, PathOf
  <2>1. Live(cursor)
    BY <1>1 DEF IInv, LiveInv, WatchInv, Searching, Have
  <2>2. QED
    BY <1>3, <1>4, <2>1
<1>9. HandleInv'
  BY <1>1 DEF IInv, HandleInv
<1>10. QED
  BY <1>5, <1>6, <1>7, <1>8, <1>9 DEF IInv

-----------------------------------------------------------------------------
LEMMA InitIInv == Init => IInv
<1> SUFFICES ASSUME Init PROVE IInv
  OBVIOUS
<1>1. TypeInv /\ LiveInv
  <2>1. <<>> \in Seq(Pids \X Nat)
    OBVIOUS
  <2>2. info \in [sock : Sockets \cup {NoInode}, inode : Sockets \cup {NoInode},
                 pid : Pids \cup {NoPid}, path : Seq(Pids \X Nat)]
    BY <2>1 DEF Init, ZeroInfo, NoPath
  <2>3. run \in [Pids -> Nat] /\ failures \in [all : Nat, line : Nat]
    BY DEF Init
  <2>4. QED
    BY <2>2, <2>3 DEF Init, TypeInv, LiveInv
<1>2. WatchInv /\ SearchInv /\ PathInv /\ HandleInv
  BY DEF Init, WatchInv, SearchInv, PathInv, HandleInv, Searching
<1>3. QED
  BY <1>1, <1>2 DEF IInv

LEMMA NextIInv == IInv /\ [Next]_vars => IInv'
<1> SUFFICES ASSUME IInv, [Next]_vars PROVE IInv'
  OBVIOUS
<1>1. CASE Reader
  BY <1>1, CallKeeps, LineKeeps, NextPidKeeps, DescriptorsKeeps, ExecutableKeeps DEF Reader
<1>2. CASE OthersAct
  BY <1>2, OthersKeep
<1>3. CASE UNCHANGED vars
  <2>1. TypeInv' /\ LiveInv'
    BY <1>3 DEF IInv, TypeInv, LiveInv, Live, vars, world, caller
  <2>2. WatchInv' /\ SearchInv' /\ PathInv' /\ HandleInv'
    BY <1>3 DEF IInv, WatchInv, SearchInv, PathInv, HandleInv, Have, vars, world, caller
  <2>3. QED
    BY <2>1, <2>2 DEF IInv
<1>4. QED
  BY <1>1, <1>2, <1>3 DEF Next

LEMMA Invariance == Spec => []IInv
BY InitIInv, NextIInv, PTL DEF Spec

-----------------------------------------------------------------------------
(***************************************************************************)
(* The process com_foreach_net_info finds had the socket after its line    *)
(* was read and none that had it all along comes before it in /proc, for   *)
(* any number of processes that open, share and close sockets meanwhile.   *)
(***************************************************************************)
THEOREM OwnerFound == Spec => []FoundIsOwner
<1>1. IInv => FoundIsOwner
  BY DEF IInv, SearchInv, FoundIsOwner, Searching
<1>2. QED
  BY <1>1, Invariance, PTL

(***************************************************************************)
(* If the search in /proc ends without a process although nothing failed,  *)
(* no process whose descriptors can be read had the socket all along.      *)
(***************************************************************************)
THEOREM NobodyMissed == Spec => []MissesNoOwner
<1>1. IInv => MissesNoOwner
  BY DEF IInv, SearchInv, MissesNoOwner
<1>2. QED
  BY <1>1, Invariance, PTL

(***************************************************************************)
(* procpath begins with the executable of the process found, if that has   *)
(* had the socket all along, whatever longer paths were in it before.      *)
(***************************************************************************)
THEOREM PathOfOwner == Spec => []PathBegins
<1>1. IInv => PathBegins
  BY DEF IInv, PathInv, PathBegins, FoundAndKept
<1>2. QED
  BY <1>1, Invariance, PTL

(***************************************************************************)
(* com_foreach_net_info closes the iterator over /proc before its callback *)
(* runs, and the file on every way out but that of an unreadable header.   *)
(***************************************************************************)
THEOREM HeaderLeaksOnly == Spec => []OnlyHeaderLeaks
<1>1. IInv => OnlyHeaderLeaks
  BY DEF IInv, HandleInv, OnlyHeaderLeaks
<1>2. QED
  BY <1>1, Invariance, PTL
=============================================================================
