-------------------------- MODULE InstanceProofs ----------------------------
(***************************************************************************)
(* Proofs about Instance, for any number of launches, every program and    *)
(* every descriptor limit.                                                 *)
(***************************************************************************)
EXTENDS Instance, NaturalsInduction, WellFoundedInduction, TLAPS

\* The programs SingleInstance depends on.
LockIsKept == \A g \in Programs : KeepsLock(g)

Lock == <<"lock">>
Daemon == <<"daemon">>
LockDaemon == <<"lock", "daemon">>
DaemonLock == <<"daemon", "lock">>

Daemonising == {"setsid", "fork2", "std", "files", "chdir"}

\* The steps a process can be at by its role.
StepsOf(r) ==
  CASE r = "orig" -> Steps \ Daemonising
    [] r = "child" -> {"none", "setsid", "fork2", "exit", "gone"}
    [] r = "daemon" -> Steps \ {"setsid", "fork2", "exit"}

\* The open file descriptions of one launch.
FilesOf(l) == {"inherited", "null", "lock"} \X ({l} \X Roles)
IsLock(f) == \E p \in Procs : f = LockFile(p)

\* It does something else than wait for its exit.
Active(p) == Alive(p) /\ pc[p] # "exit"

TypeInv ==
  /\ prog \in Programs
  /\ pc \in [Procs -> Steps]
  /\ todo \in [Procs -> {<<>>, Lock, Daemon, LockDaemon, DaemonLock}]
  /\ fds \in [Procs -> [Fds -> {NoFile} \cup UNION {FilesOf(l) : l \in Launches}]]
  /\ sees \in [Procs -> {"none", "first", "running"}]
  /\ tmpfd \in [Procs -> Int]
  /\ leader \in [Procs -> BOOLEAN]
  /\ mishaps \subseteq Launches
  /\ alone \subseteq Launches

\* What a process has still to do, and what it has been told.
TodoInv(p) ==
  /\ ~ Alive(p) => sees[p] = "none"
  /\ Alive(p) =>
       \/ todo[p] = prog.ops /\ sees[p] = "none"
       \/ prog.ops = LockDaemon /\ todo[p] = Daemon /\ sees[p] # "none"
       \/ prog.ops = DaemonLock /\ todo[p] = Lock /\ sees[p] = "none"
       \/ todo[p] = <<>> /\ sees[p] # "none"
  /\ pc[p] \in {"flock", "close"} => todo[p] \in {Lock, LockDaemon}
  /\ pc[p] \in Daemonising => todo[p] \in {Daemon, DaemonLock} /\ sees[p] # "running"

\* The descriptors of a process: those of its launch, none if it does not run,
\* the lock being opened where tmpfd says and never below the inherited ones.
TableInv(p) ==
  /\ \A d \in Fds : fds[p][d] \in {NoFile} \cup FilesOf(p[1])
  /\ ~ Alive(p) => fds[p] = Empty
  /\ pc[p] \in {"flock", "close"} => tmpfd[p] \in Fds /\ fds[p][tmpfd[p]] = LockFile(p)
  /\ Alive(p) /\ prog.ops = LockDaemon /\ (\A inherited \in prog.inherits : Std \subseteq inherited)
       => \A d \in Std : fds[p][d] # NoFile /\ ~ IsLock(fds[p][d])

\* How far the daemon has detached.
DetachInv(p) ==
  Role(p, "daemon") =>
    /\ ~ leader[p]
    /\ p[1] \notin mishaps /\ Alive(p) =>
       /\ ~ prog.nostdclose /\ pc[p] # "std" => \A d \in Std : fds[p][d] = Null(p)
       /\ ~ prog.nofileclose /\ pc[p] \notin {"std", "files"} =>
            \A d \in Fds \ Std : d < FileLimit => fds[p][d] \in {NoFile, LockFile(p)}

ProcInv(p) == pc[p] \in StepsOf(p[2]) /\ TodoInv(p) /\ TableInv(p) /\ DetachInv(p)

\* A launch is one line of processes: who has forked does nothing more.
LineInv ==
  \A l \in Launches :
    /\ pc[<<l, "child">>] # "none" => pc[<<l, "orig">>] \in {"exit", "gone"}
    /\ pc[<<l, "daemon">>] # "none" =>
         pc[<<l, "orig">>] \in {"exit", "gone"} /\ pc[<<l, "child">>] \in {"exit", "gone"}

\* No stale lock, and the launch that has it knows.
OwnerInv ==
  /\ owner # NoFile => IsLock(owner) /\ \E p \in Procs : Refers(fds[p], owner)
  /\ \A p \in Procs : Active(p) /\ owner \in FilesOf(p[1]) => sees[p] = "first"

RefusedInv ==
  \A p \in Procs : sees[p] = "running" \/ pc[p] = "close" => p[1] \in mishaps \/ p[1] \notin alone

AloneInv ==
  \A l \in alone :
    /\ pc[<<l, "orig">>] # "none"
    /\ \A k \in Launches : Running(k) /\ Running(l) => k = l

\* It may still win, or has won.
Contends(p) == Active(p) /\ sees[p] # "running" /\ pc[p] # "close"

RaceInv ==
  mishaps = {} =>
    /\ owner # NoFile => \E p \in Procs : Believes(p)
    /\ (\E p \in Procs : pc[p] # "none") => \E p \in Procs : Contends(p)

IInv ==
  /\ TypeInv
  /\ \A p \in Procs : ProcInv(p)
  /\ LineInv
  /\ OwnerInv
  /\ RefusedInv
  /\ AloneInv
  /\ RaceInv
  /\ LockIsKept => BelieverOwnsLock

-----------------------------------------------------------------------------
(***************************************************************************)
(* Calls still to make, processes, files and free descriptors.             *)
(***************************************************************************)
LEMMA CallSequences ==
  /\ Uses = {Lock, LockDaemon, DaemonLock}
  /\ Head(Lock) = "lock" /\ Tail(Lock) = <<>>
  /\ Head(Daemon) = "daemon" /\ Tail(Daemon) = <<>>
  /\ Head(LockDaemon) = "lock" /\ Tail(LockDaemon) = Daemon
  /\ Head(DaemonLock) = "daemon" /\ Tail(DaemonLock) = Lock
  /\ Lock # <<>> /\ Daemon # <<>> /\ LockDaemon # <<>> /\ DaemonLock # <<>>
  /\ Lock # Daemon /\ Lock # LockDaemon /\ Lock # DaemonLock
  /\ Daemon # LockDaemon /\ Daemon # DaemonLock /\ LockDaemon # DaemonLock
BY DEF Uses, Lock, Daemon, LockDaemon, DaemonLock

LEMMA Process ==
  ASSUME NEW p \in Procs
  PROVE  p[1] \in Launches /\ p[2] \in Roles /\ p = <<p[1], p[2]>>
BY DEF Procs

LEMMA LaunchProcesses ==
  ASSUME NEW l \in Launches
  PROVE  /\ <<l, "orig">> \in Procs /\ <<l, "child">> \in Procs /\ <<l, "daemon">> \in Procs
         /\ <<l, "orig">> # <<l, "child">> /\ <<l, "orig">> # <<l, "daemon">>
         /\ <<l, "child">> # <<l, "daemon">>
         /\ \A p \in Procs : p[1] = l => p \in {<<l, "orig">>, <<l, "child">>, <<l, "daemon">>}
BY DEF Procs, Roles

LEMMA FilesAreApart ==
  /\ \A l \in Launches : NoFile \notin FilesOf(l) /\ Inherited(l) \in FilesOf(l) /\ ~ IsLock(Inherited(l))
  /\ \A p \in Procs : /\ Null(p) \in FilesOf(p[1]) /\ LockFile(p) \in FilesOf(p[1])
                      /\ ~ IsLock(Null(p)) /\ IsLock(LockFile(p))
                      /\ Null(p) # LockFile(p)
  /\ \A l, k \in Launches : \A f \in FilesOf(l) : f \in FilesOf(k) => l = k
<1>1. ASSUME NEW l \in Launches
      PROVE  NoFile \notin FilesOf(l) /\ Inherited(l) \in FilesOf(l) /\ ~ IsLock(Inherited(l))
  BY DEF NoFile, FilesOf, Inherited, IsLock, LockFile, Roles
<1>2. ASSUME NEW p \in Procs
      PROVE  /\ Null(p) \in FilesOf(p[1]) /\ LockFile(p) \in FilesOf(p[1])
             /\ ~ IsLock(Null(p)) /\ IsLock(LockFile(p))
             /\ Null(p) # LockFile(p)
  <2>1. p \in {p[1]} \X Roles
    BY DEF Procs
  <2>2. QED
    BY <2>1 DEF FilesOf, Null, IsLock, LockFile
<1>3. ASSUME NEW l \in Launches, NEW k \in Launches, NEW f \in FilesOf(l), f \in FilesOf(k)
      PROVE  l = k
  BY <1>3 DEF FilesOf
<1>4. QED
  BY <1>1, <1>2, <1>3

LEMMA LowestIsIn ==
  ASSUME NEW S \in SUBSET Fds, S # {}
  PROVE  Lowest(S) \in S
<1>1. S \subseteq Nat
  BY LimitAssumption DEF Fds
<1>2. PICK m \in S : \A n \in S : ~ (<<n, m>> \in OpToRel(<, Nat))
  BY <1>1, NatLessThanWellFounded, WFMin
<1>3. ASSUME NEW n \in S
      PROVE  m <= n
  <2> DEFINE pair == <<n, m>>
  <2>1. pair \in Nat \X Nat /\ pair[1] = n /\ pair[2] = m
    BY <1>1
  <2> HIDE DEF pair
  <2>2. pair \notin OpToRel(<, Nat)
    BY <1>2 DEF pair
  <2>3. QED
    BY <2>1, <2>2 DEF OpToRel
<1>4. QED
  BY <1>3 DEF Lowest

LEMMA LowestIsFree ==
  ASSUME NEW table, Free(table) # {}
  PROVE  Lowest(Free(table)) \in Fds /\ table[Lowest(Free(table))] = NoFile
BY LowestIsIn DEF Free

-----------------------------------------------------------------------------
(***************************************************************************)
(* Steps that concern one launch only.                                     *)
(***************************************************************************)

\* Processes that are not in S are as they were.
Only(S) ==
  /\ prog' = prog
  /\ \A q \in Procs \ S :
       /\ pc'[q] = pc[q] /\ todo'[q] = todo[q] /\ fds'[q] = fds[q]
       /\ sees'[q] = sees[q] /\ tmpfd'[q] = tmpfd[q] /\ leader'[q] = leader[q]

LEMMA OthersKeep ==
  ASSUME IInv, NEW S, Only(S), mishaps \subseteq mishaps', NEW q \in Procs \ S
  PROVE  /\ ProcInv(q)'
         /\ Alive(q)' = Alive(q) /\ Active(q)' = Active(q)
         /\ Believes(q)' = Believes(q) /\ Contends(q)' = Contends(q)
<1>1. /\ prog' = prog /\ pc'[q] = pc[q] /\ todo'[q] = todo[q] /\ fds'[q] = fds[q]
      /\ sees'[q] = sees[q] /\ tmpfd'[q] = tmpfd[q] /\ leader'[q] = leader[q]
  BY DEF Only
<1>2. pc[q] \in StepsOf(q[2]) /\ TodoInv(q) /\ TableInv(q) /\ DetachInv(q)
  BY DEF IInv, ProcInv
<1>3. /\ Alive(q)' = Alive(q) /\ Active(q)' = Active(q)
      /\ Believes(q)' = Believes(q) /\ Contends(q)' = Contends(q)
  BY <1>1 DEF Alive, Active, Believes, Contends
<1>4. TodoInv(q)'
  BY <1>1, <1>2, <1>3 DEF TodoInv
<1>5. TableInv(q)'
  BY <1>1, <1>2, <1>3 DEF TableInv
<1>6. DetachInv(q)'
  BY <1>1, <1>2, <1>3 DEF DetachInv, Role, FileLimit
<1>7. QED
  BY <1>1, <1>2, <1>3, <1>4, <1>5, <1>6 DEF ProcInv

\* At most one process of a launch does something.
LEMMA OneActive ==
  ASSUME IInv, NEW p \in Procs, Active(p), NEW q \in Procs, q # p, q[1] = p[1]
  PROVE  pc[q] \in {"none", "exit", "gone"}
<1> DEFINE l == p[1]
           o == <<l, "orig">>
           c == <<l, "child">>
           d == <<l, "daemon">>
<1>1. l \in Launches
  BY Process
<1>2. p \in {o, c, d} /\ q \in {o, c, d}
  BY <1>1, LaunchProcesses
<1>3. /\ pc[c] # "none" => pc[o] \in {"exit", "gone"}
      /\ pc[d] # "none" => pc[o] \in {"exit", "gone"} /\ pc[c] \in {"exit", "gone"}
  BY <1>1 DEF IInv, LineInv
<1> HIDE DEF o, c, d
<1>4. QED
  BY <1>2, <1>3 DEF Active, Alive

\* What a process has and can do if it goes on: the launches that run and the
\* order of forks are what they were.
LEMMA GoesOn ==
  ASSUME IInv, NEW p \in Procs, Active(p), Active(p)', Only({p}),
         alone' = alone, mishaps \subseteq mishaps'
  PROVE  LineInv' /\ AloneInv'
<1>1. \A q \in Procs \ {p} : pc'[q] = pc[q] /\ Alive(q)' = Alive(q)
  BY OthersKeep DEF Only
<1>2. pc[p] \notin {"none", "exit", "gone"} /\ pc'[p] \notin {"none", "exit", "gone"}
  BY DEF Active, Alive
<1>3. LineInv'
  <2> SUFFICES ASSUME NEW l \in Launches
               PROVE  /\ pc'[<<l, "child">>] # "none" => pc'[<<l, "orig">>] \in {"exit", "gone"}
                      /\ pc'[<<l, "daemon">>] # "none" =>
                           /\ pc'[<<l, "orig">>] \in {"exit", "gone"}
                           /\ pc'[<<l, "child">>] \in {"exit", "gone"}
    BY DEF LineInv
  <2> DEFINE o == <<l, "orig">>
             c == <<l, "child">>
             d == <<l, "daemon">>
  <2>1. o \in Procs /\ c \in Procs /\ d \in Procs
    BY LaunchProcesses
  <2>2. /\ pc[c] # "none" => pc[o] \in {"exit", "gone"}
        /\ pc[d] # "none" => pc[o] \in {"exit", "gone"} /\ pc[c] \in {"exit", "gone"}
    BY DEF IInv, LineInv
  <2> HIDE DEF o, c, d
  <2>3. /\ pc'[c] # "none" => pc'[o] \in {"exit", "gone"}
        /\ pc'[d] # "none" => pc'[o] \in {"exit", "gone"} /\ pc'[c] \in {"exit", "gone"}
    BY <1>1, <1>2, <2>1, <2>2
  <2>4. QED
    BY <2>3 DEF o, c, d
<1>4. \A l \in Launches : Running(l)' = Running(l)
  <2>1. \A q \in Procs : Alive(q)' = Alive(q)
    BY <1>1 DEF Active, Alive
  <2>2. QED
    BY <2>1 DEF Running, Procs
<1>5. AloneInv'
  <2>1. ASSUME NEW l \in alone
        PROVE  /\ pc'[<<l, "orig">>] # "none"
               /\ \A k \in Launches : Running(k)' /\ Running(l)' => k = l
    <3>1. l \in Launches
      BY DEF IInv, TypeInv
    <3>2. <<l, "orig">> \in Procs /\ pc[<<l, "orig">>] # "none"
      BY <3>1, LaunchProcesses DEF IInv, AloneInv
    <3>3. pc'[<<l, "orig">>] # "none"
      BY <1>1, <1>2, <3>2
    <3>4. QED
      BY <1>4, <3>1, <3>3 DEF IInv, AloneInv
  <2>2. QED
    BY <2>1 DEF AloneInv
<1>6. QED
  BY <1>3, <1>5

\* The lock stays where it is unless nobody refers to it any more.
OwnerKept ==
  /\ owner' \in {owner, NoFile}
  /\ owner' # NoFile => \E q \in Procs : Refers(fds'[q], owner')
  /\ \A q \in Procs : Refers(fds'[q], owner) => owner' = owner

LEMMA SetTableKeepsOwner ==
  ASSUME IInv, NEW p \in Procs, NEW t, SetTable(p, t)
  PROVE  /\ OwnerKept /\ fds'[p] = t
         /\ \A q \in Procs \ {p} : fds'[q] = fds[q]
<1>1. /\ fds'[p] = t
      /\ \A q \in Procs \ {p} : fds'[q] = fds[q]
  BY DEF SetTable, IInv, TypeInv
<1>2. owner' = IF Refers(t, owner) \/ \E q \in Procs \ {p} : Refers(fds[q], owner)
               THEN owner ELSE NoFile
  BY DEF SetTable
<1>3. OwnerKept
  BY <1>1, <1>2 DEF OwnerKept
<1>4. QED
  BY <1>1, <1>3

LEMMA SameTablesKeepOwner ==
  ASSUME IInv, UNCHANGED <<fds, owner>>
  PROVE  OwnerKept
BY DEF OwnerKept, IInv, OwnerInv

\* A process goes on and the lock is not given to anybody.
LEMMA KeptKeeps ==
  ASSUME IInv, NEW p \in Procs, Active(p), Active(p)', Only({p}), TypeInv', ProcInv(p)',
         alone' = alone, mishaps' \in {mishaps, mishaps \cup {p[1]}},
         OwnerKept,
         sees[p] = "first" <=> sees'[p] = "first",
         LockIsKept /\ Believes(p) /\ Refers(fds[p], owner) => Refers(fds'[p], owner),
         sees'[p] = "running" \/ pc'[p] = "close" => p[1] \in mishaps' \/ p[1] \notin alone,
         Contends(p) /\ mishaps' = {} => Contends(p)' \/ owner # NoFile
  PROVE  IInv'
<1>1. mishaps \subseteq mishaps'
  OBVIOUS
<1>2. \A q \in Procs : ProcInv(q)'
  BY <1>1, OthersKeep
<1>3. LineInv' /\ AloneInv'
  BY <1>1, GoesOn
<1>4. \A q \in Procs \ {p} : /\ Active(q)' = Active(q) /\ Believes(q)' = Believes(q)
                             /\ Contends(q)' = Contends(q)
                             /\ pc'[q] = pc[q] /\ sees'[q] = sees[q] /\ fds'[q] = fds[q]
  BY <1>1, OthersKeep DEF Only
<1>5. Believes(p)' = Believes(p)
  BY DEF Believes, Active
<1>6. OwnerInv'
  <2>1. ASSUME NEW q \in Procs, Active(q)', owner' \in FilesOf(q[1])
        PROVE  sees'[q] = "first"
    <3>1. owner' = owner
      BY <2>1, FilesAreApart, Process DEF OwnerKept
    <3>2. Active(q)
      BY <1>4, <2>1
    <3>3. sees[q] = "first"
      BY <2>1, <3>1, <3>2 DEF IInv, OwnerInv
    <3>4. QED
      BY <1>4, <3>3
  <2>2. QED
    BY <2>1 DEF IInv, OwnerInv, OwnerKept, IsLock
<1>7. RefusedInv'
  BY <1>1, <1>4 DEF IInv, RefusedInv
<1>8. RaceInv'
  <2> SUFFICES ASSUME mishaps' = {}
               PROVE  /\ owner' # NoFile => \E q \in Procs : Believes(q)'
                      /\ \E q \in Procs : Contends(q)'
    BY DEF RaceInv
  <2>1. /\ mishaps = {}
        /\ owner # NoFile => \E q \in Procs : Believes(q)
        /\ \E q \in Procs : Contends(q)
    BY DEF IInv, RaceInv, Active, Alive
  <2>2. owner # NoFile => \E q \in Procs : Believes(q)'
    BY <1>4, <1>5, <2>1
  <2>3. \A q \in Procs : Believes(q)' => Contends(q)'
    BY <1>2, CallSequences DEF Believes, Contends, Active, ProcInv, TodoInv, Alive
  <2>4. QED
    BY <1>4, <2>1, <2>2, <2>3 DEF OwnerKept
<1>9. LockIsKept => BelieverOwnsLock'
  <2> SUFFICES ASSUME LockIsKept, NEW q \in Procs, Believes(q)'
               PROVE  owner' # NoFile /\ Refers(fds'[q], owner')
    BY DEF BelieverOwnsLock, Refers
  <2>1. Believes(q)
    BY <1>4, <1>5
  <2>2. owner # NoFile /\ Refers(fds[q], owner)
    BY <2>1 DEF IInv, BelieverOwnsLock, Refers
  <2>3. Refers(fds'[q], owner)
    BY <1>4, <2>1, <2>2
  <2>4. QED
    BY <2>2, <2>3 DEF OwnerKept
<1>10. QED
  BY <1>2, <1>3, <1>6, <1>7, <1>8, <1>9 DEF IInv

\* A process ends.
LEMMA ExitKeeps ==
  ASSUME IInv, NEW p \in Procs, Alive(p), Exit(p), UNCHANGED <<prog, alone>>,
         mishaps' \in {mishaps, mishaps \cup {p[1]}},
         mishaps' = {} => ~ Contends(p)
  PROVE  IInv'
<1>1. OwnerKept /\ fds'[p] = Empty /\ \A q \in Procs \ {p} : fds'[q] = fds[q]
  BY SetTableKeepsOwner DEF Exit
<1>2. TypeInv'
  <2>1. Empty \in [Fds -> {NoFile} \cup UNION {FilesOf(l) : l \in Launches}]
    BY DEF Empty
  <2>2. fds' \in [Procs -> [Fds -> {NoFile} \cup UNION {FilesOf(l) : l \in Launches}]]
    BY <2>1 DEF Exit, SetTable, IInv, TypeInv
  <2>3. /\ pc' \in [Procs -> Steps]
        /\ todo' \in [Procs -> {<<>>, Lock, Daemon, LockDaemon, DaemonLock}]
        /\ sees' \in [Procs -> {"none", "first", "running"}]
        /\ tmpfd' \in [Procs -> Int]
        /\ leader' \in [Procs -> BOOLEAN]
    BY DEF Exit, IInv, TypeInv, Steps
  <2>4. QED
    BY <2>2, <2>3, Process DEF IInv, TypeInv
<1>3. /\ pc'[p] = "gone" /\ sees'[p] = "none" /\ leader'[p] = FALSE /\ Only({p})
  BY <1>1 DEF Exit, IInv, TypeInv, Only
<1>4. mishaps \subseteq mishaps'
  OBVIOUS
<1>5. \A q \in Procs \ {p} : /\ ProcInv(q)' /\ pc'[q] = pc[q] /\ sees'[q] = sees[q]
                             /\ Alive(q)' = Alive(q) /\ Active(q)' = Active(q)
                             /\ Believes(q)' = Believes(q) /\ Contends(q)' = Contends(q)
  BY <1>3, <1>4, OthersKeep DEF Only
<1>6. ~ Alive(p)' /\ ~ Active(p)' /\ ~ Believes(p)' /\ ~ Contends(p)'
  BY <1>3 DEF Alive, Active, Believes, Contends
<1>7. ProcInv(p)'
  <2>1. pc'[p] \in StepsOf(p[2])
    BY <1>3, Process DEF StepsOf, Steps, Daemonising, Roles
  <2>2. TodoInv(p)' /\ TableInv(p)' /\ DetachInv(p)'
    BY <1>1, <1>3, <1>6 DEF TodoInv, TableInv, DetachInv, Daemonising, Empty
  <2>3. QED
    BY <2>1, <2>2 DEF ProcInv
<1>8. LineInv'
  <2> SUFFICES ASSUME NEW l \in Launches
               PROVE  /\ pc'[<<l, "child">>] # "none" => pc'[<<l, "orig">>] \in {"exit", "gone"}
                      /\ pc'[<<l, "daemon">>] # "none" =>
                           /\ pc'[<<l, "orig">>] \in {"exit", "gone"}
                           /\ pc'[<<l, "child">>] \in {"exit", "gone"}
    BY DEF LineInv
  <2> DEFINE o == <<l, "orig">>
             c == <<l, "child">>
             d == <<l, "daemon">>
  <2>1. o \in Procs /\ c \in Procs /\ d \in Procs
    BY LaunchProcesses
  <2>2. /\ pc[c] # "none" => pc[o] \in {"exit", "gone"}
        /\ pc[d] # "none" => pc[o] \in {"exit", "gone"} /\ pc[c] \in {"exit", "gone"}
    BY DEF IInv, LineInv
  <2>3. pc[p] # "none"
    BY DEF Alive
  <2> HIDE DEF o, c, d
  <2>4. /\ pc'[c] # "none" => pc'[o] \in {"exit", "gone"}
        /\ pc'[d] # "none" => pc'[o] \in {"exit", "gone"} /\ pc'[c] \in {"exit", "gone"}
    BY <1>3, <1>5, <2>1, <2>2, <2>3
  <2>5. QED
    BY <2>4 DEF o, c, d
<1>9. OwnerInv'
  <2>1. ASSUME NEW q \in Procs, Active(q)', owner' \in FilesOf(q[1])
        PROVE  sees'[q] = "first"
    <3>1. owner' = owner
      BY <1>1, <2>1, FilesAreApart, Process DEF OwnerKept
    <3>2. q # p /\ Active(q)
      BY <1>5, <1>6, <2>1
    <3>3. sees[q] = "first"
      BY <2>1, <3>1, <3>2 DEF IInv, OwnerInv
    <3>4. QED
      BY <1>5, <3>2, <3>3
  <2>2. QED
    BY <1>1, <2>1 DEF IInv, OwnerInv, OwnerKept, IsLock
<1>10. RefusedInv'
  BY <1>3, <1>4, <1>5 DEF IInv, RefusedInv
<1>11. AloneInv'
  <2>1. \A q \in Procs : Alive(q)' => Alive(q)
    BY <1>5, <1>6
  <2>2. \A l \in Launches : Running(l)' => Running(l)
    BY <2>1 DEF Running, Procs
  <2>3. ASSUME NEW l \in alone
        PROVE  pc'[<<l, "orig">>] # "none"
    <3>1. l \in Launches /\ pc[<<l, "orig">>] # "none"
      BY DEF IInv, TypeInv, AloneInv
    <3>2. QED
      BY <1>3, <1>5, <3>1, LaunchProcesses
  <2>4. ASSUME NEW l \in alone, NEW k \in Launches, Running(k)', Running(l)'
        PROVE  k = l
    <3>1. l \in Launches
      BY DEF IInv, TypeInv
    <3>2. QED
      BY <2>2, <2>4, <3>1 DEF IInv, AloneInv
  <2>5. QED
    BY <2>3, <2>4 DEF AloneInv
<1>12. RaceInv'
  <2> SUFFICES ASSUME mishaps' = {}
               PROVE  /\ owner' # NoFile => \E q \in Procs : Believes(q)'
                      /\ \E q \in Procs : Contends(q)'
    BY DEF RaceInv
  <2>1. ~ Contends(p) /\ ~ Believes(p)
    BY CallSequences DEF Believes, Contends, Active, Alive, IInv, ProcInv, TodoInv
  <2>2. /\ owner # NoFile => \E q \in Procs : Believes(q)
        /\ \E q \in Procs : Contends(q)
    BY DEF IInv, RaceInv, Alive
  <2>3. QED
    BY <1>1, <1>5, <2>1, <2>2 DEF OwnerKept
<1>13. LockIsKept => BelieverOwnsLock'
  <2> SUFFICES ASSUME LockIsKept, NEW q \in Procs, Believes(q)'
               PROVE  owner' # NoFile /\ Refers(fds'[q], owner')
    BY DEF BelieverOwnsLock, Refers
  <2>1. q # p /\ Believes(q)
    BY <1>5, <1>6
  <2>2. owner # NoFile /\ Refers(fds[q], owner)
    BY <2>1 DEF IInv, BelieverOwnsLock, Refers
  <2>3. QED
    BY <1>1, <2>1, <2>2 DEF OwnerKept
<1>14. QED
  BY <1>2, <1>5, <1>7, <1>8, <1>9, <1>10, <1>11, <1>12, <1>13 DEF IInv

LEMMA FailKeeps ==
  ASSUME IInv, NEW p \in Procs, Alive(p), Fail(p)
  PROVE  IInv'
BY ExitKeeps DEF Fail, Mishap

\* The shell starts the program once more.
LEMMA StartKeeps ==
  ASSUME IInv, NEW l \in Launches, Start(l)
  PROVE  IInv'
<1> DEFINE p == <<l, "orig">>
<1>1. p \in Procs /\ p[1] = l /\ p[2] = "orig"
  BY LaunchProcesses
<1>2. /\ pc[p] = "none"
      /\ pc' = [pc EXCEPT ![p] = "main"]
      /\ todo' = [todo EXCEPT ![p] = prog.ops]
      /\ leader' = [leader EXCEPT ![p] = TRUE]
      /\ alone' = (alone \ {k \in Launches : Running(k)})
                  \cup (IF \E k \in Launches : Running(k) THEN {} ELSE {l})
      /\ UNCHANGED <<prog, sees, tmpfd, owner, mishaps>>
  BY DEF Start
<1>3. PICK inherited \in prog.inherits :
        fds' = [fds EXCEPT ![p] = [d \in Fds |-> IF d \in inherited THEN Inherited(l) ELSE NoFile]]
  BY DEF Start
<1> HIDE DEF p
<1>4. \A q \in Procs : q[1] = l => pc[q] = "none" /\ ~ Alive(q)
  <2>1. pc[<<l, "child">>] = "none" /\ pc[<<l, "daemon">>] = "none"
    BY <1>2 DEF IInv, LineInv, p
  <2>2. QED
    BY <1>2, <2>1, LaunchProcesses DEF Alive, p
<1>5. prog.ops \in {Lock, LockDaemon, DaemonLock} /\ prog \in ProgramType
  BY CallSequences, ProgramAssumption DEF IInv, TypeInv, ProgramType
<1>6. /\ \A d \in Fds : fds'[p][d] \in {NoFile, Inherited(l)}
      /\ \A d \in Fds : d \in inherited => fds'[p][d] = Inherited(l)
  BY <1>1, <1>3 DEF IInv, TypeInv
<1>7. TypeInv'
  <2>1. [d \in Fds |-> IF d \in inherited THEN Inherited(l) ELSE NoFile]
          \in [Fds -> {NoFile} \cup UNION {FilesOf(k) : k \in Launches}]
    BY FilesAreApart
  <2>2. fds' \in [Procs -> [Fds -> {NoFile} \cup UNION {FilesOf(k) : k \in Launches}]]
    BY <1>3, <2>1 DEF IInv, TypeInv
  <2>3. "main" \in Steps
    BY DEF Steps
  <2>4. QED
    BY <1>2, <1>5, <2>2, <2>3 DEF IInv, TypeInv
<1>8. Only({p}) /\ pc'[p] = "main" /\ todo'[p] = prog.ops /\ sees'[p] = sees[p] /\ prog' = prog
  BY <1>1, <1>2, <1>3 DEF Only, IInv, TypeInv
<1>9. \A q \in Procs \ {p} : /\ ProcInv(q)' /\ pc'[q] = pc[q] /\ sees'[q] = sees[q]
                             /\ fds'[q] = fds[q]
                             /\ Alive(q)' = Alive(q) /\ Active(q)' = Active(q)
                             /\ Believes(q)' = Believes(q) /\ Contends(q)' = Contends(q)
  BY <1>2, <1>8, OthersKeep DEF Only
<1>10. sees[p] = "none" /\ ~ Believes(p)' /\ Active(p)' /\ Alive(p)'
  <2>1. sees[p] = "none"
    BY <1>1, <1>4 DEF IInv, ProcInv, TodoInv
  <2>2. QED
    BY <1>8, <2>1 DEF Believes, Active, Alive
<1>11. ProcInv(p)'
  <2>1. pc'[p] \in StepsOf(p[2])
    BY <1>1, <1>8 DEF StepsOf, Steps, Daemonising
  <2>2. TodoInv(p)'
    BY <1>8, <1>10 DEF TodoInv, Alive, Daemonising
  <2>3. TableInv(p)'
    <3>1. \A d \in Fds : fds'[p][d] \in {NoFile} \cup FilesOf(l)
      BY <1>6, FilesAreApart
    <3>2. (\A i \in prog.inherits : Std \subseteq i) =>
            \A d \in Std : fds'[p][d] # NoFile /\ ~ IsLock(fds'[p][d])
      <4>1. Std \subseteq Fds
        BY LimitAssumption DEF Std, Fds
      <4>2. Inherited(l) # NoFile /\ ~ IsLock(Inherited(l))
        BY FilesAreApart
      <4>3. QED
        BY <1>6, <4>1, <4>2
    <3>3. QED
      BY <1>1, <1>8, <1>10, <3>1, <3>2 DEF TableInv, IsLock
  <2>4. DetachInv(p)'
    BY <1>1 DEF DetachInv, Role
  <2>5. QED
    BY <2>1, <2>2, <2>3, <2>4 DEF ProcInv
<1>12. LineInv'
  <2> SUFFICES ASSUME NEW k \in Launches
               PROVE  /\ pc'[<<k, "child">>] # "none" => pc'[<<k, "orig">>] \in {"exit", "gone"}
                      /\ pc'[<<k, "daemon">>] # "none" =>
                           /\ pc'[<<k, "orig">>] \in {"exit", "gone"}
                           /\ pc'[<<k, "child">>] \in {"exit", "gone"}
    BY DEF LineInv
  <2> DEFINE o == <<k, "orig">>
             c == <<k, "child">>
             d == <<k, "daemon">>
  <2>1. /\ o \in Procs /\ c \in Procs /\ d \in Procs /\ c # p /\ d # p
        /\ o = p => c[1] = l /\ d[1] = l
    BY LaunchProcesses DEF p
  <2>2. /\ pc[c] # "none" => pc[o] \in {"exit", "gone"}
        /\ pc[d] # "none" => pc[o] \in {"exit", "gone"} /\ pc[c] \in {"exit", "gone"}
    BY DEF IInv, LineInv
  <2> HIDE DEF o, c, d
  <2>3. /\ pc'[c] # "none" => pc'[o] \in {"exit", "gone"}
        /\ pc'[d] # "none" => pc'[o] \in {"exit", "gone"} /\ pc'[c] \in {"exit", "gone"}
    BY <1>4, <1>9, <2>1, <2>2
  <2>4. QED
    BY <2>3 DEF o, c, d
<1>13. OwnerInv' /\ (owner # NoFile => owner \notin FilesOf(l))
  <2>1. ASSUME owner # NoFile
        PROVE  owner \notin FilesOf(l) /\ \E q \in Procs : Refers(fds'[q], owner)
    <3>1. PICK q \in Procs, d \in Fds : fds[q][d] = owner
      BY <2>1 DEF IInv, OwnerInv, Refers
    <3>2. owner \in FilesOf(q[1])
      BY <2>1, <3>1 DEF IInv, ProcInv, TableInv
    <3>3. Alive(q)
      BY <2>1, <3>1 DEF IInv, ProcInv, TableInv, Empty
    <3>4. q # p /\ q[1] # l
      BY <1>1, <1>4, <3>1, <3>3
    <3>5. owner \notin FilesOf(l)
      BY <3>1, <3>2, <3>4, FilesAreApart, Process
    <3>6. QED
      BY <1>9, <3>1, <3>4, <3>5 DEF Refers
  <2>2. ASSUME NEW q \in Procs, Active(q)', owner \in FilesOf(q[1])
        PROVE  sees'[q] = "first"
    <3>1. owner # NoFile
      BY <2>2, FilesAreApart, Process
    <3>2. q # p
      BY <1>1, <2>1, <2>2, <3>1
    <3>3. QED
      BY <1>9, <2>2, <3>2 DEF IInv, OwnerInv
  <2>3. QED
    BY <1>2, <2>1, <2>2 DEF IInv, OwnerInv, IsLock
<1>14. AloneInv'
  <2>1. \A k \in Launches \ {l} : Running(k)' = Running(k)
    <3>1. \A k \in Launches \ {l} : \A r \in Roles : Alive(<<k, r>>)' = Alive(<<k, r>>)
      BY <1>9 DEF p, Procs
    <3>2. QED
      BY <3>1 DEF Running
  <2>2. ~ Running(l) /\ l \notin alone
    <3>1. ~ Running(l)
      BY <1>4 DEF Running, Procs
    <3>2. QED
      BY <1>2, <3>1 DEF IInv, AloneInv, p
  <2>3. ASSUME NEW k \in alone'
        PROVE  pc'[<<k, "orig">>] # "none"
    <3>1. k \in Launches /\ (k = l \/ k \in alone)
      BY <1>2, <1>7, <2>3 DEF TypeInv
    <3>2. k \in alone => pc[<<k, "orig">>] # "none"
      BY DEF IInv, AloneInv
    <3>3. QED
      BY <1>8, <1>9, <3>1, <3>2, LaunchProcesses DEF p
  <2>4. ASSUME NEW j \in alone', NEW k \in Launches, Running(k)', Running(j)'
        PROVE  k = j
    <3>1. j \in Launches
      BY <1>7 DEF TypeInv
    <3>2. CASE j = l
      BY <1>2, <2>1, <2>2, <2>4, <3>2
    <3>3. CASE j # l
      BY <1>2, <2>1, <2>4, <3>1, <3>3
    <3>4. QED
      BY <3>2, <3>3
  <2>5. QED
    BY <2>3, <2>4 DEF AloneInv
<1>15. RefusedInv'
  <2>1. ASSUME NEW q \in Procs, sees'[q] = "running" \/ pc'[q] = "close"
        PROVE  q[1] \in mishaps' \/ q[1] \notin alone'
    <3>1. q # p /\ (sees[q] = "running" \/ pc[q] = "close")
      BY <1>1, <1>8, <1>9, <1>10, <2>1
    <3>2. Alive(q)
      BY <1>1, <3>1 DEF IInv, ProcInv, TodoInv, Alive
    <3>3. q[1] # l
      BY <1>4, <3>2
    <3>4. q[1] \in mishaps \/ q[1] \notin alone
      BY <3>1 DEF IInv, RefusedInv
    <3>5. QED
      BY <1>2, <3>3, <3>4
  <2>2. QED
    BY <2>1 DEF RefusedInv
<1>16. RaceInv'
  <2> SUFFICES ASSUME mishaps' = {}
               PROVE  /\ owner' # NoFile => \E q \in Procs : Believes(q)'
                      /\ \E q \in Procs : Contends(q)'
    BY DEF RaceInv
  <2>1. owner # NoFile => \E q \in Procs : Believes(q)
    BY <1>2 DEF IInv, RaceInv
  <2>2. ~ Believes(p)
    BY <1>10 DEF Believes
  <2>3. Contends(p)'
    BY <1>8, <1>10 DEF Contends
  <2>4. QED
    BY <1>1, <1>2, <1>9, <2>1, <2>2, <2>3
<1>17. LockIsKept => BelieverOwnsLock'
  <2> SUFFICES ASSUME LockIsKept, NEW q \in Procs, Believes(q)'
               PROVE  owner' # NoFile /\ Refers(fds'[q], owner')
    BY DEF BelieverOwnsLock, Refers
  <2>1. q # p /\ Believes(q)
    BY <1>9, <1>10
  <2>2. QED
    BY <1>2, <1>9, <2>1 DEF IInv, BelieverOwnsLock, Refers
<1>18. QED
  BY <1>7, <1>9, <1>11, <1>12, <1>13, <1>14, <1>15, <1>16, <1>17 DEF IInv

\* A process forks and has nothing left to do but exit.
LEMMA ForkKeeps ==
  ASSUME IInv, NEW p \in Procs, NEW c \in Procs, Active(p), c[1] = p[1], c # p,
         pc[c] = "none", NEW next \in Daemonising, next \in StepsOf(c[2]),
         pc[p] \notin {"flock", "close", "std"}, "exit" \in StepsOf(p[2]),
         todo[p] \in {Daemon, DaemonLock}, sees[p] # "running",
         c[2] = "daemon" => next = "std",
         pc' = [pc EXCEPT ![p] = "exit", ![c] = next],
         fds' = [fds EXCEPT ![c] = fds[p]],
         todo' = [todo EXCEPT ![c] = todo[p]],
         sees' = [sees EXCEPT ![c] = sees[p]],
         leader' = [leader EXCEPT ![c] = FALSE],
         UNCHANGED <<prog, tmpfd, owner, mishaps, alone>>,
         LineInv'
  PROVE  IInv'
<1>1. next \in Steps \ {"none", "gone", "exit", "flock", "close", "main", "serve"}
  BY DEF Daemonising, Steps
<1>2. TypeInv'
  BY <1>1 DEF IInv, TypeInv, Steps
<1>3. /\ pc'[p] = "exit" /\ pc'[c] = next
      /\ fds'[p] = fds[p] /\ todo'[p] = todo[p] /\ sees'[p] = sees[p] /\ leader'[p] = leader[p]
      /\ fds'[c] = fds[p] /\ todo'[c] = todo[p] /\ sees'[c] = sees[p] /\ leader'[c] = FALSE
      /\ Only({p, c})
  BY DEF IInv, TypeInv, Only
<1>4. \A q \in Procs \ {p, c} : /\ ProcInv(q)' /\ pc'[q] = pc[q] /\ sees'[q] = sees[q]
                                /\ fds'[q] = fds[q]
                                /\ Alive(q)' = Alive(q) /\ Active(q)' = Active(q)
                                /\ Believes(q)' = Believes(q) /\ Contends(q)' = Contends(q)
  BY <1>3, OthersKeep DEF Only
<1>5. /\ Alive(p) /\ Alive(p)' /\ ~ Active(p)' /\ ~ Believes(p)'
      /\ ~ Alive(c) /\ Alive(c)' /\ Active(c)' /\ ~ Believes(c) /\ ~ Contends(c)
      /\ Believes(p) => Believes(c)' /\ Contends(c)'
  BY <1>1, <1>3 DEF Alive, Active, Believes, Contends
<1>6. ProcInv(p)
  BY DEF IInv
<1>7. ProcInv(p)'
  <2>1. TodoInv(p)'
    BY <1>3, <1>5, <1>6 DEF ProcInv, TodoInv, Daemonising
  <2>2. TableInv(p)'
    BY <1>3, <1>5, <1>6 DEF ProcInv, TableInv
  <2>3. DetachInv(p)'
    BY <1>3, <1>5, <1>6 DEF ProcInv, DetachInv, Role, StepsOf
  <2>4. QED
    BY <1>3, <2>1, <2>2, <2>3 DEF ProcInv
<1>8. ProcInv(c)'
  <2>1. TodoInv(c)'
    BY <1>1, <1>3, <1>5, <1>6 DEF ProcInv, TodoInv
  <2>2. TableInv(c)'
    BY <1>1, <1>3, <1>5, <1>6 DEF ProcInv, TableInv
  <2>3. DetachInv(c)'
    BY <1>3 DEF DetachInv, Role
  <2>4. QED
    BY <1>3, <2>1, <2>2, <2>3 DEF ProcInv
<1>9. OwnerInv'
  <2>1. owner # NoFile => \E q \in Procs : Refers(fds'[q], owner)
    <3>1. ASSUME owner # NoFile, NEW q \in Procs, Refers(fds[q], owner)
          PROVE  Refers(fds'[q], owner)
      <4>1. q # c
        BY <1>5, <3>1 DEF IInv, ProcInv, TableInv, Refers, Empty
      <4>2. QED
        BY <1>3, <1>4, <3>1, <4>1
    <3>2. QED
      BY <3>1 DEF IInv, OwnerInv
  <2>2. ASSUME NEW q \in Procs, Active(q)', owner \in FilesOf(q[1])
        PROVE  sees'[q] = "first"
    BY <1>3, <1>4, <1>5, <2>2 DEF IInv, OwnerInv
  <2>3. QED
    BY <2>1, <2>2 DEF IInv, OwnerInv, IsLock
<1>10. RefusedInv'
  <2>1. \A q \in {p, c} : sees'[q] # "running" /\ pc'[q] # "close"
    BY <1>1, <1>3
  <2>2. ASSUME NEW q \in Procs, sees'[q] = "running" \/ pc'[q] = "close"
        PROVE  q[1] \in mishaps \/ q[1] \notin alone
    <3>1. q \in Procs \ {p, c} /\ (sees[q] = "running" \/ pc[q] = "close")
      BY <1>4, <2>1, <2>2
    <3>2. QED
      BY <3>1 DEF IInv, RefusedInv
  <2>3. QED
    BY <2>2 DEF RefusedInv
<1>11. AloneInv'
  <2>1. \A l \in Launches : Running(l)' = Running(l)
    <3>1. \A q \in Procs : q[1] # p[1] => Alive(q)' = Alive(q)
      BY <1>4
    <3>2. Running(p[1]) /\ Running(p[1])'
      BY <1>5, Process DEF Running
    <3>3. ASSUME NEW l \in Launches, l # p[1]
          PROVE  Running(l)' = Running(l)
      BY <3>1, <3>3 DEF Running, Procs
    <3>4. ASSUME NEW l \in Launches, l = p[1]
          PROVE  Running(l)' = Running(l)
      BY <3>2, <3>4 DEF Running
    <3>5. QED
      BY <3>3, <3>4
  <2>2. \A q \in Procs : pc[q] # "none" => pc'[q] # "none"
    BY <1>1, <1>3, <1>4
  <2>3. ASSUME NEW l \in alone
        PROVE  /\ pc'[<<l, "orig">>] # "none"
               /\ \A k \in Launches : Running(k)' /\ Running(l)' => k = l
    <3>1. l \in Launches
      BY DEF IInv, TypeInv
    <3>2. QED
      BY <2>1, <2>2, <3>1, LaunchProcesses DEF IInv, AloneInv
  <2>4. QED
    BY <2>3 DEF AloneInv
<1>12. RaceInv'
  <2>1. Contends(c)'
    BY <1>1, <1>3, <1>5 DEF Contends
  <2>2. QED
    BY <1>4, <1>5, <2>1 DEF IInv, RaceInv
<1>13. LockIsKept => BelieverOwnsLock'
  <2> SUFFICES ASSUME LockIsKept, NEW q \in Procs, Believes(q)'
               PROVE  owner' # NoFile /\ Refers(fds'[q], owner')
    BY DEF BelieverOwnsLock, Refers
  <2>1. CASE q = c
    BY <1>3, <1>5, <2>1 DEF IInv, BelieverOwnsLock, Refers, Believes, Active
  <2>2. CASE q # c
    BY <1>4, <1>5, <2>2 DEF IInv, BelieverOwnsLock, Refers
  <2>3. QED
    BY <2>1, <2>2
<1>14. QED
  BY <1>2, <1>4, <1>7, <1>8, <1>9, <1>10, <1>11, <1>12, <1>13 DEF IInv

-----------------------------------------------------------------------------
(***************************************************************************)
(* program_is_running, a call at a time.                                   *)
(***************************************************************************)
LEMMA LockCall ==
  ASSUME IInv, NEW p \in Procs, Alive(p), todo[p] \in {Lock, LockDaemon}
  PROVE  sees[p] = "none" /\ (todo[p] = Lock \/ prog.ops = LockDaemon)
BY CallSequences DEF IInv, ProcInv, TodoInv

LEMMA Answered ==
  ASSUME IInv, NEW p \in Procs, Active(p), pc[p] \in {"main", "flock", "close"},
         todo[p] \in {Lock, LockDaemon},
         NEW what \in {"first", "running"}, Answer(p, what), prog' = prog
  PROVE  /\ pc'[p] = "main" /\ sees'[p] = what /\ Active(p)' /\ TodoInv(p)'
         /\ pc'[p] \in StepsOf(p[2])
         /\ \A q \in Procs \ {p} : /\ pc'[q] = pc[q] /\ todo'[q] = todo[q]
                                   /\ sees'[q] = sees[q] /\ tmpfd'[q] = tmpfd[q]
         /\ pc' \in [Procs -> Steps]
         /\ todo' \in [Procs -> {<<>>, Lock, Daemon, LockDaemon, DaemonLock}]
         /\ sees' \in [Procs -> {"none", "first", "running"}]
         /\ tmpfd' \in [Procs -> Int]
<1>1. Tail(todo[p]) \in {<<>>, Daemon} /\ (Tail(todo[p]) = <<>> \/ prog.ops = LockDaemon)
  BY LockCall, CallSequences DEF Active
<1>2. "main" \in Steps
  BY DEF Steps
<1>3. /\ pc' = [pc EXCEPT ![p] = "main"]
      /\ todo' = [todo EXCEPT ![p] = Tail(todo[p])]
      /\ sees' = [sees EXCEPT ![p] = what]
      /\ tmpfd' = [tmpfd EXCEPT ![p] = 0]
  BY DEF Answer
<1>4. /\ pc' \in [Procs -> Steps]
      /\ todo' \in [Procs -> {<<>>, Lock, Daemon, LockDaemon, DaemonLock}]
      /\ sees' \in [Procs -> {"none", "first", "running"}]
      /\ tmpfd' \in [Procs -> Int]
  BY <1>1, <1>2, <1>3 DEF IInv, TypeInv
<1>5. /\ pc'[p] = "main" /\ todo'[p] = Tail(todo[p]) /\ sees'[p] = what
      /\ \A q \in Procs \ {p} : /\ pc'[q] = pc[q] /\ todo'[q] = todo[q]
                                /\ sees'[q] = sees[q] /\ tmpfd'[q] = tmpfd[q]
  BY <1>3 DEF IInv, TypeInv
<1>6. Active(p)' /\ Alive(p)'
  BY <1>5 DEF Active, Alive
<1>7. TodoInv(p)'
  BY <1>1, <1>5, <1>6 DEF TodoInv, Daemonising
<1>8. pc'[p] \in StepsOf(p[2])
  BY <1>5, Process DEF IInv, ProcInv, StepsOf, Daemonising, Roles, Steps
<1>9. QED
  BY <1>4, <1>5, <1>6, <1>7, <1>8

LEMMA CallOfLock ==
  ASSUME IInv, NEW p \in Procs, Calls(p, "lock")
  PROVE  Active(p) /\ Alive(p) /\ pc[p] = "main" /\ todo[p] \in {Lock, LockDaemon}
BY CallSequences DEF Calls, Active, Alive, IInv, TypeInv

LEMMA OpenLockKeeps ==
  ASSUME IInv, NEW p \in Procs, OpenLock(p)
  PROVE  IInv'
<1>1. /\ Active(p) /\ Alive(p) /\ pc[p] = "main" /\ todo[p] \in {Lock, LockDaemon}
      /\ sees[p] = "none"
  BY CallOfLock, LockCall DEF OpenLock
<1>2. CASE Answer(p, "running") /\ Mishap(p) /\ UNCHANGED fds
  <2>1. UNCHANGED <<prog, fds, leader, owner, alone>> /\ mishaps' = mishaps \cup {p[1]}
    BY <1>2 DEF OpenLock, Mishap
  <2>2. /\ pc'[p] = "main" /\ sees'[p] = "running" /\ Active(p)' /\ TodoInv(p)'
        /\ pc'[p] \in StepsOf(p[2])
        /\ \A q \in Procs \ {p} : /\ pc'[q] = pc[q] /\ todo'[q] = todo[q]
                                  /\ sees'[q] = sees[q] /\ tmpfd'[q] = tmpfd[q]
    BY <1>1, <1>2, <2>1, Answered
  <2>3. TypeInv'
    BY <1>1, <1>2, <2>1, Answered, Process DEF IInv, TypeInv
  <2>4. Only({p})
    BY <2>1, <2>2 DEF Only
  <2>5. TableInv(p)'
    BY <1>1, <2>1, <2>2 DEF IInv, ProcInv, TableInv, Active
  <2>6. DetachInv(p)'
    BY <2>1 DEF IInv, ProcInv, DetachInv, Role
  <2>7. OwnerKept
    BY <2>1, SameTablesKeepOwner
  <2>8. QED
    BY <1>1, <2>1, <2>2, <2>3, <2>4, <2>5, <2>6, <2>7, KeptKeeps DEF ProcInv
<1>3. CASE /\ Free(fds[p]) # {}
           /\ LET fd == Lowest(Free(fds[p])) IN
                /\ fds' = [fds EXCEPT ![p][fd] = LockFile(p)]
                /\ tmpfd' = [tmpfd EXCEPT ![p] = fd]
           /\ pc' = [pc EXCEPT ![p] = "flock"]
           /\ UNCHANGED <<todo, sees, mishaps>>
  <2> DEFINE fd == Lowest(Free(fds[p]))
  <2>1. UNCHANGED <<prog, todo, sees, leader, owner, mishaps, alone>>
    BY <1>3 DEF OpenLock
  <2>2. fd \in Fds /\ fds[p][fd] = NoFile
    BY <1>3, LowestIsFree
  <2>3. /\ fds' = [fds EXCEPT ![p][fd] = LockFile(p)]
        /\ tmpfd' = [tmpfd EXCEPT ![p] = fd]
        /\ pc' = [pc EXCEPT ![p] = "flock"]
    BY <1>3
  <2> HIDE DEF fd
  <2>4. TypeInv'
    <3>1. LockFile(p) \in UNION {FilesOf(l) : l \in Launches}
      BY FilesAreApart, Process
    <3>2. fds' \in [Procs -> [Fds -> {NoFile} \cup UNION {FilesOf(l) : l \in Launches}]]
      BY <2>3, <3>1 DEF IInv, TypeInv
    <3>3. fd \in Int /\ "flock" \in Steps
      BY <2>2, LimitAssumption DEF Fds, Steps
    <3>4. pc' \in [Procs -> Steps] /\ tmpfd' \in [Procs -> Int]
      BY <2>3, <3>3 DEF IInv, TypeInv
    <3>5. QED
      BY <2>1, <3>2, <3>4 DEF IInv, TypeInv
  <2>5. /\ pc'[p] = "flock" /\ tmpfd'[p] = fd /\ fds'[p][fd] = LockFile(p)
        /\ \A d \in Fds \ {fd} : fds'[p][d] = fds[p][d]
        /\ \A q \in Procs \ {p} : pc'[q] = pc[q] /\ tmpfd'[q] = tmpfd[q] /\ fds'[q] = fds[q]
    BY <2>2, <2>3 DEF IInv, TypeInv
  <2>6. Only({p}) /\ Active(p)' /\ Alive(p)'
    BY <2>1, <2>5 DEF Only, Active, Alive
  <2>7. Std \subseteq Fds
    BY LimitAssumption DEF Std, Fds
  <2>8. TodoInv(p)' /\ pc'[p] \in StepsOf(p[2])
    <3>1. TodoInv(p)'
      BY <1>1, <2>1, <2>5, <2>6 DEF IInv, ProcInv, TodoInv, Daemonising
    <3>2. pc'[p] \in StepsOf(p[2])
      BY <1>1, <2>5, Process DEF IInv, ProcInv, StepsOf, Daemonising, Roles, Steps
    <3>3. QED
      BY <3>1, <3>2
  <2>9. TableInv(p)'
    <3>1. \A d \in Fds : fds'[p][d] \in {NoFile} \cup FilesOf(p[1])
      BY <2>5, FilesAreApart DEF IInv, ProcInv, TableInv
    <3>2. prog.ops = LockDaemon /\ (\A inherited \in prog.inherits : Std \subseteq inherited)
            => \A d \in Std : fds'[p][d] # NoFile /\ ~ IsLock(fds'[p][d])
      BY <1>1, <2>2, <2>5, <2>7 DEF IInv, ProcInv, TableInv
    <3>3. QED
      BY <2>1, <2>2, <2>5, <2>6, <3>1, <3>2 DEF TableInv, IsLock
  <2>10. DetachInv(p)'
    <3> SUFFICES ASSUME Role(p, "daemon")
                 PROVE  DetachInv(p)'
      BY DEF DetachInv, Role
    <3>1. ~ leader[p]
      BY DEF IInv, ProcInv, DetachInv
    <3>2. ASSUME p[1] \notin mishaps, ~ prog.nostdclose
          PROVE  \A d \in Std : fds'[p][d] = Null(p)
      <4>1. \A d \in Std : fds[p][d] = Null(p)
        BY <1>1, <3>2 DEF IInv, ProcInv, DetachInv
      <4>2. Null(p) # NoFile
        BY FilesAreApart, Process
      <4>3. QED
        BY <2>2, <2>5, <2>7, <4>1, <4>2
    <3>3. ASSUME p[1] \notin mishaps, ~ prog.nofileclose, NEW d \in Fds \ Std, d < FileLimit
          PROVE  fds'[p][d] \in {NoFile, LockFile(p)}
      BY <1>1, <2>5, <3>3 DEF IInv, ProcInv, DetachInv
    <3>4. QED
      BY <2>1, <3>1, <3>2, <3>3 DEF DetachInv, FileLimit
  <2>11. \A q \in Procs : Refers(fds[q], owner) /\ owner # NoFile => Refers(fds'[q], owner)
    BY <2>2, <2>5 DEF Refers
  <2>12. OwnerKept
    BY <2>1, <2>11 DEF IInv, OwnerInv, OwnerKept
  <2>13. ~ Believes(p) /\ Contends(p)'
    BY <1>1, <2>1, <2>5, <2>6 DEF Believes, Contends
  <2>14. sees'[p] # "running" /\ pc'[p] # "close"
    BY <1>1, <2>1, <2>5
  <2>15. QED
    BY <1>1, <2>1, <2>4, <2>6, <2>8, <2>9, <2>10, <2>12, <2>13, <2>14, KeptKeeps DEF ProcInv
<1>4. QED
  BY <1>2, <1>3 DEF OpenLock

\* A launch that is refused finds the lock with another launch that runs.
LEMMA LockIsElsewhere ==
  ASSUME IInv, NEW p \in Procs, pc[p] = "flock", owner # NoFile
  PROVE  p[1] \notin alone
<1>1. Active(p) /\ Alive(p) /\ sees[p] = "none"
  BY CallSequences DEF Active, Alive, IInv, ProcInv, TodoInv
<1>2. owner \notin FilesOf(p[1])
  BY <1>1 DEF IInv, OwnerInv
<1>3. PICK q \in Procs, d \in Fds : fds[q][d] = owner
  BY DEF IInv, OwnerInv, Refers
<1>4. owner \in FilesOf(q[1]) /\ Alive(q)
  BY <1>3 DEF IInv, ProcInv, TableInv, Empty
<1>5. Running(p[1]) /\ Running(q[1]) /\ p[1] \in Launches /\ q[1] \in Launches
  BY <1>1, <1>4, Process DEF Running
<1>6. QED
  BY <1>2, <1>4, <1>5 DEF IInv, AloneInv

LEMMA LockGiven ==
  ASSUME IInv, NEW p \in Procs, pc[p] = "flock", owner = NoFile,
         owner' = fds[p][tmpfd[p]], Answer(p, "first"),
         UNCHANGED <<prog, fds, leader, mishaps, alone>>
  PROVE  IInv'
<1>1. /\ Active(p) /\ Alive(p) /\ todo[p] \in {Lock, LockDaemon}
      /\ tmpfd[p] \in Fds /\ fds[p][tmpfd[p]] = LockFile(p)
  BY DEF Active, Alive, IInv, ProcInv, TodoInv, TableInv
<1>2. /\ pc'[p] = "main" /\ sees'[p] = "first" /\ Active(p)' /\ TodoInv(p)'
      /\ pc'[p] \in StepsOf(p[2])
      /\ \A q \in Procs \ {p} : /\ pc'[q] = pc[q] /\ todo'[q] = todo[q]
                                /\ sees'[q] = sees[q] /\ tmpfd'[q] = tmpfd[q]
  BY <1>1, Answered
<1>3. TypeInv'
  BY <1>1, Answered DEF IInv, TypeInv
<1>4. Only({p})
  BY <1>2 DEF Only
<1>5. ProcInv(p)'
  <2>1. TableInv(p)'
    BY <1>1, <1>2 DEF IInv, ProcInv, TableInv, Active, IsLock
  <2>2. DetachInv(p)'
    BY <1>1 DEF IInv, ProcInv, DetachInv, Role, FileLimit
  <2>3. QED
    BY <1>2, <2>1, <2>2 DEF ProcInv
<1>6. \A q \in Procs : ProcInv(q)'
  BY <1>4, <1>5, OthersKeep
<1>7. LineInv' /\ AloneInv'
  BY <1>1, <1>2, <1>4, GoesOn
<1>8. \A q \in Procs \ {p} : Active(q)' = Active(q) /\ Believes(q)' = Believes(q)
  BY <1>4, OthersKeep
<1>9. OwnerInv'
  <2>1. Refers(fds'[p], owner') /\ owner' = LockFile(p)
    BY <1>1 DEF Refers
  <2>2. ASSUME NEW q \in Procs, Active(q)', owner' \in FilesOf(q[1])
        PROVE  sees'[q] = "first"
    <3>1. q[1] = p[1]
      BY <2>1, <2>2, FilesAreApart, Process
    <3>2. q = p
      <4> SUFFICES ASSUME q # p
                   PROVE  FALSE
        OBVIOUS
      <4>1. Active(q)
        BY <1>8, <2>2
      <4>2. QED
        BY <1>1, <3>1, <4>1, OneActive DEF Active, Alive
    <3>3. QED
      BY <1>2, <3>2
  <2>3. QED
    BY <2>1, <2>2 DEF OwnerInv, IsLock
<1>10. RefusedInv'
  BY <1>2 DEF IInv, RefusedInv
<1>11. RaceInv'
  <2>1. Believes(p)' /\ Contends(p)'
    BY <1>2 DEF Believes, Contends, Active
  <2>2. QED
    BY <2>1 DEF RaceInv
<1>12. LockIsKept => BelieverOwnsLock'
  <2> SUFFICES ASSUME LockIsKept, NEW q \in Procs, Believes(q)'
               PROVE  owner' # NoFile /\ Refers(fds'[q], owner')
    BY DEF BelieverOwnsLock, Refers
  <2>1. ~ Believes(q)
    BY DEF IInv, BelieverOwnsLock
  <2>2. q = p
    BY <1>8, <2>1
  <2>3. QED
    BY <1>1, <2>2, FilesAreApart, Process DEF Refers
<1>13. QED
  BY <1>3, <1>6, <1>7, <1>9, <1>10, <1>11, <1>12 DEF IInv

LEMMA FlockKeeps ==
  ASSUME IInv, NEW p \in Procs, Flock(p)
  PROVE  IInv'
<1>1. /\ pc[p] = "flock" /\ Active(p) /\ Alive(p) /\ todo[p] \in {Lock, LockDaemon}
      /\ sees[p] = "none"
  <2>1. pc[p] = "flock"
    BY DEF Flock
  <2>2. Active(p) /\ Alive(p) /\ todo[p] \in {Lock, LockDaemon}
    BY <2>1 DEF Active, Alive, IInv, ProcInv, TodoInv
  <2>3. QED
    BY <2>1, <2>2, LockCall
<1>2. CASE /\ owner = NoFile
           /\ owner' = fds[p][tmpfd[p]]
           /\ Answer(p, "first")
           /\ UNCHANGED mishaps
  BY <1>1, <1>2, LockGiven DEF Flock
<1>3. CASE /\ pc' = [pc EXCEPT ![p] = "close"]
           /\ IF owner = NoFile THEN Mishap(p) ELSE UNCHANGED mishaps
           /\ UNCHANGED <<todo, sees, tmpfd, owner>>
  <2>1. UNCHANGED <<prog, todo, fds, sees, tmpfd, leader, owner, alone>>
    BY <1>3 DEF Flock
  <2>2. /\ pc'[p] = "close"
        /\ \A q \in Procs \ {p} : pc'[q] = pc[q]
    BY <1>3 DEF IInv, TypeInv
  <2>3. Only({p}) /\ Active(p)' /\ Alive(p)'
    BY <2>1, <2>2 DEF Only, Active, Alive
  <2>4. mishaps' \in {mishaps, mishaps \cup {p[1]}}
    BY <1>3 DEF Mishap
  <2>5. TypeInv'
    <3>1. pc' \in [Procs -> Steps]
      BY <1>3 DEF IInv, TypeInv, Steps
    <3>2. mishaps' \subseteq Launches
      BY <2>4, Process DEF IInv, TypeInv
    <3>3. QED
      BY <2>1, <3>1, <3>2 DEF IInv, TypeInv
  <2>6. ProcInv(p)'
    <3>1. pc'[p] \in StepsOf(p[2])
      BY <1>1, <2>2, Process DEF IInv, ProcInv, StepsOf, Daemonising, Roles, Steps
    <3>2. TodoInv(p)'
      BY <1>1, <2>1, <2>2, <2>3 DEF IInv, ProcInv, TodoInv, Daemonising
    <3>3. TableInv(p)'
      BY <1>1, <2>1, <2>2, <2>3 DEF IInv, ProcInv, TableInv
    <3>4. DetachInv(p)'
      BY <1>1, <2>1, <2>2, <2>3, <2>4 DEF IInv, ProcInv, DetachInv, Role, FileLimit
    <3>5. QED
      BY <3>1, <3>2, <3>3, <3>4 DEF ProcInv
  <2>7. p[1] \in mishaps' \/ p[1] \notin alone
    BY <1>1, <1>3, LockIsElsewhere DEF Mishap
  <2>8. OwnerKept
    BY <2>1, SameTablesKeepOwner
  <2>9. mishaps' = {} => owner # NoFile
    BY <1>3 DEF Mishap
  <2>10. QED
    BY <1>1, <2>1, <2>3, <2>4, <2>5, <2>6, <2>7, <2>8, <2>9, KeptKeeps
<1>4. QED
  BY <1>2, <1>3 DEF Flock

LEMMA CloseLockKeeps ==
  ASSUME IInv, NEW p \in Procs, CloseLock(p)
  PROVE  IInv'
<1> DEFINE t == [fds[p] EXCEPT ![tmpfd[p]] = NoFile]
<1>1. /\ pc[p] = "close" /\ Answer(p, "running") /\ SetTable(p, t)
      /\ UNCHANGED <<prog, leader, mishaps, alone>>
  BY DEF CloseLock
<1>2. Active(p) /\ Alive(p) /\ todo[p] \in {Lock, LockDaemon}
  BY <1>1 DEF Active, Alive, IInv, ProcInv, TodoInv
<1>3. sees[p] = "none"
  BY <1>2, LockCall
<1>4. /\ tmpfd[p] \in Fds /\ t[tmpfd[p]] = NoFile /\ fds[p][tmpfd[p]] = LockFile(p)
      /\ \A d \in Fds \ {tmpfd[p]} : t[d] = fds[p][d]
      /\ t \in [Fds -> {NoFile} \cup UNION {FilesOf(l) : l \in Launches}]
  BY <1>1 DEF IInv, TypeInv, ProcInv, TableInv
<1> HIDE DEF t
<1>5. /\ pc'[p] = "main" /\ sees'[p] = "running" /\ Active(p)' /\ TodoInv(p)'
      /\ pc'[p] \in StepsOf(p[2])
      /\ \A q \in Procs \ {p} : /\ pc'[q] = pc[q] /\ todo'[q] = todo[q]
                                /\ sees'[q] = sees[q] /\ tmpfd'[q] = tmpfd[q]
  BY <1>1, <1>2, Answered
<1>6. OwnerKept /\ fds'[p] = t /\ \A q \in Procs \ {p} : fds'[q] = fds[q]
  BY <1>1, SetTableKeepsOwner
<1>7. TypeInv'
  <2>1. fds' \in [Procs -> [Fds -> {NoFile} \cup UNION {FilesOf(l) : l \in Launches}]]
    BY <1>1, <1>4 DEF SetTable, IInv, TypeInv
  <2>2. QED
    BY <1>1, <1>2, <2>1, Answered DEF IInv, TypeInv
<1>8. Only({p})
  BY <1>1, <1>5, <1>6 DEF Only
<1>9. Std \subseteq Fds
  BY LimitAssumption DEF Std, Fds
<1>10. TableInv(p)'
  <2>1. \A d \in Fds : t[d] \in {NoFile} \cup FilesOf(p[1])
    BY <1>4 DEF IInv, ProcInv, TableInv
  <2>2. prog.ops = LockDaemon /\ (\A inherited \in prog.inherits : Std \subseteq inherited)
          => \A d \in Std : t[d] # NoFile /\ ~ IsLock(t[d])
    BY <1>2, <1>4, <1>9, FilesAreApart DEF IInv, ProcInv, TableInv
  <2>3. QED
    BY <1>1, <1>5, <1>6, <2>1, <2>2 DEF TableInv, Active, IsLock
<1>11. DetachInv(p)'
  <2>1. ASSUME \A d \in Std : fds[p][d] = Null(p)
        PROVE  \A d \in Std : t[d] = Null(p)
    <3>1. Null(p) # LockFile(p)
      BY FilesAreApart
    <3>2. QED
      BY <1>4, <1>9, <2>1, <3>1
  <2>2. \A d \in Fds : fds[p][d] \in {NoFile, LockFile(p)} => t[d] \in {NoFile, LockFile(p)}
    BY <1>4
  <2>3. QED
    BY <1>1, <1>2, <1>5, <1>6, <2>1, <2>2 DEF IInv, ProcInv, DetachInv, Role, FileLimit
<1>12. p[1] \in mishaps' \/ p[1] \notin alone
  BY <1>1 DEF IInv, RefusedInv
<1>13. ~ Contends(p) /\ ~ Believes(p)
  BY <1>1, <1>3 DEF Contends, Believes
<1>14. QED
  BY <1>1, <1>2, <1>3, <1>5, <1>6, <1>7, <1>8, <1>10, <1>11, <1>12, <1>13, KeptKeeps DEF ProcInv

LEMMA ServeKeeps ==
  ASSUME IInv, NEW p \in Procs, Serve(p)
  PROVE  IInv'
<1>1. pc[p] = "main" /\ Active(p) /\ Alive(p) /\ UNCHANGED <<prog, mishaps, alone>>
  BY DEF Serve, Active, Alive
<1>2. CASE sees[p] = "running" /\ Exit(p)
  BY <1>1, <1>2, ExitKeeps DEF Contends
<1>3. CASE /\ sees[p] = "first" /\ todo[p] = <<>>
           /\ pc' = [pc EXCEPT ![p] = "serve"]
           /\ UNCHANGED <<todo, fds, sees, tmpfd, leader, owner>>
  <2>1. pc'[p] = "serve" /\ \A q \in Procs \ {p} : pc'[q] = pc[q]
    BY <1>3 DEF IInv, TypeInv
  <2>2. Only({p}) /\ Active(p)' /\ Alive(p)'
    BY <1>1, <1>3, <2>1 DEF Only, Active, Alive
  <2>3. TypeInv'
    <3>1. pc' \in [Procs -> Steps]
      BY <1>3 DEF IInv, TypeInv, Steps
    <3>2. QED
      BY <1>1, <1>3, <3>1 DEF IInv, TypeInv
  <2>4. ProcInv(p)'
    <3>1. pc'[p] \in StepsOf(p[2])
      BY <1>1, <2>1, Process DEF IInv, ProcInv, StepsOf, Daemonising, Roles, Steps
    <3>2. TodoInv(p)'
      BY <1>1, <1>3, <2>1, <2>2 DEF IInv, ProcInv, TodoInv, Daemonising
    <3>3. TableInv(p)'
      BY <1>1, <1>3, <2>1, <2>2 DEF IInv, ProcInv, TableInv
    <3>4. DetachInv(p)'
      BY <1>1, <1>3, <2>1, <2>2 DEF IInv, ProcInv, DetachInv, Role, FileLimit
    <3>5. QED
      BY <3>1, <3>2, <3>3, <3>4 DEF ProcInv
  <2>5. OwnerKept
    BY <1>3, SameTablesKeepOwner
  <2>6. Contends(p)' /\ sees'[p] # "running" /\ pc'[p] # "close"
    BY <1>3, <2>1, <2>2 DEF Contends
  <2>7. QED
    BY <1>1, <1>3, <2>2, <2>3, <2>4, <2>5, <2>6, KeptKeeps
<1>4. QED
  BY <1>2, <1>3 DEF Serve

-----------------------------------------------------------------------------
(***************************************************************************)
(* taskutil_task_to_daemon, a step at a time.                              *)
(***************************************************************************)
LEMMA Fork1Keeps ==
  ASSUME IInv, NEW p \in Procs, Fork1(p)
  PROVE  IInv'
<1> DEFINE l == p[1]
           c == <<l, "child">>
           d == <<l, "daemon">>
<1>1. /\ pc[p] = "main" /\ Active(p) /\ Alive(p) /\ p[2] = "orig"
      /\ todo[p] \in {Daemon, DaemonLock} /\ sees[p] # "running"
  BY CallSequences DEF Fork1, Calls, Role, Active, Alive, IInv, TypeInv
<1>2. /\ l \in Launches /\ p = <<l, "orig">> /\ c \in Procs /\ c # p /\ c[1] = p[1]
      /\ c[2] = "child" /\ d \in Procs /\ d # c /\ d # p
  BY <1>1, Process, LaunchProcesses
<1>3. pc[c] = "none" /\ pc[d] = "none"
  BY <1>1, <1>2 DEF IInv, LineInv
<1>4. CASE Fail(p)
  BY <1>1, <1>4, FailKeeps
<1>5. CASE /\ pc' = [pc EXCEPT ![p] = "exit", ![c] = "setsid"]
           /\ fds' = [fds EXCEPT ![c] = fds[p]]
           /\ todo' = [todo EXCEPT ![c] = todo[p]]
           /\ sees' = [sees EXCEPT ![c] = sees[p]]
           /\ leader' = [leader EXCEPT ![c] = FALSE]
           /\ UNCHANGED <<prog, tmpfd, owner, mishaps, alone>>
  <2>1. /\ pc'[p] = "exit"
        /\ \A q \in Procs \ {p, c} : pc'[q] = pc[q]
    BY <1>2, <1>5 DEF IInv, TypeInv
  <2>2. LineInv'
    <3> SUFFICES ASSUME NEW k \in Launches
                 PROVE  /\ pc'[<<k, "child">>] # "none" => pc'[<<k, "orig">>] \in {"exit", "gone"}
                        /\ pc'[<<k, "daemon">>] # "none" =>
                             /\ pc'[<<k, "orig">>] \in {"exit", "gone"}
                             /\ pc'[<<k, "child">>] \in {"exit", "gone"}
      BY DEF LineInv
    <3>1. CASE k = l
      BY <1>2, <1>3, <2>1, <3>1
    <3>2. CASE k # l
      <4>1. /\ <<k, "orig">> \in Procs \ {p, c} /\ <<k, "child">> \in Procs \ {p, c}
            /\ <<k, "daemon">> \in Procs \ {p, c}
        BY <1>2, <3>2, LaunchProcesses
      <4>2. QED
        BY <2>1, <4>1 DEF IInv, LineInv
    <3>3. QED
      BY <3>1, <3>2
  <2>3. "setsid" \in Daemonising /\ "setsid" \in StepsOf(c[2]) /\ "exit" \in StepsOf(p[2])
    BY <1>1, <1>2 DEF Daemonising, StepsOf, Steps
  <2> HIDE DEF c, d, l
  <2>4. QED
    BY <1>1, <1>2, <1>3, <1>5, <2>2, <2>3, ForkKeeps
<1>6. QED
  BY <1>4, <1>5 DEF Fork1, ForkAndExit

LEMMA Fork2Keeps ==
  ASSUME IInv, NEW p \in Procs, Fork2(p)
  PROVE  IInv'
<1> DEFINE l == p[1]
           o == <<l, "orig">>
           d == <<l, "daemon">>
<1>1. /\ pc[p] = "fork2" /\ Active(p) /\ Alive(p) /\ p[2] = "child"
      /\ todo[p] \in {Daemon, DaemonLock} /\ sees[p] # "running"
  <2>1. pc[p] = "fork2" /\ Active(p) /\ Alive(p)
    BY DEF Fork2, Active, Alive
  <2>2. p[2] = "child"
    BY <2>1, Process DEF IInv, ProcInv, StepsOf, Daemonising, Roles
  <2>3. todo[p] \in {Daemon, DaemonLock} /\ sees[p] # "running"
    BY <2>1 DEF IInv, ProcInv, TodoInv, Daemonising
  <2>4. QED
    BY <2>1, <2>2, <2>3
<1>2. /\ l \in Launches /\ p = <<l, "child">> /\ o \in Procs /\ o # p /\ d[1] = p[1]
      /\ d[2] = "daemon" /\ d \in Procs /\ d # o /\ d # p
  BY <1>1, Process, LaunchProcesses
<1>3. pc[o] \in {"exit", "gone"} /\ pc[d] = "none"
  BY <1>1, <1>2 DEF IInv, LineInv
<1>4. CASE Fail(p)
  BY <1>1, <1>4, FailKeeps
<1>5. CASE /\ pc' = [pc EXCEPT ![p] = "exit", ![d] = "std"]
           /\ fds' = [fds EXCEPT ![d] = fds[p]]
           /\ todo' = [todo EXCEPT ![d] = todo[p]]
           /\ sees' = [sees EXCEPT ![d] = sees[p]]
           /\ leader' = [leader EXCEPT ![d] = FALSE]
           /\ UNCHANGED <<prog, tmpfd, owner, mishaps, alone>>
  <2>1. /\ pc'[p] = "exit"
        /\ \A q \in Procs \ {p, d} : pc'[q] = pc[q]
    BY <1>2, <1>5 DEF IInv, TypeInv
  <2>2. LineInv'
    <3> SUFFICES ASSUME NEW k \in Launches
                 PROVE  /\ pc'[<<k, "child">>] # "none" => pc'[<<k, "orig">>] \in {"exit", "gone"}
                        /\ pc'[<<k, "daemon">>] # "none" =>
                             /\ pc'[<<k, "orig">>] \in {"exit", "gone"}
                             /\ pc'[<<k, "child">>] \in {"exit", "gone"}
      BY DEF LineInv
    <3>1. CASE k = l
      BY <1>2, <1>3, <2>1, <3>1
    <3>2. CASE k # l
      <4>1. /\ <<k, "orig">> \in Procs \ {p, d} /\ <<k, "child">> \in Procs \ {p, d}
            /\ <<k, "daemon">> \in Procs \ {p, d}
        BY <1>2, <3>2, LaunchProcesses
      <4>2. QED
        BY <2>1, <4>1 DEF IInv, LineInv
    <3>3. QED
      BY <3>1, <3>2
  <2>3. "std" \in Daemonising /\ "std" \in StepsOf(d[2]) /\ "exit" \in StepsOf(p[2])
    BY <1>1, <1>2 DEF Daemonising, StepsOf, Steps
  <2>4. pc[p] \notin {"flock", "close", "std"}
    BY <1>1
  <2> HIDE DEF o, d, l
  <2>5. QED
    BY <1>1, <1>2, <1>3, <1>5, <2>2, <2>3, <2>4, ForkKeeps
<1>6. QED
  BY <1>4, <1>5 DEF Fork2, ForkAndExit

LEMMA ParentExitKeeps ==
  ASSUME IInv, NEW p \in Procs, ParentExit(p)
  PROVE  IInv'
<1>1. pc[p] = "exit" /\ Alive(p) /\ ~ Contends(p)
  BY DEF ParentExit, Alive, Contends, Active
<1>2. QED
  BY <1>1, ExitKeeps DEF ParentExit

\* A daemon to be goes from a step to the next one.
LEMMA Daemonises ==
  ASSUME IInv, NEW p \in Procs, pc[p] \in Daemonising,
         NEW next \in {"fork2", "files", "chdir"}, next \in StepsOf(p[2]),
         pc' = [pc EXCEPT ![p] = next], UNCHANGED <<prog, todo, sees>>
  PROVE  /\ Alive(p) /\ Active(p) /\ Active(p)' /\ pc'[p] = next /\ Contends(p)'
         /\ \A q \in Procs \ {p} : pc'[q] = pc[q]
         /\ pc' \in [Procs -> Steps] /\ TodoInv(p)'
         /\ sees'[p] # "running" /\ pc'[p] # "close"
<1>1. /\ pc'[p] = next
      /\ \A q \in Procs \ {p} : pc'[q] = pc[q]
  BY DEF IInv, TypeInv
<1>2. pc' \in [Procs -> Steps]
  BY DEF IInv, TypeInv, Steps
<1>3. Alive(p) /\ Active(p) /\ Alive(p)' /\ Active(p)'
  BY <1>1 DEF Alive, Active, Daemonising
<1>4. sees[p] # "running"
  BY DEF IInv, ProcInv, TodoInv
<1>5. TodoInv(p)'
  BY <1>1, <1>3 DEF IInv, ProcInv, TodoInv, Daemonising
<1>6. QED
  BY <1>1, <1>2, <1>3, <1>4, <1>5 DEF Contends

LEMMA SetsidKeeps ==
  ASSUME IInv, NEW p \in Procs, Setsid(p)
  PROVE  IInv'
<1>1. pc[p] = "setsid" /\ Alive(p) /\ pc[p] \in Daemonising /\ p[2] = "child"
  <2>1. pc[p] = "setsid"
    BY DEF Setsid
  <2>2. QED
    BY <2>1, Process DEF Alive, Daemonising, IInv, ProcInv, StepsOf, Roles
<1>2. CASE leader[p]
  BY <1>1, <1>2, FailKeeps DEF Setsid
<1>3. CASE ~ leader[p]
  <2>1. /\ leader' = [leader EXCEPT ![p] = TRUE]
        /\ pc' = [pc EXCEPT ![p] = "fork2"]
        /\ UNCHANGED <<prog, todo, fds, sees, tmpfd, owner, mishaps, alone>>
    BY <1>3 DEF Setsid
  <2>2. "fork2" \in StepsOf(p[2])
    BY <1>1 DEF StepsOf
  <2>3. /\ Active(p) /\ Active(p)' /\ pc'[p] = "fork2" /\ Contends(p)'
        /\ \A q \in Procs \ {p} : pc'[q] = pc[q]
        /\ pc' \in [Procs -> Steps] /\ TodoInv(p)'
        /\ sees'[p] # "running" /\ pc'[p] # "close"
    BY <1>1, <2>1, <2>2, Daemonises
  <2>4. TypeInv' /\ Only({p})
    BY <2>1, <2>3 DEF IInv, TypeInv, Only
  <2>5. ProcInv(p)'
    <3>1. TableInv(p)'
      BY <1>1, <2>1, <2>3 DEF IInv, ProcInv, TableInv, Active, IsLock
    <3>2. DetachInv(p)'
      BY <1>1 DEF DetachInv, Role
    <3>3. QED
      BY <2>2, <2>3, <3>1, <3>2 DEF ProcInv
  <2>6. OwnerKept
    BY <2>1, SameTablesKeepOwner
  <2>7. QED
    BY <2>1, <2>3, <2>4, <2>5, <2>6, KeptKeeps
<1>4. QED
  BY <1>2, <1>3

\* Where the lock is still to be the daemon's, it is on none of the
\* descriptors the daemon gives up.
LEMMA LockIsOutOfReach ==
  ASSUME IInv, NEW p \in Procs, pc[p] \in Daemonising, LockIsKept, Believes(p)
  PROVE  /\ prog.nofileclose
         /\ ~ prog.nostdclose => \A d \in Std : fds[p][d] # owner
<1>1. prog.ops = LockDaemon
  BY CallSequences DEF IInv, ProcInv, TodoInv, Believes
<1>2. prog.nofileclose /\ (prog.nostdclose \/ \A inherited \in prog.inherits : Std \subseteq inherited)
  BY <1>1 DEF LockIsKept, KeepsLock, IInv, TypeInv, LockDaemon
<1>3. Alive(p) /\ owner # NoFile
  BY DEF Believes, IInv, BelieverOwnsLock
<1>4. IsLock(owner)
  BY <1>3 DEF IInv, OwnerInv
<1>5. ~ prog.nostdclose => \A d \in Std : ~ IsLock(fds[p][d])
  BY <1>1, <1>2, <1>3 DEF IInv, ProcInv, TableInv
<1>6. QED
  BY <1>2, <1>4, <1>5

LEMMA DaemonStep ==
  ASSUME IInv, NEW p \in Procs, pc[p] \in {"std", "files", "chdir"}
  PROVE  p[2] = "daemon" /\ pc[p] \in Daemonising /\ Alive(p)
BY Process DEF Alive, Daemonising, IInv, ProcInv, StepsOf, Roles

LEMMA RedirectStdKeeps ==
  ASSUME IInv, NEW p \in Procs, RedirectStd(p)
  PROVE  IInv'
<1>1. /\ pc[p] = "std" /\ pc' = [pc EXCEPT ![p] = "files"]
      /\ UNCHANGED <<prog, todo, sees, tmpfd, leader, alone>>
  BY DEF RedirectStd
<1>2. p[2] = "daemon" /\ pc[p] \in Daemonising /\ Alive(p) /\ "files" \in StepsOf(p[2])
  BY <1>1, DaemonStep DEF StepsOf, Steps
<1>3. /\ Active(p) /\ Active(p)' /\ pc'[p] = "files" /\ Contends(p)'
      /\ \A q \in Procs \ {p} : pc'[q] = pc[q]
      /\ pc' \in [Procs -> Steps] /\ TodoInv(p)'
      /\ sees'[p] # "running" /\ pc'[p] # "close"
  BY <1>1, <1>2, Daemonises
<1>4. CASE /\ prog.nostdclose \/ p[1] \in mishaps'
           /\ UNCHANGED <<fds, owner>>
           /\ mishaps' \in {mishaps, mishaps \cup {p[1]}}
  <2>1. TypeInv' /\ Only({p})
    BY <1>1, <1>3, <1>4, Process DEF IInv, TypeInv, Only
  <2>2. ProcInv(p)'
    <3>1. TableInv(p)'
      BY <1>2, <1>1, <1>3, <1>4 DEF IInv, ProcInv, TableInv, Active, IsLock
    <3>2. DetachInv(p)'
      BY <1>1, <1>2, <1>3, <1>4 DEF IInv, ProcInv, DetachInv, Role
    <3>3. QED
      BY <1>2, <1>3, <3>1, <3>2 DEF ProcInv
  <2>3. OwnerKept
    BY <1>4, SameTablesKeepOwner
  <2>4. QED
    BY <1>1, <1>3, <1>4, <2>1, <2>2, <2>3, KeptKeeps
<1>5. CASE /\ ~ prog.nostdclose /\ Free(fds[p]) # {}
           /\ SetTable(p, NullTable(fds[p], p, Lowest(Free(fds[p]))))
           /\ UNCHANGED mishaps
  <2> DEFINE tmp == Lowest(Free(fds[p]))
             t == NullTable(fds[p], p, tmp)
  <2>1. tmp \in Fds /\ fds[p][tmp] = NoFile
    BY <1>5, LowestIsFree
  <2>2. /\ \A d \in Fds : t[d] = IF d \in Std THEN Null(p) ELSE IF d = tmp THEN NoFile ELSE fds[p][d]
        /\ t \in [Fds -> {NoFile} \cup UNION {FilesOf(l) : l \in Launches}]
    <3>1. \A d \in Fds : t[d] = IF d \in Std THEN Null(p) ELSE IF d = tmp THEN NoFile ELSE fds[p][d]
      BY DEF NullTable
    <3>2. Null(p) \in UNION {FilesOf(l) : l \in Launches}
      BY FilesAreApart, Process
    <3>3. fds[p] \in [Fds -> {NoFile} \cup UNION {FilesOf(l) : l \in Launches}]
      BY DEF IInv, TypeInv
    <3>4. QED
      BY <3>1, <3>2, <3>3 DEF NullTable
  <2>3. SetTable(p, t)
    BY <1>5
  <2> HIDE DEF tmp, t
  <2>4. OwnerKept /\ fds'[p] = t /\ \A q \in Procs \ {p} : fds'[q] = fds[q]
    BY <2>3, SetTableKeepsOwner
  <2>5. TypeInv' /\ Only({p})
    <3>1. fds' \in [Procs -> [Fds -> {NoFile} \cup UNION {FilesOf(l) : l \in Launches}]]
      BY <2>2, <2>3 DEF SetTable, IInv, TypeInv
    <3>2. QED
      BY <1>1, <1>3, <1>5, <2>4, <3>1 DEF IInv, TypeInv, Only
  <2>6. Std \subseteq Fds
    BY LimitAssumption DEF Std, Fds
  <2>7. ProcInv(p)'
    <3>1. Null(p) \in FilesOf(p[1]) /\ ~ IsLock(Null(p)) /\ Null(p) # NoFile
      BY FilesAreApart, Process
    <3>2. \A d \in Fds : t[d] \in {NoFile} \cup FilesOf(p[1])
      BY <2>2, <3>1 DEF IInv, ProcInv, TableInv
    <3>3. \A d \in Std : t[d] = Null(p) /\ t[d] # NoFile /\ ~ IsLock(t[d])
      BY <2>2, <2>6, <3>1
    <3>4. TableInv(p)'
      BY <1>3, <2>4, <3>2, <3>3 DEF TableInv, Active, IsLock
    <3>5. DetachInv(p)'
      BY <1>1, <1>2, <1>3, <2>4, <3>3 DEF IInv, ProcInv, DetachInv, Role
    <3>6. QED
      BY <1>2, <1>3, <3>4, <3>5 DEF ProcInv
  <2>8. LockIsKept /\ Believes(p) /\ Refers(fds[p], owner) => Refers(fds'[p], owner)
    <3>1. ASSUME LockIsKept, Believes(p), NEW d \in Fds, fds[p][d] = owner
          PROVE  fds'[p][d] = owner
      <4>1. d \notin Std /\ owner # NoFile
        BY <1>2, <1>5, <3>1, LockIsOutOfReach DEF IInv, BelieverOwnsLock
      <4>2. d # tmp
        BY <2>1, <3>1, <4>1
      <4>3. QED
        BY <2>2, <2>4, <3>1, <4>1, <4>2
    <3>2. QED
      BY <3>1 DEF Refers
  <2>9. QED
    BY <1>1, <1>3, <1>5, <2>4, <2>5, <2>7, <2>8, KeptKeeps
<1>6. QED
  BY <1>4, <1>5 DEF RedirectStd, Mishap

LEMMA CloseFilesKeeps ==
  ASSUME IInv, NEW p \in Procs, CloseFiles(p)
  PROVE  IInv'
<1>1. pc[p] = "files"
  BY DEF CloseFiles
<1>2. p[2] = "daemon" /\ pc[p] \in Daemonising /\ Alive(p) /\ "chdir" \in StepsOf(p[2])
  BY <1>1, DaemonStep DEF StepsOf, Steps
<1>3. CASE Fail(p)
  BY <1>2, <1>3, FailKeeps
<1>4. CASE /\ pc' = [pc EXCEPT ![p] = "chdir"]
           /\ IF prog.nofileclose THEN UNCHANGED <<fds, owner>>
              ELSE SetTable(p, [d \in Fds |-> IF d \in Swept THEN NoFile ELSE fds[p][d]])
           /\ UNCHANGED <<prog, todo, sees, tmpfd, leader, mishaps, alone>>
  <2>1. /\ Active(p) /\ Active(p)' /\ pc'[p] = "chdir" /\ Contends(p)'
        /\ \A q \in Procs \ {p} : pc'[q] = pc[q]
        /\ pc' \in [Procs -> Steps] /\ TodoInv(p)'
        /\ sees'[p] # "running" /\ pc'[p] # "close"
    BY <1>2, <1>4, Daemonises
  <2>2. CASE prog.nofileclose
    <3>1. UNCHANGED <<fds, owner>>
      BY <1>4, <2>2
    <3>2. TypeInv' /\ Only({p})
      BY <1>4, <2>1, <3>1 DEF IInv, TypeInv, Only
    <3>3. ProcInv(p)'
      <4>1. TableInv(p)'
        BY <1>2, <1>4, <2>1, <3>1 DEF IInv, ProcInv, TableInv, Active, IsLock
      <4>2. DetachInv(p)'
        BY <1>1, <1>2, <1>4, <2>1, <2>2, <3>1 DEF IInv, ProcInv, DetachInv, Role
      <4>3. QED
        BY <1>2, <2>1, <4>1, <4>2 DEF ProcInv
    <3>4. OwnerKept
      BY <3>1, SameTablesKeepOwner
    <3>5. QED
      BY <1>4, <2>1, <3>1, <3>2, <3>3, <3>4, KeptKeeps
  <2>3. CASE ~ prog.nofileclose
    <3> DEFINE t == [d \in Fds |-> IF d \in Swept THEN NoFile ELSE fds[p][d]]
    <3>1. SetTable(p, t)
      BY <1>4, <2>3
    <3>2. /\ \A d \in Fds : t[d] = IF d \in Swept THEN NoFile ELSE fds[p][d]
          /\ t \in [Fds -> {NoFile} \cup UNION {FilesOf(l) : l \in Launches}]
      BY DEF IInv, TypeInv
    <3> HIDE DEF t
    <3>3. OwnerKept /\ fds'[p] = t /\ \A q \in Procs \ {p} : fds'[q] = fds[q]
      BY <3>1, SetTableKeepsOwner
    <3>4. TypeInv' /\ Only({p})
      <4>1. fds' \in [Procs -> [Fds -> {NoFile} \cup UNION {FilesOf(l) : l \in Launches}]]
        BY <3>1, <3>2 DEF SetTable, IInv, TypeInv
      <4>2. QED
        BY <1>4, <2>1, <3>3, <4>1 DEF IInv, TypeInv, Only
    <3>5. FileLimit \in Int /\ Fds \subseteq Int /\ Std \subseteq Fds
      BY LimitAssumption DEF FileLimit, Fds, Std
    <3>6. /\ \A d \in Std : d \notin Swept
          /\ \A d \in Fds \ Std : d < FileLimit => d \in Swept
      BY <3>5 DEF Std, Swept, Fds
    <3>7. ProcInv(p)'
      <4>1. TableInv(p)'
        <5>1. \A d \in Fds : t[d] \in {NoFile} \cup FilesOf(p[1])
          BY <3>2 DEF IInv, ProcInv, TableInv
        <5>2. \A d \in Std : t[d] = fds[p][d]
          BY <3>2, <3>5, <3>6
        <5>3. prog.ops = LockDaemon /\ (\A inherited \in prog.inherits : Std \subseteq inherited)
                => \A d \in Std : t[d] # NoFile /\ ~ IsLock(t[d])
          BY <1>2, <5>2 DEF IInv, ProcInv, TableInv
        <5>4. QED
          BY <1>4, <2>1, <3>3, <5>1, <5>3 DEF TableInv, Active, IsLock
      <4>2. DetachInv(p)'
        <5>1. ~ leader[p]
          BY <1>2 DEF IInv, ProcInv, DetachInv, Role
        <5>2. p[1] \notin mishaps /\ ~ prog.nostdclose => \A d \in Std : t[d] = Null(p)
          BY <1>1, <1>2, <3>2, <3>5, <3>6 DEF IInv, ProcInv, DetachInv, Role
        <5>3. \A d \in Fds \ Std : d < FileLimit => t[d] = NoFile
          BY <3>2, <3>6
        <5>4. QED
          BY <1>4, <3>3, <5>1, <5>2, <5>3 DEF DetachInv, FileLimit
      <4>3. QED
        BY <1>2, <2>1, <4>1, <4>2 DEF ProcInv
    <3>8. ~ (LockIsKept /\ Believes(p))
      BY <1>2, <2>3, LockIsOutOfReach
    <3>9. QED
      BY <1>4, <2>1, <3>3, <3>4, <3>7, <3>8, KeptKeeps
  <2>4. QED
    BY <2>2, <2>3
<1>5. QED
  BY <1>3, <1>4 DEF CloseFiles

LEMMA ChdirKeeps ==
  ASSUME IInv, NEW p \in Procs, Chdir(p)
  PROVE  IInv'
<1>1. pc[p] = "chdir"
  BY DEF Chdir
<1>2. /\ p[2] = "daemon" /\ pc[p] \in Daemonising /\ Alive(p) /\ Active(p)
      /\ "main" \in StepsOf(p[2])
  BY <1>1, DaemonStep DEF StepsOf, Steps, Active, Daemonising
<1>3. CASE Fail(p)
  BY <1>2, <1>3, FailKeeps
<1>4. CASE /\ pc' = [pc EXCEPT ![p] = "main"]
           /\ todo' = [todo EXCEPT ![p] = Tail(@)]
           /\ UNCHANGED <<prog, fds, sees, tmpfd, leader, owner, mishaps, alone>>
  <2>1. /\ pc'[p] = "main" /\ todo'[p] = Tail(todo[p])
        /\ \A q \in Procs \ {p} : pc'[q] = pc[q] /\ todo'[q] = todo[q]
    BY <1>4 DEF IInv, TypeInv
  <2>2. Alive(p)' /\ Active(p)'
    BY <2>1 DEF Alive, Active
  <2>3. \/ todo[p] = Daemon /\ todo'[p] = <<>> /\ sees[p] = "first"
        \/ todo[p] = DaemonLock /\ todo'[p] = Lock /\ prog.ops = DaemonLock /\ sees[p] = "none"
    <3>1. prog.ops \in {Lock, LockDaemon, DaemonLock}
      BY CallSequences, ProgramAssumption DEF IInv, TypeInv, ProgramType
    <3>2. todo[p] \in {Daemon, DaemonLock} /\ sees[p] \in {"none", "first"} /\ TodoInv(p)
      BY <1>2 DEF IInv, TypeInv, ProcInv, TodoInv
    <3>3. QED
      BY <1>2, <2>1, <3>1, <3>2, CallSequences DEF TodoInv
  <2>4. TypeInv' /\ Only({p})
    <3>1. pc' \in [Procs -> Steps]
      BY <1>4 DEF IInv, TypeInv, Steps
    <3>2. todo' \in [Procs -> {<<>>, Lock, Daemon, LockDaemon, DaemonLock}]
      BY <1>4, <2>1, <2>3 DEF IInv, TypeInv
    <3>3. QED
      BY <1>4, <2>1, <3>1, <3>2 DEF IInv, TypeInv, Only
  <2>5. ProcInv(p)'
    <3>1. TodoInv(p)'
      BY <1>4, <2>1, <2>2, <2>3 DEF TodoInv, Daemonising
    <3>2. TableInv(p)'
      BY <1>2, <1>4, <2>1, <2>2 DEF IInv, ProcInv, TableInv, IsLock
    <3>3. DetachInv(p)'
      BY <1>1, <1>2, <1>4, <2>1, <2>2 DEF IInv, ProcInv, DetachInv, Role, FileLimit
    <3>4. QED
      BY <1>2, <2>1, <3>1, <3>2, <3>3 DEF ProcInv
  <2>6. OwnerKept
    BY <1>4, SameTablesKeepOwner
  <2>7. Contends(p)' /\ sees'[p] # "running" /\ pc'[p] # "close"
    BY <1>4, <2>1, <2>2, <2>3 DEF Contends
  <2>8. QED
    BY <1>2, <1>4, <2>1, <2>2, <2>4, <2>5, <2>6, <2>7, KeptKeeps
<1>5. QED
  BY <1>3, <1>4 DEF Chdir

-----------------------------------------------------------------------------
LEMMA InitIInv ==
  ASSUME Init
  PROVE  IInv
<1>1. TypeInv
  BY DEF Init, TypeInv, Steps, Empty
<1>2. \A p \in Procs : /\ pc[p] = "none" /\ sees[p] = "none" /\ leader[p] = FALSE /\ fds[p] = Empty
                       /\ ~ Alive(p) /\ ~ Active(p)
  BY DEF Init, Alive, Active
<1>3. ASSUME NEW p \in Procs
      PROVE  ProcInv(p)
  <2>1. pc[p] \in StepsOf(p[2])
    BY <1>2, Process DEF StepsOf, Steps, Daemonising, Roles
  <2>2. TodoInv(p)
    BY <1>2 DEF TodoInv, Daemonising
  <2>3. TableInv(p)
    BY <1>2 DEF TableInv, Empty
  <2>4. DetachInv(p)
    BY <1>2 DEF DetachInv
  <2>5. QED
    BY <2>1, <2>2, <2>3, <2>4 DEF ProcInv
<1>4. LineInv
  BY <1>2, LaunchProcesses DEF LineInv
<1>5. OwnerInv
  BY <1>2 DEF Init, OwnerInv
<1>6. RefusedInv /\ AloneInv
  BY <1>2 DEF Init, RefusedInv, AloneInv
<1>7. RaceInv /\ BelieverOwnsLock
  BY <1>2 DEF Init, RaceInv, BelieverOwnsLock, Believes
<1>8. QED
  BY <1>1, <1>3, <1>4, <1>5, <1>6, <1>7 DEF IInv

LEMMA StutterIInv ==
  ASSUME IInv, UNCHANGED vars
  PROVE  IInv'
<1>1. /\ prog' = prog /\ pc' = pc /\ todo' = todo /\ fds' = fds /\ sees' = sees
      /\ tmpfd' = tmpfd /\ leader' = leader /\ owner' = owner /\ mishaps' = mishaps
      /\ alone' = alone
  BY DEF vars
<1>2. TypeInv'
  BY <1>1 DEF IInv, TypeInv
<1>3. \A p \in Procs : /\ ProcInv(p)' /\ (Alive(p)' <=> Alive(p)) /\ (Active(p)' <=> Active(p))
                       /\ (Believes(p)' <=> Believes(p)) /\ (Contends(p)' <=> Contends(p))
  <2>1. Only({})
    BY <1>1 DEF Only
  <2>2. QED
    BY <1>1, <2>1, OthersKeep
<1>4. LineInv'
  BY <1>1 DEF IInv, LineInv
<1>5. OwnerInv'
  BY <1>1, <1>3 DEF IInv, OwnerInv, IsLock, Refers
<1>6. RefusedInv'
  BY <1>1 DEF IInv, RefusedInv
<1>7. AloneInv'
  BY <1>1 DEF IInv, AloneInv, Running, Alive
<1>8. RaceInv'
  BY <1>1, <1>3 DEF IInv, RaceInv
<1>9. LockIsKept => BelieverOwnsLock'
  BY <1>1, <1>3 DEF IInv, BelieverOwnsLock
<1>10. QED
  BY <1>2, <1>3, <1>4, <1>5, <1>6, <1>7, <1>8, <1>9 DEF IInv

LEMMA NextIInv ==
  ASSUME IInv, [Next]_vars
  PROVE  IInv'
<1>1. CASE UNCHANGED vars
  BY <1>1, StutterIInv
<1>2. ASSUME NEW l \in Launches, Start(l)
      PROVE  IInv'
  BY <1>2, StartKeeps
<1>3. ASSUME NEW p \in Procs, Step(p)
      PROVE  IInv'
  BY <1>3, OpenLockKeeps, FlockKeeps, CloseLockKeeps, ServeKeeps, Fork1Keeps, SetsidKeeps,
     Fork2Keeps, ParentExitKeeps, RedirectStdKeeps, CloseFilesKeeps, ChdirKeeps DEF Step
<1>4. ASSUME NEW p \in Procs, Kill(p)
      PROVE  IInv'
  BY <1>4, FailKeeps DEF Kill
<1>5. QED
  BY <1>1, <1>2, <1>3, <1>4 DEF Next

LEMMA Invariance ==
  Spec => []IInv
BY InitIInv, NextIInv, PTL DEF Spec

-----------------------------------------------------------------------------
(***************************************************************************)
(* Never two instances: program_is_running tells at most one live process  *)
(* that it is the first, for any number of launches, kills and failures,   *)
(* if every usage of the library keeps the lock.  Two believers of two     *)
(* launches would both refer to the one description that has the lock, and *)
(* a launch has only one process that goes on.                             *)
(***************************************************************************)
THEOREM OneInstance ==
  ASSUME LockIsKept
  PROVE  Spec => []SingleInstance
<1>1. IInv => SingleInstance
  <2> SUFFICES ASSUME IInv, NEW p \in Procs, NEW q \in Procs, Believes(p), Believes(q)
               PROVE  p = q
    BY DEF SingleInstance
  <2>1. /\ owner # NoFile
        /\ \E d \in Fds : fds[p][d] = owner
        /\ \E d \in Fds : fds[q][d] = owner
    BY DEF IInv, BelieverOwnsLock
  <2>2. owner \in FilesOf(p[1]) /\ owner \in FilesOf(q[1])
    BY <2>1 DEF IInv, ProcInv, TableInv
  <2>3. p[1] = q[1]
    BY <2>2, FilesAreApart, Process
  <2>4. Active(p) /\ Active(q)
    BY DEF Believes, Active
  <2>5. QED
    BY <2>3, <2>4, OneActive DEF Active, Alive
<1>2. QED
  BY <1>1, Invariance, PTL

(***************************************************************************)
(* The instance that runs has the lock it was given: of the calls of       *)
(* taskutil_task_to_daemon after program_is_running, none closes the       *)
(* descriptor, if every usage of the library keeps the lock.               *)
(***************************************************************************)
THEOREM InstanceOwnsLock ==
  ASSUME LockIsKept
  PROVE  Spec => []BelieverOwnsLock
<1>1. IInv => BelieverOwnsLock
  BY DEF IInv
<1>2. QED
  BY <1>1, Invariance, PTL

(***************************************************************************)
(* No stale lock, whatever the program: a launch that ran beside no other  *)
(* and met no failure is never told by program_is_running that the program *)
(* runs already.                                                           *)
(***************************************************************************)
THEOREM NoStaleLock ==
  Spec => []NeverRefusedAlone
<1>1. IInv => NeverRefusedAlone
  BY DEF IInv, RefusedInv, NeverRefusedAlone
<1>2. QED
  BY <1>1, Invariance, PTL

(***************************************************************************)
(* The race has a winner, whatever the program: without failures and kills *)
(* the launches are not all refused by one another.                        *)
(***************************************************************************)
THEOREM RaceHasWinner ==
  Spec => []OneServes
<1>1. IInv => OneServes
  <2> SUFFICES ASSUME IInv, Settled, mishaps = {}, \E p \in Procs : pc[p] = "gone"
               PROVE  \E p \in Procs : pc[p] = "serve"
    BY DEF OneServes
  <2>1. PICK p \in Procs : Contends(p)
    BY DEF IInv, RaceInv
  <2>2. pc[p] = "serve"
    BY <2>1 DEF Contends, Active, Alive, Settled
  <2>3. QED
    BY <2>2
<1>2. QED
  BY <1>1, Invariance, PTL

(***************************************************************************)
(* A daemon that serves after a launch without failures has let go of what *)
(* taskutil_task_to_daemon was asked to close, under any hard limit of     *)
(* descriptors, and leads no process group.                                *)
(***************************************************************************)
THEOREM DaemonLetsGo ==
  Spec => []DaemonDetached
<1>1. IInv => DaemonDetached
  BY DEF IInv, ProcInv, DetachInv, DaemonDetached, Alive
<1>2. QED
  BY <1>1, Invariance, PTL
=============================================================================
