------------------------------ MODULE Instance ------------------------------
(***************************************************************************)
(* program_is_running (fcp_base.c) and taskutil_task_to_daemon             *)
(* (fcp_proc.c): launches of one program race for an advisory lock on a    *)
(* file and turn into daemons.  The lock belongs to the open file          *)
(* description that program_is_running leaves open and never hands out: it *)
(* lives as long as some process keeps a descriptor of it, so forking,     *)
(* exiting, being killed and the daemon's closing of descriptors all       *)
(* decide who is the only instance.                                        *)
(*                                                                         *)
(* A library call is split where another process can see or change what it *)
(* works on: open, flock, close, each fork, each exit.  The loops over     *)
(* descriptors are one step, a descriptor table being visible to its own   *)
(* process only.  nochdir, nochildign and umask do not bear on the lock    *)
(* and appear as a step that may fail.                                     *)
(***************************************************************************)
EXTENDS Integers, Sequences, FiniteSets

CONSTANTS
  Launches,   \* the times the program is started
  Programs,   \* how the program uses the library, see below
  OpenMax,    \* descriptors a process may have, 0 .. OpenMax-1
  SweepMax    \* descriptors the daemon closes if the hard limit is infinite

(***************************************************************************)
(* A program calls the library as ops says, with the arguments nofileclose *)
(* and nostdclose, under a hard descriptor limit that is infinite or not,  *)
(* and is started with one of the sets of open descriptors in inherits.    *)
(***************************************************************************)
Uses == {<<"lock">>, <<"lock", "daemon">>, <<"daemon", "lock">>}
ProgramType ==
  [ops : Uses, nofileclose : BOOLEAN, nostdclose : BOOLEAN, unlimited : BOOLEAN,
   inherits : SUBSET SUBSET (0 .. OpenMax - 1)]

ASSUME ProgramAssumption == Programs \subseteq ProgramType
ASSUME LimitAssumption ==
  OpenMax \in Nat /\ SweepMax \in 3 .. OpenMax

Std == 0 .. 2

\* Locking before daemonising keeps the lock only if the descriptor stays open.
KeepsLock(g) ==
  g.ops = <<"lock", "daemon">> =>
    g.nofileclose /\ (g.nostdclose \/ \A inherited \in g.inherits : Std \subseteq inherited)

Fds == 0 .. OpenMax - 1
Roles == {"orig", "child", "daemon"}
Procs == Launches \X Roles

\* Open file descriptions: inherited ones, /dev/null, and one per lock attempt.
NoFile == <<>>
Inherited(l) == <<"inherited", <<l, "orig">>>>
Null(p) == <<"null", p>>
LockFile(p) == <<"lock", p>>
Files == {Inherited(l) : l \in Launches} \cup {Null(p) : p \in Procs} \cup {LockFile(p) : p \in Procs}

Steps == {"none", "main", "flock", "close", "setsid", "fork2", "std", "files",
          "chdir", "exit", "serve", "gone"}

VARIABLES
  prog,     \* the program
  pc,       \* per process: the step it is at
  todo,     \* per process: calls of the library still to make
  fds,      \* per process: descriptor table
  sees,     \* per process: "first" or "running" once program_is_running told
  tmpfd,    \* per process: the local variable fd of program_is_running
  leader,   \* per process: it leads a process group
  owner,    \* the open file description that holds the lock
  mishaps,  \* history: launches with a failed system call or a killed process
  alone     \* history: launches that never ran beside another one

vars == <<prog, pc, todo, fds, sees, tmpfd, leader, owner, mishaps, alone>>

Alive(p) == pc[p] \notin {"none", "gone"}
Running(l) == \E r \in Roles : Alive(<<l, r>>)

Empty == [d \in Fds |-> NoFile]

Init ==
  /\ prog \in Programs
  /\ pc = [p \in Procs |-> "none"]
  /\ todo = [p \in Procs |-> <<>>]
  /\ fds = [p \in Procs |-> Empty]
  /\ sees = [p \in Procs |-> "none"]
  /\ tmpfd = [p \in Procs |-> 0]
  /\ leader = [p \in Procs |-> FALSE]
  /\ owner = NoFile
  /\ mishaps = {}
  /\ alone = {}

-----------------------------------------------------------------------------
(***************************************************************************)
(* The kernel: descriptors, flock, fork and exit.                          *)
(***************************************************************************)
Free(table) == {d \in Fds : table[d] = NoFile}
Lowest(ds) == CHOOSE d \in ds : \A e \in ds : d <= e

Refers(t, f) == \E d \in Fds : t[d] = f

\* Process p has the table t from now on; a lock nobody refers to is released.
SetTable(p, t) ==
  /\ fds' = [fds EXCEPT ![p] = t]
  /\ owner' = IF Refers(t, owner) \/ \E q \in Procs \ {p} : Refers(fds[q], owner)
              THEN owner ELSE NoFile

Mishap(p) == mishaps' = mishaps \cup {p[1]}

\* exit, and the end of a process that is killed: all it had is gone.
Exit(p) ==
  /\ SetTable(p, Empty)
  /\ pc' = [pc EXCEPT ![p] = "gone"]
  /\ todo' = [todo EXCEPT ![p] = <<>>]
  /\ sees' = [sees EXCEPT ![p] = "none"]
  /\ tmpfd' = [tmpfd EXCEPT ![p] = 0]
  /\ leader' = [leader EXCEPT ![p] = FALSE]

Fail(p) == Exit(p) /\ Mishap(p) /\ UNCHANGED <<prog, alone>>

Kill(p) == Alive(p) /\ Fail(p)

\* The shell starts the program as the leader of a process group.
Start(l) ==
  LET p == <<l, "orig">> IN
  /\ pc[p] = "none"
  /\ \E inherited \in prog.inherits :
       fds' = [fds EXCEPT ![p] = [d \in Fds |-> IF d \in inherited THEN Inherited(l) ELSE NoFile]]
  /\ pc' = [pc EXCEPT ![p] = "main"]
  /\ todo' = [todo EXCEPT ![p] = prog.ops]
  /\ leader' = [leader EXCEPT ![p] = TRUE]
  /\ alone' = (alone \ {k \in Launches : Running(k)})
              \cup (IF \E k \in Launches : Running(k) THEN {} ELSE {l})
  /\ UNCHANGED <<prog, sees, tmpfd, owner, mishaps>>

\* A fork whose parent has nothing left to do but exit.
ForkAndExit(p, child, next) ==
  \/ /\ pc' = [pc EXCEPT ![p] = "exit", ![child] = next]
     /\ fds' = [fds EXCEPT ![child] = fds[p]]
     /\ todo' = [todo EXCEPT ![child] = todo[p]]
     /\ sees' = [sees EXCEPT ![child] = sees[p]]
     /\ leader' = [leader EXCEPT ![child] = FALSE]
     /\ UNCHANGED <<prog, tmpfd, owner, mishaps, alone>>
  \/ Fail(p)

-----------------------------------------------------------------------------
(***************************************************************************)
(* program_is_running.  The program exits if it is told that it runs       *)
(* already, and serves once it has made its calls.                         *)
(***************************************************************************)
Calls(p, op) ==
  pc[p] = "main" /\ sees[p] # "running" /\ todo[p] # <<>> /\ Head(todo[p]) = op

Answer(p, what) ==
  /\ sees' = [sees EXCEPT ![p] = what]
  /\ todo' = [todo EXCEPT ![p] = Tail(@)]
  /\ tmpfd' = [tmpfd EXCEPT ![p] = 0]
  /\ pc' = [pc EXCEPT ![p] = "main"]

\* Mutant: the file itself is the lock (O_EXCL), and it outlives its launch.
OpenLockExcl(p) ==
  /\ Calls(p, "lock")
  /\ IF \E q \in Procs : pc[q] = "gone" THEN Answer(p, "running") /\ UNCHANGED fds
     ELSE /\ fds' = [fds EXCEPT ![p][Lowest(Free(fds[p]))] = LockFile(p)]
          /\ tmpfd' = [tmpfd EXCEPT ![p] = Lowest(Free(fds[p]))]
          /\ pc' = [pc EXCEPT ![p] = "flock"]
          /\ UNCHANGED <<todo, sees>>
  /\ UNCHANGED <<prog, leader, owner, mishaps, alone>>

OpenLock(p) ==
  /\ Calls(p, "lock")
  /\ \/ /\ Free(fds[p]) # {}
        /\ LET fd == Lowest(Free(fds[p])) IN
             /\ fds' = [fds EXCEPT ![p][fd] = LockFile(p)]
             /\ tmpfd' = [tmpfd EXCEPT ![p] = fd]
        /\ pc' = [pc EXCEPT ![p] = "flock"]
        /\ UNCHANGED <<todo, sees, mishaps>>
     \/ Answer(p, "running") /\ Mishap(p) /\ UNCHANGED fds
  /\ UNCHANGED <<prog, leader, owner, alone>>

\* Mutant: LOCK_SH instead of LOCK_EX.
FlockShared(p) ==
  /\ pc[p] = "flock"
  /\ owner' = IF owner = NoFile THEN fds[p][tmpfd[p]] ELSE owner
  /\ Answer(p, "first")
  /\ UNCHANGED <<prog, fds, leader, mishaps, alone>>

\* Mutant: the test of flock's result is inverted.
FlockInverted(p) ==
  /\ pc[p] = "flock"
  /\ IF owner = NoFile
     THEN owner' = fds[p][tmpfd[p]] /\ pc' = [pc EXCEPT ![p] = "close"] /\ UNCHANGED <<todo, sees, tmpfd>>
     ELSE Answer(p, "first") /\ UNCHANGED owner
  /\ UNCHANGED <<prog, fds, leader, mishaps, alone>>

\* Mutant: flock without LOCK_NB.
FlockWaits(p) ==
  /\ pc[p] = "flock" /\ owner = NoFile
  /\ owner' = fds[p][tmpfd[p]]
  /\ Answer(p, "first")
  /\ UNCHANGED <<prog, fds, leader, mishaps, alone>>

Flock(p) ==
  /\ pc[p] = "flock"
  /\ \/ /\ owner = NoFile
        /\ owner' = fds[p][tmpfd[p]]
        /\ Answer(p, "first")
        /\ UNCHANGED mishaps
     \/ /\ pc' = [pc EXCEPT ![p] = "close"]
        /\ IF owner = NoFile THEN Mishap(p) ELSE UNCHANGED mishaps
        /\ UNCHANGED <<todo, sees, tmpfd, owner>>
  /\ UNCHANGED <<prog, fds, leader, alone>>

CloseLock(p) ==
  /\ pc[p] = "close"
  /\ SetTable(p, [fds[p] EXCEPT ![tmpfd[p]] = NoFile])
  /\ Answer(p, "running")
  /\ UNCHANGED <<prog, leader, mishaps, alone>>

Serve(p) ==
  /\ pc[p] = "main"
  /\ \/ sees[p] = "running" /\ Exit(p)
     \/ /\ sees[p] = "first" /\ todo[p] = <<>>
        /\ pc' = [pc EXCEPT ![p] = "serve"]
        /\ UNCHANGED <<todo, fds, sees, tmpfd, leader, owner>>
  /\ UNCHANGED <<prog, mishaps, alone>>

-----------------------------------------------------------------------------
(***************************************************************************)
(* taskutil_task_to_daemon.                                                *)
(***************************************************************************)
Role(p, r) == p[2] = r

Fork1(p) ==
  /\ Calls(p, "daemon") /\ Role(p, "orig")
  /\ ForkAndExit(p, <<p[1], "child">>, "setsid")

\* A process that leads a group cannot begin a session; one that begins a
\* session leads a group.
Setsid(p) ==
  /\ pc[p] = "setsid"
  /\ IF leader[p] THEN Fail(p)
     ELSE /\ leader' = [leader EXCEPT ![p] = TRUE]
          /\ pc' = [pc EXCEPT ![p] = "fork2"]
          /\ UNCHANGED <<prog, todo, fds, sees, tmpfd, owner, mishaps, alone>>

Fork2(p) ==
  /\ pc[p] = "fork2"
  /\ ForkAndExit(p, <<p[1], "daemon">>, "std")

ParentExit(p) ==
  /\ pc[p] = "exit"
  /\ Exit(p)
  /\ UNCHANGED <<prog, mishaps, alone>>

\* /dev/null opened as tmp and copied to the standard descriptors.
NullTable(t, p, tmp) ==
  [d \in Fds |-> IF d \in Std THEN Null(p) ELSE IF d = tmp THEN NoFile ELSE t[d]]

RedirectStd(p) ==
  /\ pc[p] = "std"
  /\ \/ /\ prog.nostdclose
        /\ UNCHANGED <<fds, owner, mishaps>>
     \/ /\ ~prog.nostdclose /\ Free(fds[p]) # {}
        /\ SetTable(p, NullTable(fds[p], p, Lowest(Free(fds[p]))))
        /\ UNCHANGED mishaps
     \/ \* open fails, every dup2 of -1 fails, nothing is reported
        /\ ~prog.nostdclose
        /\ Mishap(p)
        /\ UNCHANGED <<fds, owner>>
  /\ pc' = [pc EXCEPT ![p] = "files"]
  /\ UNCHANGED <<prog, todo, sees, tmpfd, leader, alone>>

FileLimit == IF prog.unlimited THEN SweepMax ELSE OpenMax

\* Mutant: the first descriptor after the standard ones is missed.
SweptLate == 4 .. FileLimit - 1

Swept == 3 .. FileLimit - 1

\* Mutant: nofileclose is not looked at.
CloseFilesAlways(p) ==
  /\ pc[p] = "files"
  /\ pc' = [pc EXCEPT ![p] = "chdir"]
  /\ SetTable(p, [d \in Fds |-> IF d \in Swept THEN NoFile ELSE fds[p][d]])
  /\ UNCHANGED <<prog, todo, sees, tmpfd, leader, mishaps, alone>>

CloseFiles(p) ==
  /\ pc[p] = "files"
  /\ \/ /\ pc' = [pc EXCEPT ![p] = "chdir"]
        /\ IF prog.nofileclose THEN UNCHANGED <<fds, owner>>
           ELSE SetTable(p, [d \in Fds |-> IF d \in Swept THEN NoFile ELSE fds[p][d]])
        /\ UNCHANGED <<prog, todo, sees, tmpfd, leader, mishaps, alone>>
     \/ ~prog.nofileclose /\ Fail(p)   \* getrlimit

Chdir(p) ==
  /\ pc[p] = "chdir"
  /\ \/ /\ pc' = [pc EXCEPT ![p] = "main"]
        /\ todo' = [todo EXCEPT ![p] = Tail(@)]
        /\ UNCHANGED <<prog, fds, sees, tmpfd, leader, owner, mishaps, alone>>
     \/ Fail(p)

-----------------------------------------------------------------------------
Step(p) ==
  \/ OpenLock(p) \/ Flock(p) \/ CloseLock(p) \/ Serve(p)
  \/ Fork1(p) \/ Setsid(p) \/ Fork2(p) \/ ParentExit(p)
  \/ RedirectStd(p) \/ CloseFiles(p) \/ Chdir(p)

Next ==
  \/ \E l \in Launches : Start(l)
  \/ \E p \in Procs : Step(p) \/ Kill(p)

Spec == Init /\ [][Next]_vars

(***************************************************************************)
(* As long as a process can run, some process does; nothing forces a start *)
(* or a kill, and no process is preferred.                                 *)
(***************************************************************************)
FairSpec == Spec /\ WF_vars(\E p \in Procs : Step(p))

-----------------------------------------------------------------------------
\* A live process that takes itself for the only instance: a forking parent
\* that only has to exit no longer counts.
Believes(p) == Alive(p) /\ pc[p] # "exit" /\ sees[p] = "first"

(***************************************************************************)
(* Two processes never both take themselves for the only instance, however *)
(* the launches interleave, fork, fail and are killed: program_is_running  *)
(* returned 0 to at most one that is alive.  KeepsLock says which programs *)
(* this holds for.                                                         *)
(***************************************************************************)
SingleInstance == \A p, q \in Procs : Believes(p) /\ Believes(q) => p = q

(***************************************************************************)
(* The instance that serves still has the lock it was given, on the one    *)
(* descriptor that program_is_running left open: neither the two forks nor *)
(* the closing of descriptors in between released it.                      *)
(***************************************************************************)
BelieverOwnsLock ==
  \A p \in Procs : Believes(p) => owner # NoFile /\ \E d \in Fds : fds[p][d] = owner

(***************************************************************************)
(* No stale lock: a launch that ran beside no other and met no failure is  *)
(* never told that the program runs already, whatever earlier launches     *)
(* left behind when they ended or were killed.                             *)
(***************************************************************************)
NeverRefusedAlone ==
  \A p \in Procs : sees[p] = "running" => p[1] \in mishaps \/ p[1] \notin alone

\* Every process that was started serves or is gone.
Settled == \A p \in Procs : pc[p] \in {"none", "serve", "gone"}

(***************************************************************************)
(* The race has a winner: without failures and kills the launches cannot   *)
(* all be refused by one another.                                          *)
(***************************************************************************)
OneServes ==
  Settled /\ mishaps = {} /\ (\E p \in Procs : pc[p] = "gone")
    => \E p \in Procs : pc[p] = "serve"

(***************************************************************************)
(* What a daemon has to have let go of when it serves: the standard        *)
(* descriptors are /dev/null and, unless nofileclose asks for it, nothing  *)
(* it inherited is left below the limit; it leads no process group, so it  *)
(* cannot acquire a terminal.  Launches with a failure are excepted, as    *)
(* RedirectStd says nothing about an open that failed.                     *)
(***************************************************************************)
DaemonDetached ==
  \A p \in Procs : pc[p] = "serve" /\ Role(p, "daemon") /\ p[1] \notin mishaps =>
    /\ ~leader[p]
    /\ ~prog.nostdclose => \A d \in Std : fds[p][d] = Null(p)
    /\ ~prog.nofileclose =>
         \A d \in Fds \ Std : d < FileLimit => fds[p][d] \in {NoFile, LockFile(p)}

(***************************************************************************)
(* LOCK_NB: a launch never waits for another one, it ends up serving or    *)
(* gone although the one that has the lock goes on, and that is the end.   *)
(***************************************************************************)
LaunchSettles == <>[]Settled
=============================================================================
