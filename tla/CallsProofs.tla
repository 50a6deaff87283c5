---------------------------- MODULE CallsProofs -----------------------------
(***************************************************************************)
(* Proofs about Calls, for any number of threads and descriptors.          *)
(***************************************************************************)
EXTENDS Calls, FiniteSetTheorems, NaturalsInduction, WellFoundedInduction,
        SequenceTheorems, TLAPS

Accept == "netutil_socket_accept"

Functions ==
  {"taskutil_elf_type", "taskutil_current_session", "process_max_number",
   "taskutil_task_proc_stat", "process_cmdline", "process_cpu_mtime",
   "os_info_boot_time", "os_info_last_shutdow_time", "os_info_running_tty",
   "os_info_machine_id", "os_info", "general_os_version_con",
   "fcp_set_pingv4_state", "fcp_is_allow_pingv4", "file_execute_type",
   "gen_file_md5", "fileutil_open_on_closeexec",
   "netutil_socket_block_connect", "netutil_socket_nonblock_connect", Accept}

Qualities == Options \cup {"connected", "listening"}

\* Where a call works with one descriptor, and where with two.
OneAt == {"open", "nonblock", "bound", "listening", "told"}
TwoAt == {"file", "accepted"}
First(t) == call[t].own[1]
Second(t) == call[t].own[2]

CallType ==
  {Idle}
  \cup [fn : Functions, at : OneAt, own : {<<n>> : n \in Numbers}]
  \cup [fn : Functions, at : TwoAt, own : {<<n, m>> : n, m \in Numbers}]

(***************************************************************************)
(* The parts of the inductive invariant.                                   *)
(***************************************************************************)
TypeInv ==
  /\ fds \in [Numbers -> [by : Functions \cup {"none", "program"}, is : SUBSET Qualities]]
  /\ Held \subseteq Numbers
  /\ \A n \in Held : held[n] \subseteq Qualities
  /\ call \in [Threads -> CallType]
  /\ crashed \in BOOLEAN

\* How far a call is says what function it is in; its two descriptors differ.
StageInv(t) ==
  /\ call[t].at \in {"bound", "listening", "accepted", "told"} => call[t].fn = Accept
  /\ call[t].at = "nonblock" => call[t].fn = "netutil_socket_nonblock_connect"
  /\ call[t].at = "file" => call[t].fn = "process_cpu_mtime"
  /\ call[t].at \in TwoAt => First(t) # Second(t)

\* Only netutil_socket_accept works with a descriptor it has not opened: the
\* listening socket of the program it was given.
OwnInv(t) ==
  \A n \in InUse(t) :
    \/ fds[n].by = call[t].fn
    \/ n \in Held /\ n = First(t) /\ call[t].at \in {"listening", "accepted", "told"}

\* A call has done what it is about to promise, and a connection is all that
\* an accept can lose.
ReadyInv(t) ==
  /\ call[t].at = "nonblock" => "nonblock" \in fds[First(t)].is
  /\ call[t].at \in {"listening", "accepted", "told"} => "listening" \in fds[First(t)].is
  /\ call[t].at = "accepted" => fds[Second(t)].is = {"connected"}

CallInv == \A t \in Threads : StageInv(t) /\ OwnInv(t) /\ ReadyInv(t)

\* What the program has is known by name.
HeldInv == \A n \in Numbers : fds[n].by = "program" <=> n \in Held

Apart == \A t, u \in Threads : t # u => InUse(t) \cap InUse(u) \subseteq Held

IInv == TypeInv /\ CallInv /\ HeldInv /\ Apart /\ OnlyKnownLeaks /\ AsPromised

-----------------------------------------------------------------------------
(***************************************************************************)
(* Sequences of one and of two descriptors, and the lowest free number.    *)
(***************************************************************************)
LEMMA SequenceOfNone == ToSet(<<>>) = {}
BY DEF ToSet

LEMMA SequenceOfOne ==
  ASSUME NEW n, NEW m
  PROVE  ToSet(<<n>>) = {n} /\ Append(<<n>>, m) = <<n, m>>
<1> DEFINE s == <<n>>
           p == <<n, m>>
<1>1. s \in Seq({n, m}) /\ DOMAIN s = {1} /\ s[1] = n /\ Len(s) = 1
  OBVIOUS
<1>2. p \in Seq({n, m}) /\ p[1] = n /\ p[2] = m /\ Len(p) = 2
  OBVIOUS
<1> HIDE DEF s, p
<1>3. ToSet(s) = {n}
  BY <1>1 DEF ToSet
<1>4. /\ Append(s, m) \in Seq({n, m}) /\ Len(Append(s, m)) = 2
      /\ Append(s, m)[1] = n /\ Append(s, m)[2] = m
  <2> DEFINE S == {n, m}
  <2>1. s \in Seq(S) /\ m \in S
    BY <1>1
  <2> HIDE DEF S
  <2>2. /\ Append(s, m) \in Seq(S) /\ Len(Append(s, m)) = Len(s) + 1
        /\ \A i \in 1 .. Len(s) : Append(s, m)[i] = s[i]
        /\ Append(s, m)[Len(s) + 1] = m
    BY <2>1, AppendProperties
  <2>3. QED
    BY <1>1, <2>2 DEF S
<1>5. Append(s, m) = p
  BY <1>2, <1>4, SeqEqual
<1>6. QED
  BY <1>3, <1>5 DEF s, p

LEMMA SequenceOfTwo ==
  ASSUME NEW n, NEW m
  PROVE  /\ ToSet(<<n, m>>) = {n, m}
         /\ Front(<<n, m>>) = <<n>>
         /\ Last(<<n, m>>) = m
<1> DEFINE p == <<n, m>>
           s == <<n>>
<1>1. s \in Seq({n, m}) /\ s[1] = n /\ Len(s) = 1
  OBVIOUS
<1>2. /\ p \in Seq({n, m}) /\ DOMAIN p = {1, 2} /\ Len(p) = 2
      /\ p[1] = n /\ p[2] = m
  OBVIOUS
<1> HIDE DEF s, p
<1>3. ToSet(p) = {n, m} /\ Last(p) = m
  BY <1>2 DEF ToSet, Last
<1>4. Front(p) \in Seq({n, m}) /\ Len(Front(p)) = 1 /\ Front(p)[1] = n
  BY <1>2, SubSeqProperties DEF Front
<1>5. Front(p) = s
  BY <1>1, <1>4, SeqEqual
<1>6. QED
  BY <1>3, <1>5 DEF s, p

LEMMA MinInSet ==
  ASSUME NEW S \in SUBSET Nat, S # {}
  PROVE  Min(S) \in S /\ \A n \in S : Min(S) <= n
<1>1. PICK m \in S : \A n \in S : ~ (<<n, m>> \in OpToRel(<, Nat))
  BY NatLessThanWellFounded, WFMin
<1>2. ASSUME NEW n \in S
      PROVE  m <= n
  <2> DEFINE pair == <<n, m>>
  <2>1. pair \in Nat \X Nat /\ pair[1] = n /\ pair[2] = m
    OBVIOUS
  <2> HIDE DEF pair
  <2>2. pair \notin OpToRel(<, Nat)
    BY <1>1 DEF pair
  <2>3. QED
    BY <2>1, <2>2 DEF OpToRel
<1>3. QED
  BY <1>2 DEF Min

LEMMA LowestIsFree ==
  ASSUME Free # {}
  PROVE  /\ Lowest \in Numbers /\ fds[Lowest] = Closed
         /\ \A n \in Free : Lowest <= n
BY MinInSet, LimitAssumption DEF Lowest, Free, Numbers

LEMMA NoFunctions == "none" \notin Functions /\ "program" \notin Functions
BY DEF Functions, Accept

-----------------------------------------------------------------------------
(***************************************************************************)
(* What a call works with, and how a step of one thread changes that.      *)
(***************************************************************************)
LEMMA Using ==
  ASSUME TypeInv, NEW t \in Threads
  PROVE  /\ call[t].at \in {"none"} \cup OneAt \cup TwoAt
         /\ call[t].at = "none" => call[t] = Idle /\ InUse(t) = {}
         /\ call[t].at # "none" => call[t].fn \in Functions
         /\ call[t].at \in OneAt =>
              call[t].own = <<First(t)>> /\ InUse(t) = {First(t)} /\ First(t) \in Numbers
         /\ call[t].at \in TwoAt =>
              /\ call[t].own = <<First(t), Second(t)>>
              /\ InUse(t) = {First(t), Second(t)}
              /\ First(t) \in Numbers /\ Second(t) \in Numbers
<1>1. call[t] \in CallType
  BY DEF TypeInv
<1>2. CASE call[t] = Idle
  BY <1>2, SequenceOfNone DEF Idle, InUse, OneAt, TwoAt
<1>3. CASE call[t] \in [fn : Functions, at : OneAt, own : {<<n>> : n \in Numbers}]
  <2>1. PICK n \in Numbers : call[t].own = <<n>>
    BY <1>3
  <2>2. First(t) = n
    BY <2>1 DEF First
  <2>3. QED
    BY <1>3, <2>1, <2>2, SequenceOfOne DEF InUse, OneAt, TwoAt
<1>4. CASE call[t] \in [fn : Functions, at : TwoAt, own : {<<n, m>> : n, m \in Numbers}]
  <2>1. PICK n \in Numbers, m \in Numbers : call[t].own = <<n, m>>
    BY <1>4
  <2>2. First(t) = n /\ Second(t) = m
    BY <2>1 DEF First, Second
  <2>3. QED
    BY <1>4, <2>1, <2>2, SequenceOfTwo DEF InUse, OneAt, TwoAt
<1>5. QED
  BY <1>1, <1>2, <1>3, <1>4 DEF CallType

\* Thread t is where c says; the others are where they were.
Becomes(t, c) ==
  /\ call'[t] = c
  /\ InUse(t)' = ToSet(c.own)
  /\ First(t)' = c.own[1]
  /\ Second(t)' = c.own[2]
  /\ \A u \in Threads \ {t} :
       /\ call'[u] = call[u]
       /\ InUse(u)' = InUse(u) /\ First(u)' = First(u) /\ Second(u)' = Second(u)

LEMMA CallBecomes ==
  ASSUME TypeInv, NEW t \in Threads, NEW c \in CallType, call' = [call EXCEPT ![t] = c]
  PROVE  call' \in [Threads -> CallType] /\ Becomes(t, c)
<1>1. call' \in [Threads -> CallType] /\ call'[t] = c /\ \A u \in Threads \ {t} : call'[u] = call[u]
  BY DEF TypeInv
<1>2. QED
  BY <1>1 DEF Becomes, InUse, First, Second

LEMMA ReturnsBecomes ==
  ASSUME TypeInv, NEW t \in Threads, Returns(t)
  PROVE  call' \in [Threads -> CallType] /\ Becomes(t, Idle) /\ InUse(t)' = {}
<1>1. Idle \in CallType /\ Idle.own = <<>>
  BY DEF CallType, Idle
<1>2. QED
  BY <1>1, CallBecomes, SequenceOfNone DEF Returns, Becomes

LEMMA GoesWithOne ==
  ASSUME TypeInv, NEW t \in Threads, NEW fn \in Functions, NEW at \in OneAt,
         NEW n \in Numbers, Goes(t, fn, at, <<n>>)
  PROVE  /\ call' \in [Threads -> CallType]
         /\ call'[t].fn = fn /\ call'[t].at = at
         /\ InUse(t)' = {n} /\ First(t)' = n
         /\ Becomes(t, [fn |-> fn, at |-> at, own |-> <<n>>])
<1> DEFINE c == [fn |-> fn, at |-> at, own |-> <<n>>]
<1>1. c \in CallType /\ c.own = <<n>> /\ c.fn = fn /\ c.at = at
  BY DEF CallType
<1>2. call' = [call EXCEPT ![t] = c]
  BY DEF Goes
<1> HIDE DEF c
<1>3. call' \in [Threads -> CallType] /\ Becomes(t, c)
  BY <1>1, <1>2, CallBecomes
<1>4. InUse(t)' = {n} /\ First(t)' = n /\ call'[t] = c
  BY <1>1, <1>3, SequenceOfOne DEF Becomes
<1>5. QED
  BY <1>1, <1>3, <1>4 DEF c

LEMMA GoesWithTwo ==
  ASSUME TypeInv, NEW t \in Threads, NEW fn \in Functions, NEW at \in TwoAt,
         NEW n \in Numbers, NEW m \in Numbers, Goes(t, fn, at, <<n, m>>)
  PROVE  /\ call' \in [Threads -> CallType]
         /\ call'[t].fn = fn /\ call'[t].at = at
         /\ InUse(t)' = {n, m} /\ First(t)' = n /\ Second(t)' = m
         /\ Becomes(t, [fn |-> fn, at |-> at, own |-> <<n, m>>])
<1> DEFINE c == [fn |-> fn, at |-> at, own |-> <<n, m>>]
<1>1. c \in CallType /\ c.own = <<n, m>> /\ c.fn = fn /\ c.at = at
  BY DEF CallType
<1>2. call' = [call EXCEPT ![t] = c]
  BY DEF Goes
<1> HIDE DEF c
<1>3. call' \in [Threads -> CallType] /\ Becomes(t, c)
  BY <1>1, <1>2, CallBecomes
<1>4. InUse(t)' = {n, m} /\ First(t)' = n /\ Second(t)' = m /\ call'[t] = c
  BY <1>1, <1>3, SequenceOfTwo DEF Becomes
<1>5. QED
  BY <1>1, <1>3, <1>4 DEF c

-----------------------------------------------------------------------------
(***************************************************************************)
(* Each kind of step keeps the invariant.                                  *)
(***************************************************************************)

\* A descriptor is taken by function fn.
LEMMA TakesLowest ==
  ASSUME TypeInv, NEW fn \in Functions, NEW is \in SUBSET Qualities, Takes(fn, is)
  PROVE  /\ Lowest \in Numbers /\ fds[Lowest] = Closed
         /\ \A n \in Free : Lowest <= n
         /\ fds' \in [Numbers -> [by : Functions \cup {"none", "program"}, is : SUBSET Qualities]]
         /\ fds'[Lowest] = [by |-> fn, is |-> is]
         /\ \A n \in Numbers \ {Lowest} : fds'[n] = fds[n]
BY LowestIsFree DEF Takes, TypeInv

\* A closed descriptor is nobody's.
LEMMA ClosedIsNobodys ==
  ASSUME IInv, NEW n \in Numbers, fds[n] = Closed
  PROVE  n \notin Held /\ \A t \in Threads : n \notin InUse(t)
<1>1. fds[n].by = "none"
  BY DEF Closed
<1>2. n \notin Held
  BY <1>1 DEF IInv, HeldInv
<1>3. ASSUME NEW t \in Threads, n \in InUse(t)
      PROVE  FALSE
  BY <1>1, <1>2, <1>3, Using, NoFunctions DEF IInv, CallInv, OwnInv
<1>4. QED
  BY <1>2, <1>3

\* A step of thread t leaves alone what the others work with.
Spares(t) ==
  \A u \in Threads \ {t} : \A n \in InUse(u) :
    /\ fds'[n].by = fds[n].by /\ fds[n].is \subseteq fds'[n].is
    /\ n \in Held => n \in Held'
    /\ n \notin Held => fds'[n] = fds[n]

\* What t works with after the step it worked with before, or it is new.
Fresh(t) ==
  \A n \in InUse(t)' : n \in InUse(t) \cup Held \/ \A u \in Threads \ {t} : n \notin InUse(u)

LEMMA OthersKeep ==
  ASSUME IInv, NEW t \in Threads, NEW c, Becomes(t, c), Spares(t), Fresh(t),
         StageInv(t)', OwnInv(t)', ReadyInv(t)'
  PROVE  CallInv' /\ Apart'
<1>1. ASSUME NEW u \in Threads \ {t}
      PROVE  StageInv(u)' /\ OwnInv(u)' /\ ReadyInv(u)'
  <2>1. /\ call'[u] = call[u]
        /\ InUse(u)' = InUse(u) /\ First(u)' = First(u) /\ Second(u)' = Second(u)
    BY <1>1 DEF Becomes
  <2>2. StageInv(u) /\ OwnInv(u) /\ ReadyInv(u)
    BY DEF IInv, CallInv
  <2>3. StageInv(u)'
    BY <2>1, <2>2 DEF StageInv
  <2>4. OwnInv(u)'
    BY <2>1, <2>2 DEF OwnInv, Spares
  <2>5. call[u].at = "accepted" => Second(u) \notin Held
    BY <2>2, Using DEF IInv, OwnInv, StageInv, HeldInv, TwoAt, Accept, Functions
  <2>6. ReadyInv(u)'
    BY <2>1, <2>2, <2>5, Using DEF ReadyInv, Spares, IInv, OneAt, TwoAt
  <2>7. QED
    BY <2>3, <2>4, <2>6
<1>2. ASSUME NEW u \in Threads, NEW v \in Threads, u # v, NEW n \in InUse(u)' \cap InUse(v)'
      PROVE  n \in Held'
  <2>1. CASE u # t /\ v # t
    BY <1>2, <2>1 DEF Becomes, IInv, Apart, Spares
  <2>2. CASE u = t
    BY <1>2, <2>2 DEF Becomes, IInv, Apart, Spares, Fresh
  <2>3. CASE v = t
    BY <1>2, <2>3 DEF Becomes, IInv, Apart, Spares, Fresh
  <2>4. QED
    BY <2>1, <2>2, <2>3
<1>3. QED
  BY <1>1, <1>2 DEF CallInv, Apart

\* Nothing is lost that was not, except what is known to be.
LEMMA LeaksKeep ==
  ASSUME OnlyKnownLeaks,
         \A n \in Lost' : \/ n \in Lost /\ fds'[n] = fds[n]
                          \/ fds'[n].by = Accept /\ fds'[n].is = {"connected"}
  PROVE  OnlyKnownLeaks'
BY DEF OnlyKnownLeaks, Accept

\* One more descriptor for a call that goes on.
LEMMA TakingKeeps ==
  ASSUME IInv, NEW t \in Threads, NEW c, NEW fn \in Functions, NEW is \in SUBSET Qualities,
         fn = "fileutil_open_on_closeexec" => "cloexec" \in is,
         Takes(fn, is), UNCHANGED <<held, crashed>>, ~ crashed,
         Becomes(t, c), call' \in [Threads -> CallType],
         InUse(t)' = InUse(t) \cup {Lowest},
         StageInv(t)', OwnInv(t)', ReadyInv(t)'
  PROVE  IInv'
<1> DEFINE low == Lowest
<1>1. TypeInv
  BY DEF IInv
<1>2. /\ low \in Numbers /\ fds[low] = Closed
      /\ fds' \in [Numbers -> [by : Functions \cup {"none", "program"}, is : SUBSET Qualities]]
      /\ fds'[low] = [by |-> fn, is |-> is]
      /\ \A n \in Numbers \ {low} : fds'[n] = fds[n]
  BY <1>1, TakesLowest
<1>3. low \notin Held /\ \A u \in Threads : low \notin InUse(u)
  BY <1>2, ClosedIsNobodys
<1>4. Held' = Held
  BY DEF Held
<1>5. InUse(t)' = InUse(t) \cup {low}
  OBVIOUS
<1> HIDE DEF low
<1>6. TypeInv'
  BY <1>1, <1>2, <1>4 DEF TypeInv
<1>7. CallInv' /\ Apart'
  <2>1. Spares(t)
    BY <1>1, <1>2, <1>3, <1>4, Using DEF Spares
  <2>2. Fresh(t)
    BY <1>3, <1>5 DEF Fresh
  <2>3. QED
    BY <2>1, <2>2, OthersKeep
<1>8. HeldInv'
  BY <1>2, <1>3, <1>4, NoFunctions DEF IInv, HeldInv
<1>9. OnlyKnownLeaks'
  <2>1. \A n \in Lost' : n \in Lost /\ fds'[n] = fds[n]
    BY <1>2, <1>4, <1>5 DEF Lost, Becomes
  <2>2. QED
    BY <2>1, LeaksKeep DEF IInv
<1>10. AsPromised'
  BY <1>1, <1>2, <1>3, <1>4 DEF IInv, AsPromised, TypeInv
<1>11. QED
  BY <1>6, <1>7, <1>8, <1>9, <1>10 DEF IInv

LEMMA OpensKeeps ==
  ASSUME IInv, NEW t \in Threads, NEW fn \in Functions, NEW is \in SUBSET Qualities,
         fn = "fileutil_open_on_closeexec" => "cloexec" \in is,
         Opens(t, fn, is)
  PROVE  IInv'
<1> DEFINE low == Lowest
<1>1. TypeInv
  BY DEF IInv
<1>2. low \in Numbers /\ fds'[low] = [by |-> fn, is |-> is]
  BY <1>1, TakesLowest DEF Opens
<1>3. InUse(t) = {} /\ ~ crashed
  BY <1>1, Using DEF Opens, Enters, Idle
<1>4. /\ call' \in [Threads -> CallType]
      /\ call'[t].fn = fn /\ call'[t].at = "open"
      /\ InUse(t)' = {low} /\ First(t)' = low
      /\ Becomes(t, [fn |-> fn, at |-> "open", own |-> <<low>>])
  BY <1>1, <1>2, GoesWithOne DEF Opens, OneAt
<1> HIDE DEF low
<1>5. StageInv(t)' /\ OwnInv(t)' /\ ReadyInv(t)'
  BY <1>2, <1>4 DEF StageInv, OwnInv, ReadyInv, TwoAt
<1>6. QED
  BY <1>3, <1>4, <1>5, TakingKeeps DEF Opens, low

\* A descriptor that is closed on no path, of a function known to lose it.
LEMMA LosesKeeps ==
  ASSUME IInv, NEW t \in Threads, NEW fn \in Functions, Loses(t, fn),
         \/ fn \in {"file_execute_type", "os_info"}
         \/ fn \in {"gen_file_md5", Accept} /\ 0 \in Free
  PROVE  IInv'
<1> DEFINE low == Lowest
<1>1. TypeInv
  BY DEF IInv
<1>2. /\ low \in Numbers /\ fds[low] = Closed
      /\ fds' \in [Numbers -> [by : Functions \cup {"none", "program"}, is : SUBSET Qualities]]
      /\ fds'[low] = [by |-> fn, is |-> {}]
      /\ \A n \in Numbers \ {low} : fds'[n] = fds[n]
      /\ \A n \in Free : low <= n
  BY <1>1, TakesLowest DEF Loses
<1>3. low \notin Held /\ \A u \in Threads : low \notin InUse(u)
  BY <1>2, ClosedIsNobodys
<1>4. 0 \in Free => low = 0
  BY <1>2, LimitAssumption DEF Numbers
<1>5. /\ Held' = Held /\ UNCHANGED <<call, held, crashed>> /\ ~ crashed
      /\ \A u \in Threads : /\ InUse(u)' = InUse(u)
                            /\ First(u)' = First(u) /\ Second(u)' = Second(u)
  BY DEF Loses, Enters, Held, InUse, First, Second
<1> HIDE DEF low
<1>6. TypeInv'
  BY <1>1, <1>2, <1>5 DEF TypeInv
<1>7. CallInv'
  <2> SUFFICES ASSUME NEW u \in Threads
               PROVE  StageInv(u)' /\ OwnInv(u)' /\ ReadyInv(u)'
    BY DEF CallInv
  <2>1. StageInv(u) /\ OwnInv(u) /\ ReadyInv(u)
    BY DEF IInv, CallInv
  <2>2. \A n \in InUse(u) : fds'[n] = fds[n]
    BY <1>1, <1>2, <1>3, Using
  <2>3. StageInv(u)' /\ OwnInv(u)'
    BY <1>5, <2>1, <2>2 DEF StageInv, OwnInv
  <2>4. ReadyInv(u)'
    BY <1>1, <1>5, <2>1, <2>2, Using DEF ReadyInv, OneAt, TwoAt
  <2>5. QED
    BY <2>3, <2>4
<1>8. HeldInv' /\ Apart'
  BY <1>2, <1>3, <1>5, NoFunctions DEF IInv, HeldInv, Apart
<1>9. OnlyKnownLeaks'
  <2>1. \A n \in Lost' \ {low} : n \in Lost /\ fds'[n] = fds[n]
    BY <1>2, <1>5 DEF Lost
  <2>2. QED
    BY <1>2, <1>4, <2>1 DEF IInv, OnlyKnownLeaks, Accept
<1>10. AsPromised'
  BY <1>1, <1>2, <1>3, <1>5 DEF IInv, AsPromised, TypeInv, Accept
<1>11. QED
  BY <1>6, <1>7, <1>8, <1>9, <1>10 DEF IInv

\* A call closes some of what it works with, none of it a descriptor of the
\* program, and goes on or is over.
LEMMA ShutsKeeps ==
  ASSUME IInv, NEW t \in Threads, NEW c, NEW ns \in SUBSET InUse(t),
         Shut(ns), ns \cap Held = {}, UNCHANGED <<held, crashed>>, ~ crashed,
         Becomes(t, c), call' \in [Threads -> CallType],
         InUse(t)' = InUse(t) \ ns,
         StageInv(t)', OwnInv(t)', ReadyInv(t)'
  PROVE  IInv'
<1>1. TypeInv
  BY DEF IInv
<1>2. /\ fds' \in [Numbers -> [by : Functions \cup {"none", "program"}, is : SUBSET Qualities]]
      /\ \A n \in Numbers : fds'[n] = IF n \in ns THEN Closed ELSE fds[n]
  BY <1>1 DEF Shut, TypeInv, Closed
<1>3. Held' = Held
  BY DEF Held
<1>4. TypeInv'
  BY <1>1, <1>2, <1>3 DEF TypeInv
<1>5. CallInv' /\ Apart'
  <2>1. Spares(t)
    BY <1>1, <1>2, <1>3, Using DEF Spares, IInv, Apart
  <2>2. Fresh(t)
    BY DEF Fresh
  <2>3. QED
    BY <2>1, <2>2, OthersKeep
<1>6. HeldInv'
  BY <1>2, <1>3 DEF IInv, HeldInv, Closed
<1>7. OnlyKnownLeaks'
  <2>1. \A n \in Lost' : n \in Lost /\ fds'[n] = fds[n]
    BY <1>2, <1>3 DEF Lost, Becomes
  <2>2. QED
    BY <2>1, LeaksKeep DEF IInv
<1>8. AsPromised'
  BY <1>1, <1>2, <1>3 DEF IInv, AsPromised, TypeInv, Closed
<1>9. QED
  BY <1>4, <1>5, <1>6, <1>7, <1>8 DEF IInv

\* What a call has opened is its own until it gives it to the program.
LEMMA NotYetHeld ==
  ASSUME IInv, NEW t \in Threads, NEW n \in InUse(t),
         \/ call[t].at \notin {"listening", "accepted", "told"}
         \/ call[t].at = "accepted" /\ n = Second(t)
  PROVE  n \in Numbers /\ n \notin Held /\ fds[n].by = call[t].fn
<1>1. TypeInv /\ StageInv(t) /\ OwnInv(t)
  BY DEF IInv, CallInv
<1>2. n \in Numbers /\ call[t].fn \in Functions
  BY <1>1, Using
<1>3. fds[n].by = call[t].fn
  BY <1>1 DEF OwnInv, StageInv, TwoAt
<1>4. QED
  BY <1>2, <1>3, NoFunctions DEF IInv, HeldInv

LEMMA ClosesKeeps ==
  ASSUME IInv, NEW t \in Threads, NEW fn \in Functions, Closes(t, fn),
         call[t].at \notin {"listening", "accepted", "told"}
  PROVE  IInv'
<1>1. TypeInv
  BY DEF IInv
<1>2. InUse(t) \cap Held = {}
  BY NotYetHeld
<1>3. Shut(InUse(t)) /\ UNCHANGED <<held, crashed>> /\ ~ crashed
  BY DEF Closes, InUse
<1>4. call' \in [Threads -> CallType] /\ Becomes(t, Idle) /\ InUse(t)' = {}
  BY <1>1, ReturnsBecomes DEF Closes
<1>5. StageInv(t)' /\ OwnInv(t)' /\ ReadyInv(t)'
  BY <1>4 DEF StageInv, OwnInv, ReadyInv, Becomes, Idle, TwoAt
<1>6. InUse(t)' = InUse(t) \ InUse(t)
  BY <1>4
<1>7. QED
  BY <1>2, <1>3, <1>4, <1>5, <1>6, ShutsKeeps

\* Only the call changes: what it no longer works with is the program's, or a
\* connection that is lost.
LEMMA MovesKeeps ==
  ASSUME IInv, NEW t \in Threads, NEW c, UNCHANGED <<fds, held, crashed>>, ~ crashed,
         Becomes(t, c), call' \in [Threads -> CallType], Fresh(t),
         StageInv(t)', OwnInv(t)', ReadyInv(t)',
         \A n \in InUse(t) \ InUse(t)' :
           n \in Held \/ (fds[n].by = Accept /\ fds[n].is = {"connected"})
  PROVE  IInv'
<1>1. Held' = Held
  BY DEF Held
<1>2. TypeInv'
  BY <1>1 DEF IInv, TypeInv
<1>3. CallInv' /\ Apart'
  <2>1. Spares(t)
    BY <1>1 DEF Spares
  <2>2. QED
    BY <2>1, OthersKeep
<1>4. HeldInv' /\ AsPromised'
  BY <1>1 DEF IInv, HeldInv, AsPromised
<1>5. OnlyKnownLeaks'
  <2>1. \A n \in Lost' : \/ n \in Lost /\ fds'[n] = fds[n]
                         \/ fds'[n].by = Accept /\ fds'[n].is = {"connected"}
    BY <1>1 DEF Lost, Becomes
  <2>2. QED
    BY <2>1, LeaksKeep DEF IInv
<1>6. QED
  BY <1>2, <1>3, <1>4, <1>5 DEF IInv

\* A system call gives the one descriptor of a call a quality.
LEMMA MarksKeeps ==
  ASSUME IInv, NEW t \in Threads, NEW q \in Qualities, NEW at \in OneAt,
         call[t].at \in {"open", "bound"},
         fds' = [fds EXCEPT ![First(t)].is = @ \cup {q}],
         Goes(t, call[t].fn, at, call[t].own), UNCHANGED <<held, crashed>>, ~ crashed,
         at = "nonblock" => call[t].fn = "netutil_socket_nonblock_connect" /\ q = "nonblock",
         at \in {"bound", "listening", "told"} => call[t].fn = Accept /\ q = "listening"
  PROVE  IInv'
<1> DEFINE n == First(t)
           fn == call[t].fn
           c == [fn |-> fn, at |-> at, own |-> <<n>>]
<1>1. TypeInv
  BY DEF IInv
<1>2. /\ n \in Numbers /\ InUse(t) = {n} /\ call[t].own = <<n>> /\ fn \in Functions
  BY <1>1, Using DEF OneAt
<1>3. n \notin Held /\ fds[n].by = fn
  BY <1>2, NotYetHeld
<1>4. /\ fds' \in [Numbers -> [by : Functions \cup {"none", "program"}, is : SUBSET Qualities]]
      /\ fds'[n].by = fds[n].by /\ fds'[n].is = fds[n].is \cup {q}
      /\ \A m \in Numbers \ {n} : fds'[m] = fds[m]
  BY <1>1, <1>2 DEF TypeInv
<1>5. /\ call' \in [Threads -> CallType] /\ Becomes(t, c)
      /\ call'[t].fn = fn /\ call'[t].at = at /\ InUse(t)' = {n} /\ First(t)' = n
  <2>1. Goes(t, fn, at, <<n>>)
    BY <1>2
  <2> HIDE DEF n, fn
  <2>2. QED
    BY <1>1, <1>2, <2>1, GoesWithOne DEF c
<1>6. Held' = Held
  BY DEF Held
<1> HIDE DEF n, fn, c
<1>7. TypeInv'
  BY <1>1, <1>4, <1>5, <1>6 DEF TypeInv
<1>8. CallInv' /\ Apart'
  <2>1. Spares(t)
    BY <1>1, <1>2, <1>3, <1>4, <1>6, Using DEF Spares, IInv, Apart
  <2>2. Fresh(t)
    BY <1>2, <1>5 DEF Fresh
  <2>3. StageInv(t)' /\ OwnInv(t)' /\ ReadyInv(t)'
    BY <1>3, <1>4, <1>5 DEF StageInv, OwnInv, ReadyInv, OneAt, TwoAt, fn
  <2>4. QED
    BY <1>5, <2>1, <2>2, <2>3, OthersKeep
<1>9. HeldInv'
  BY <1>3, <1>4, <1>6 DEF IInv, HeldInv
<1>10. OnlyKnownLeaks'
  <2>1. \A m \in Lost' : m \in Lost /\ fds'[m] = fds[m]
    BY <1>2, <1>4, <1>5, <1>6 DEF Lost, Becomes
  <2>2. QED
    BY <2>1, LeaksKeep DEF IInv
<1>11. AsPromised'
  BY <1>1, <1>3, <1>4, <1>6 DEF IInv, AsPromised, TypeInv
<1>12. QED
  BY <1>7, <1>8, <1>9, <1>10, <1>11 DEF IInv

\* The program has what a call gives it.
Given(ns, gained, promise) ==
  /\ fds' \in [Numbers -> [by : Functions \cup {"none", "program"}, is : SUBSET Qualities]]
  /\ \A n \in ns : fds'[n].by = "program" /\ fds'[n].is = fds[n].is \cup gained
  /\ \A n \in Numbers \ ns : fds'[n] = fds[n]
  /\ Held' = Held \cup ns
  /\ \A n \in Held \ ns : held'[n] = held[n]
  /\ \A n \in Held \cap ns : held'[n] = held[n] \cup promise
  /\ \A n \in ns \ Held : held'[n] = promise

LEMMA GiveIs ==
  ASSUME TypeInv, NEW ns \in SUBSET Numbers,
         NEW gained \in SUBSET Qualities, NEW promise \in SUBSET Qualities,
         Give(ns, gained, promise)
  PROVE  Given(ns, gained, promise)
<1>1. fds' = [n \in Numbers |->
                IF n \in ns THEN [by |-> "program", is |-> fds[n].is \cup gained] ELSE fds[n]]
  BY DEF Give
<1>2. fds \in [Numbers -> [by : Functions \cup {"none", "program"}, is : SUBSET Qualities]]
  BY DEF TypeInv
<1>3. /\ \A n \in ns : fds'[n].by = "program" /\ fds'[n].is = fds[n].is \cup gained
      /\ \A n \in Numbers \ ns : fds'[n] = fds[n]
  BY <1>1
<1>4. fds' \in [Numbers -> [by : Functions \cup {"none", "program"}, is : SUBSET Qualities]]
  <2>1. ASSUME NEW n \in Numbers
        PROVE  (IF n \in ns THEN [by |-> "program", is |-> fds[n].is \cup gained] ELSE fds[n])
                 \in [by : Functions \cup {"none", "program"}, is : SUBSET Qualities]
    BY <1>2
  <2>2. QED
    BY <1>1, <2>1
<1>5. /\ Held' = Held \cup ns
      /\ \A n \in Held \ ns : held'[n] = held[n]
      /\ \A n \in Held \cap ns : held'[n] = held[n] \cup promise
      /\ \A n \in ns \ Held : held'[n] = promise
  BY DEF Give, Held
<1>6. QED
  BY <1>3, <1>4, <1>5 DEF Given

\* What is promised of it is true.
LEMMA GivingKeeps ==
  ASSUME IInv, NEW ns \in SUBSET Numbers,
         NEW gained \in SUBSET Qualities, NEW promise \in SUBSET Qualities,
         Give(ns, gained, promise), crashed' = crashed, ~ crashed,
         \A n \in ns : promise \subseteq fds[n].is \cup gained
  PROVE  HeldInv' /\ AsPromised'
<1>1. TypeInv /\ HeldInv /\ AsPromised
  BY DEF IInv
<1>2. Given(ns, gained, promise)
  BY <1>1, GiveIs
<1>3. HeldInv'
  BY <1>1, <1>2 DEF HeldInv, Given
<1>4. AsPromised'
  <2>1. ASSUME NEW n \in Held'
        PROVE  held'[n] \subseteq fds'[n].is
    <3>1. CASE n \in ns
      BY <1>1, <1>2, <2>1, <3>1 DEF AsPromised, Given
    <3>2. CASE n \notin ns
      BY <1>1, <1>2, <2>1, <3>2 DEF AsPromised, TypeInv, Given
    <3>3. QED
      BY <3>1, <3>2
  <2>2. \A n \in Numbers : fds'[n].by = "fileutil_open_on_closeexec" => "cloexec" \in fds'[n].is
    BY <1>1, <1>2 DEF AsPromised, Given
  <2>3. QED
    BY <2>1, <2>2 DEF AsPromised
<1>5. QED
  BY <1>3, <1>4

\* A call ends and gives the program the one descriptor it works with.
LEMMA GivesBackKeeps ==
  ASSUME IInv, NEW t \in Threads, ~ crashed, call[t].at \in OneAt,
         NEW gained \in SUBSET Qualities, NEW promise \in SUBSET Qualities,
         GivesBack(t, gained, promise),
         promise \subseteq fds[First(t)].is \cup gained
  PROVE  IInv'
<1> DEFINE n == First(t)
<1>1. TypeInv
  BY DEF IInv
<1>2. n \in Numbers /\ InUse(t) = {n}
  BY <1>1, Using
<1>3. Give({n}, gained, promise) /\ Returns(t) /\ crashed' = crashed
  BY <1>2 DEF GivesBack, InUse
<1>4. /\ fds' \in [Numbers -> [by : Functions \cup {"none", "program"}, is : SUBSET Qualities]]
      /\ fds'[n].by = "program" /\ fds'[n].is = fds[n].is \cup gained
      /\ \A m \in Numbers \ {n} : fds'[m] = fds[m]
      /\ Held' = Held \cup {n}
      /\ \A m \in Held \ {n} : held'[m] = held[m]
      /\ held'[n] = IF n \in Held THEN held[n] \cup promise ELSE promise
  <2>1. {n} \in SUBSET Numbers
    BY <1>2
  <2> HIDE DEF n
  <2>2. Given({n}, gained, promise)
    BY <1>1, <1>3, <2>1, GiveIs
  <2>3. QED
    BY <2>2 DEF Given
<1>5. call' \in [Threads -> CallType] /\ Becomes(t, Idle) /\ InUse(t)' = {}
  BY <1>1, <1>3, ReturnsBecomes
<1>6. HeldInv' /\ AsPromised'
  <2>1. promise \subseteq fds[n].is \cup gained
    OBVIOUS
  <2> HIDE DEF n
  <2>2. QED
    BY <1>2, <1>3, <2>1, GivingKeeps
<1> HIDE DEF n
<1>7. TypeInv'
  BY <1>1, <1>2, <1>3, <1>4, <1>5 DEF TypeInv
<1>8. CallInv' /\ Apart'
  <2>1. Spares(t)
    BY <1>1, <1>2, <1>4, Using DEF Spares, IInv, Apart, HeldInv
  <2>2. Fresh(t) /\ StageInv(t)' /\ OwnInv(t)' /\ ReadyInv(t)'
    BY <1>5 DEF Fresh, StageInv, OwnInv, ReadyInv, Becomes, Idle, TwoAt
  <2>3. QED
    BY <1>5, <2>1, <2>2, OthersKeep
<1>9. OnlyKnownLeaks'
  <2>1. \A m \in Lost' : m \in Lost /\ fds'[m] = fds[m]
    BY <1>2, <1>4, <1>5 DEF Lost, Becomes
  <2>2. QED
    BY <2>1, LeaksKeep DEF IInv
<1>10. QED
  BY <1>6, <1>7, <1>8, <1>9 DEF IInv

-----------------------------------------------------------------------------
(***************************************************************************)
(* The functions.                                                          *)
(***************************************************************************)
LEMMA ReadsKeeps ==
  ASSUME IInv, NEW t \in Threads, NEW fn \in Functions,
         fn \notin {Accept, "fileutil_open_on_closeexec"}, Reads(t, fn)
  PROVE  IInv'
<1>1. CASE Opens(t, fn, {})
  BY <1>1, OpensKeeps
<1>2. CASE Closes(t, fn)
  <2>1. call[t].at \notin {"listening", "accepted", "told"}
    BY <1>2 DEF IInv, CallInv, StageInv, Closes
  <2>2. QED
    BY <1>2, <2>1, ClosesKeeps
<1>3. QED
  BY <1>1, <1>2 DEF Reads

LEMMA process_cpu_mtimeKeeps ==
  ASSUME IInv, NEW t \in Threads, process_cpu_mtime(t)
  PROVE  IInv'
<1> DEFINE fn == "process_cpu_mtime"
           own == call[t].own
           n == First(t)
           m == Second(t)
           low == Lowest
<1>1. TypeInv /\ StageInv(t) /\ OwnInv(t) /\ fn \in Functions
  BY DEF IInv, CallInv, Functions
<1>2. CASE Opens(t, fn, {})
  BY <1>1, <1>2, OpensKeeps
<1>3. CASE /\ In(t, fn, "open") /\ Takes(fn, {})
           /\ Goes(t, fn, "file", Append(own, low)) /\ UNCHANGED <<held, crashed>>
  <2>1. InUse(t) = {n} /\ own = <<n>> /\ n \in Numbers
    BY <1>1, <1>3, Using DEF In, OneAt
  <2>2. /\ low \in Numbers /\ fds[low] = Closed /\ fds'[low] = [by |-> fn, is |-> {}]
        /\ \A k \in Numbers \ {low} : fds'[k] = fds[k]
    <3>1. {} \in SUBSET Qualities /\ Takes(fn, {})
      BY <1>3
    <3> HIDE DEF fn
    <3>2. QED
      BY <1>1, <3>1, TakesLowest
  <2>3. n # low
    BY <2>1, <2>2, ClosedIsNobodys
  <2>4. Goes(t, fn, "file", <<n, low>>)
    BY <1>3, <2>1, SequenceOfOne
  <2> HIDE DEF n, low
  <2>5. /\ call' \in [Threads -> CallType]
        /\ call'[t].fn = fn /\ call'[t].at = "file"
        /\ InUse(t)' = {n, low} /\ First(t)' = n /\ Second(t)' = low
        /\ Becomes(t, [fn |-> fn, at |-> "file", own |-> <<n, low>>])
    BY <1>1, <2>1, <2>2, <2>4, GoesWithTwo DEF TwoAt
  <2>6. fds[n].by = fn
    BY <1>1, <1>3, <2>1 DEF OwnInv, In
  <2>7. StageInv(t)' /\ OwnInv(t)' /\ ReadyInv(t)'
    BY <2>1, <2>2, <2>3, <2>5, <2>6 DEF StageInv, OwnInv, ReadyInv
  <2>8. InUse(t)' = InUse(t) \cup {low} /\ ~ crashed
    BY <1>3, <2>1, <2>5 DEF In
  <2>9. QED
    BY <1>1, <1>3, <2>5, <2>7, <2>8, TakingKeeps DEF low
<1>4. CASE /\ In(t, fn, "file") /\ Shut({Last(own)})
           /\ Goes(t, fn, "open", Front(own)) /\ UNCHANGED <<held, crashed>>
  <2>1. InUse(t) = {n, m} /\ own = <<n, m>> /\ n \in Numbers /\ m \in Numbers /\ n # m
    BY <1>1, <1>4, Using DEF In, TwoAt, StageInv
  <2>2. Shut({m}) /\ Goes(t, fn, "open", <<n>>)
    BY <1>4, <2>1, SequenceOfTwo
  <2>3. {m} \cap Held = {} /\ fds[n].by = fn
    BY <1>4, <2>1, NotYetHeld DEF In
  <2> HIDE DEF n, m
  <2>4. /\ call' \in [Threads -> CallType]
        /\ call'[t].fn = fn /\ call'[t].at = "open"
        /\ InUse(t)' = {n} /\ First(t)' = n
        /\ Becomes(t, [fn |-> fn, at |-> "open", own |-> <<n>>])
    BY <1>1, <2>1, <2>2, GoesWithOne DEF OneAt
  <2>5. fds'[n] = fds[n]
    BY <2>1, <2>2 DEF Shut
  <2>6. StageInv(t)' /\ OwnInv(t)' /\ ReadyInv(t)'
    BY <2>3, <2>4, <2>5 DEF StageInv, OwnInv, ReadyInv, TwoAt
  <2>7. InUse(t)' = InUse(t) \ {m} /\ {m} \in SUBSET InUse(t) /\ ~ crashed
    BY <1>4, <2>1, <2>4 DEF In
  <2>8. QED
    BY <1>4, <2>2, <2>3, <2>4, <2>6, <2>7, ShutsKeeps
<1>5. CASE In(t, fn, "open") /\ Closes(t, fn)
  BY <1>1, <1>5, ClosesKeeps DEF In
<1>6. QED
  BY <1>2, <1>3, <1>4, <1>5 DEF process_cpu_mtime

LEMMA ReadingKeeps ==
  ASSUME IInv, NEW t \in Threads, Reading(t)
  PROVE  IInv'
<1>1. ASSUME NEW fn \in Functions \ {Accept, "fileutil_open_on_closeexec"}, Reads(t, fn)
      PROVE  IInv'
  BY <1>1, ReadsKeeps
<1>2. CASE gen_file_md5(t)
  <2> DEFINE fn == "gen_file_md5"
  <2>1. fn \in Functions
    BY DEF Functions
  <2>2. CASE Loses(t, fn) /\ 0 \in Free
    BY <2>1, <2>2, LosesKeeps
  <2>3. CASE Opens(t, fn, {}) \/ Closes(t, fn)
    BY <1>1, <2>1, <2>3 DEF Reads, Accept
  <2>4. QED
    BY <1>2, <2>2, <2>3 DEF gen_file_md5
<1>3. CASE os_info(t)
  BY <1>3, LosesKeeps DEF os_info, Functions
<1>4. CASE file_execute_type(t)
  BY <1>4, LosesKeeps DEF file_execute_type, Functions
<1>5. CASE process_cpu_mtime(t)
  BY <1>5, process_cpu_mtimeKeeps
<1>6. QED
  BY <1>1, <1>2, <1>3, <1>4, <1>5
     DEF Reading, Functions, Accept,
         taskutil_elf_type, taskutil_current_session, process_max_number,
         taskutil_task_proc_stat, process_cmdline, os_info_boot_time,
         os_info_last_shutdow_time, os_info_running_tty, os_info_machine_id,
         general_os_version_con, fcp_set_pingv4_state, fcp_is_allow_pingv4

LEMMA fileutil_open_on_closeexecKeeps ==
  ASSUME IInv, NEW t \in Threads, fileutil_open_on_closeexec(t)
  PROVE  IInv'
<1> DEFINE fn == "fileutil_open_on_closeexec"
<1>1. CASE Opens(t, fn, {"cloexec"})
  BY <1>1, OpensKeeps DEF Functions, Qualities, Options
<1>2. CASE In(t, fn, "open") /\ GivesBack(t, {}, {"cloexec"})
  <2>1. First(t) \in InUse(t) /\ call[t].at \in OneAt
    BY <1>2, Using DEF IInv, In, OneAt
  <2>2. fds[First(t)].by = fn /\ First(t) \in Numbers
    BY <1>2, <2>1, NotYetHeld DEF In
  <2>3. {"cloexec"} \subseteq fds[First(t)].is \cup {}
    BY <2>2 DEF IInv, AsPromised
  <2>4. QED
    BY <1>2, <2>1, <2>3, GivesBackKeeps DEF In, Qualities, Options
<1>3. QED
  BY <1>1, <1>2 DEF fileutil_open_on_closeexec

LEMMA netutil_socket_block_connectKeeps ==
  ASSUME IInv, NEW t \in Threads, netutil_socket_block_connect(t)
  PROVE  IInv'
<1> DEFINE fn == "netutil_socket_block_connect"
<1>1. CASE Opens(t, fn, {}) \/ Closes(t, fn)
  BY <1>1, ReadsKeeps DEF Reads, Functions, Accept
<1>2. CASE In(t, fn, "open") /\ GivesBack(t, {"connected"}, {"connected"})
  <2>1. {"connected"} \subseteq fds[First(t)].is \cup {"connected"} /\ call[t].at \in OneAt
    BY <1>2 DEF In, OneAt
  <2>2. QED
    BY <1>2, <2>1, GivesBackKeeps DEF In, Qualities
<1>3. QED
  BY <1>1, <1>2 DEF netutil_socket_block_connect

LEMMA netutil_socket_nonblock_connectKeeps ==
  ASSUME IInv, NEW t \in Threads, netutil_socket_nonblock_connect(t)
  PROVE  IInv'
<1> DEFINE fn == "netutil_socket_nonblock_connect"
<1>1. CASE Opens(t, fn, {}) \/ Closes(t, fn)
  BY <1>1, ReadsKeeps DEF Reads, Functions, Accept
<1>2. CASE /\ In(t, fn, "open")
           /\ fds' = [fds EXCEPT ![call[t].own[1]].is = @ \cup {"nonblock"}]
           /\ Goes(t, fn, "nonblock", call[t].own) /\ UNCHANGED <<held, crashed>>
  BY <1>2, MarksKeeps DEF In, First, Qualities, Options, OneAt
<1>3. CASE /\ In(t, fn, "nonblock")
           /\ GivesBack(t, {"connected"}, {"nonblock", "connected"})
  <2>1. {"nonblock", "connected"} \subseteq fds[First(t)].is \cup {"connected"}
        /\ call[t].at \in OneAt
    BY <1>3 DEF IInv, CallInv, ReadyInv, In, OneAt
  <2>2. QED
    BY <1>3, <2>1, GivesBackKeeps DEF In, Qualities, Options
<1>4. QED
  BY <1>1, <1>2, <1>3 DEF netutil_socket_nonblock_connect

\* A second descriptor is free if two are.
LEMMA TwoFree ==
  ASSUME Cardinality(Free) >= 2
  PROVE  /\ Lowest \in Free /\ Min(Free \ {Lowest}) \in Free
         /\ Lowest # Min(Free \ {Lowest})
<1>1. IsFiniteSet(Free)
  <2>1. IsFiniteSet(Numbers)
    BY LimitAssumption, FS_Interval DEF Numbers
  <2>2. QED
    BY <2>1, FS_Subset DEF Free
<1>2. Free # {}
  BY FS_EmptySet
<1>3. Lowest \in Free
  BY <1>2, LowestIsFree DEF Free
<1>4. Free \ {Lowest} # {}
  <2>1. Cardinality({Lowest}) = 1
    BY FS_Singleton
  <2>2. QED
    BY <1>3, <2>1
<1>5. Min(Free \ {Lowest}) \in Free \ {Lowest}
  BY <1>4, MinInSet, LimitAssumption DEF Free, Numbers
<1>6. QED
  BY <1>3, <1>5

\* The program is given descriptors that it has or that nobody had.
LEMMA IdleGiveKeeps ==
  ASSUME IInv, NEW t \in Threads, Enters(t), NEW ns \in SUBSET Numbers,
         NEW gained \in SUBSET Qualities, NEW promise \in SUBSET Qualities,
         Give(ns, gained, promise), UNCHANGED <<call, crashed>>,
         \A n \in ns : n \in Held \/ fds[n] = Closed,
         promise \subseteq gained
  PROVE  IInv'
<1>1. TypeInv /\ ~ crashed
  BY DEF IInv, Enters
<1>2. Given(ns, gained, promise)
  BY <1>1, GiveIs
<1>3. \A u \in Threads : /\ InUse(u)' = InUse(u)
                         /\ First(u)' = First(u) /\ Second(u)' = Second(u)
  BY DEF InUse, First, Second
<1>4. HeldInv' /\ AsPromised'
  BY <1>1, <1>2, GivingKeeps
<1>5. TypeInv'
  BY <1>1, <1>2 DEF TypeInv, Given
<1>6. CallInv'
  <2> SUFFICES ASSUME NEW u \in Threads
               PROVE  StageInv(u)' /\ OwnInv(u)' /\ ReadyInv(u)'
    BY DEF CallInv
  <2>1. StageInv(u) /\ OwnInv(u) /\ ReadyInv(u)
    BY DEF IInv, CallInv
  <2>2. \A n \in InUse(u) : /\ n \in Numbers
                            /\ fds'[n].by = fds[n].by /\ fds[n].is \subseteq fds'[n].is
                            /\ n \in ns => n \in Held
    BY <1>1, <1>2, Using, ClosedIsNobodys DEF Given, IInv, HeldInv
  <2>3. StageInv(u)' /\ OwnInv(u)'
    BY <1>2, <1>3, <2>1, <2>2 DEF StageInv, OwnInv, Given
  <2>4. call[u].at = "accepted" => fds'[Second(u)] = fds[Second(u)]
    BY <1>1, <1>2, <2>2, Using, NotYetHeld DEF Given, TwoAt
  <2>5. ReadyInv(u)'
    BY <1>1, <1>3, <2>1, <2>2, <2>4, Using DEF ReadyInv, OneAt, TwoAt
  <2>6. QED
    BY <2>3, <2>5
<1>7. Apart'
  BY <1>2, <1>3 DEF IInv, Apart, Given
<1>8. OnlyKnownLeaks'
  <2>1. \A n \in Lost' : n \in Lost /\ fds'[n] = fds[n]
    BY <1>2, <1>3 DEF Lost, Given
  <2>2. QED
    BY <2>1, LeaksKeep DEF IInv
<1>9. QED
  BY <1>4, <1>5, <1>6, <1>7, <1>8 DEF IInv

LEMMA netutil_socket_unix_pairKeeps ==
  ASSUME IInv, NEW t \in Threads, netutil_socket_unix_pair(t)
  PROVE  IInv'
<1> DEFINE ns == {Lowest, Min(Free \ {Lowest})}
           q == {"connected"}
<1>1. Give(ns, q, q) /\ Enters(t) /\ UNCHANGED <<call, crashed>>
  BY DEF netutil_socket_unix_pair
<1>2. ns \in SUBSET Numbers /\ \A n \in ns : fds[n] = Closed
  BY TwoFree DEF netutil_socket_unix_pair, Free
<1>3. q \in SUBSET Qualities /\ q \subseteq q
  BY DEF Qualities
<1> HIDE DEF ns, q
<1>4. QED
  BY <1>1, <1>2, <1>3, IdleGiveKeeps

LEMMA SettingKeeps ==
  ASSUME IInv, NEW t \in Threads, Setting(t)
  PROVE  IInv'
<1>1. PICK option \in Options : Sets(t, option)
  BY DEF Setting, netutil_socket_nonblocking, netutil_socket_closeonexec,
         netutil_socket_reuse_addr, netutil_socket_reuse_port, Options
<1>2. PICK n \in Held : Give({n}, {option}, {option})
  BY <1>1 DEF Sets
<1> DEFINE ns == {n}
           q == {option}
<1>3. Give(ns, q, q) /\ Enters(t) /\ UNCHANGED <<call, crashed>>
  BY <1>1, <1>2 DEF Sets
<1>4. ns \in SUBSET Numbers /\ \A m \in ns : m \in Held
  BY DEF IInv, TypeInv
<1>5. q \in SUBSET Qualities /\ q \subseteq q
  BY DEF Qualities
<1> HIDE DEF ns, q
<1>6. QED
  BY <1>3, <1>4, <1>5, IdleGiveKeeps

LEMMA ProgramClosesKeeps ==
  ASSUME IInv, NEW n \in Numbers, ProgramCloses(n)
  PROVE  IInv'
<1>1. TypeInv /\ ~ crashed /\ n \in Held /\ \A t \in Threads : n \notin InUse(t)
  BY DEF IInv, ProgramCloses, InUse
<1>2. /\ fds' \in [Numbers -> [by : Functions \cup {"none", "program"}, is : SUBSET Qualities]]
      /\ fds'[n] = Closed
      /\ \A m \in Numbers \ {n} : fds'[m] = fds[m]
  BY <1>1 DEF ProgramCloses, Shut, TypeInv, Closed
<1>3. Held' = Held \ {n} /\ \A m \in Held \ {n} : held'[m] = held[m]
  BY DEF ProgramCloses, Held
<1>4. /\ UNCHANGED <<call, crashed>>
      /\ \A u \in Threads : /\ InUse(u)' = InUse(u)
                            /\ First(u)' = First(u) /\ Second(u)' = Second(u)
  BY DEF ProgramCloses, InUse, First, Second
<1>5. TypeInv'
  BY <1>1, <1>2, <1>3, <1>4 DEF TypeInv
<1>6. CallInv'
  <2> SUFFICES ASSUME NEW u \in Threads
               PROVE  StageInv(u)' /\ OwnInv(u)' /\ ReadyInv(u)'
    BY DEF CallInv
  <2>1. StageInv(u) /\ OwnInv(u) /\ ReadyInv(u)
    BY DEF IInv, CallInv
  <2>2. \A m \in InUse(u) : m # n /\ fds'[m] = fds[m]
    BY <1>1, <1>2, Using
  <2>3. StageInv(u)' /\ OwnInv(u)'
    BY <1>3, <1>4, <2>1, <2>2 DEF StageInv, OwnInv
  <2>4. ReadyInv(u)'
    BY <1>1, <1>4, <2>1, <2>2, Using DEF ReadyInv, OneAt, TwoAt
  <2>5. QED
    BY <2>3, <2>4
<1>7. HeldInv' /\ Apart'
  BY <1>1, <1>2, <1>3, <1>4 DEF IInv, HeldInv, Apart, Closed
<1>8. OnlyKnownLeaks'
  <2>1. \A m \in Lost' : m \in Lost /\ fds'[m] = fds[m]
    BY <1>2, <1>3, <1>4 DEF Lost
  <2>2. QED
    BY <2>1, LeaksKeep DEF IInv
<1>9. AsPromised'
  BY <1>1, <1>2, <1>3, <1>4 DEF IInv, AsPromised, TypeInv, Closed
<1>10. QED
  BY <1>5, <1>6, <1>7, <1>8, <1>9 DEF IInv

LEMMA netutil_socket_acceptKeeps ==
  ASSUME IInv, NEW t \in Threads, netutil_socket_accept(t)
  PROVE  IInv'
<1> DEFINE own == call[t].own
           n == First(t)
           m == Second(t)
           low == Lowest
<1>1. TypeInv /\ StageInv(t) /\ OwnInv(t) /\ ReadyInv(t) /\ Accept \in Functions
  BY DEF IInv, CallInv, Functions
<1>2. CASE 0 \in Free /\ Loses(t, Accept)
  BY <1>1, <1>2, LosesKeeps
<1>3. CASE 0 \notin Free /\ Opens(t, Accept, {})
  <2>1. Accept # "fileutil_open_on_closeexec"
    BY DEF Accept
  <2>2. QED
    BY <1>1, <1>3, <2>1, OpensKeeps
<1>4. CASE In(t, Accept, "open") /\ crashed' = TRUE /\ UNCHANGED <<fds, held, call>>
  <2>1. /\ Held' = Held /\ Lost' = Lost
        /\ \A u \in Threads : /\ InUse(u)' = InUse(u)
                              /\ First(u)' = First(u) /\ Second(u)' = Second(u)
    BY <1>4 DEF Held, InUse, First, Second, Lost
  <2>2. TypeInv' /\ HeldInv' /\ Apart' /\ OnlyKnownLeaks'
    BY <1>4, <2>1 DEF IInv, TypeInv, HeldInv, Apart, OnlyKnownLeaks
  <2>3. CallInv'
    BY <1>4, <2>1 DEF IInv, CallInv, StageInv, OwnInv, ReadyInv
  <2>4. AsPromised'
    BY <1>4, <2>1 DEF IInv, AsPromised, In, Accept
  <2>5. QED
    BY <2>2, <2>3, <2>4 DEF IInv
<1>5. CASE In(t, Accept, "open") /\ Goes(t, Accept, "bound", own) /\ UNCHANGED <<fds, held, crashed>>
  <2>1. InUse(t) = {n} /\ own = <<n>> /\ n \in Numbers
    BY <1>1, <1>5, Using DEF In, OneAt
  <2>2. fds[n].by = Accept
    BY <1>5, <2>1, NotYetHeld DEF In
  <2>3. Goes(t, Accept, "bound", <<n>>)
    BY <1>5, <2>1
  <2> HIDE DEF n
  <2>4. /\ call' \in [Threads -> CallType]
        /\ call'[t].fn = Accept /\ call'[t].at = "bound"
        /\ InUse(t)' = {n} /\ First(t)' = n
        /\ Becomes(t, [fn |-> Accept, at |-> "bound", own |-> <<n>>])
    BY <1>1, <2>1, <2>3, GoesWithOne DEF OneAt
  <2>5. StageInv(t)' /\ OwnInv(t)' /\ ReadyInv(t)' /\ Fresh(t) /\ ~ crashed
    BY <1>5, <2>1, <2>2, <2>4 DEF StageInv, OwnInv, ReadyInv, Fresh, TwoAt, In
  <2>6. \A k \in InUse(t) \ InUse(t)' : FALSE
    BY <2>1, <2>4
  <2>7. QED
    BY <1>5, <2>4, <2>5, <2>6, MovesKeeps
<1>6. CASE (In(t, Accept, "open") \/ In(t, Accept, "bound")) /\ Closes(t, Accept)
  BY <1>1, <1>6, ClosesKeeps DEF In
<1>7. CASE /\ In(t, Accept, "bound")
           /\ fds' = [fds EXCEPT ![own[1]].is = @ \cup {"listening"}]
           /\ Goes(t, Accept, "listening", own) /\ UNCHANGED <<held, crashed>>
  BY <1>7, MarksKeeps DEF In, First, Qualities, OneAt
<1>8. CASE /\ Enters(t) /\ UNCHANGED <<fds, held, crashed>>
           /\ \E k \in Held : "listening" \in held[k] /\ Goes(t, Accept, "listening", <<k>>)
  <2>1. PICK k \in Held : "listening" \in held[k] /\ Goes(t, Accept, "listening", <<k>>)
    BY <1>8
  <2>2. k \in Numbers /\ "listening" \in fds[k].is
    BY <2>1 DEF IInv, TypeInv, AsPromised
  <2>3. InUse(t) = {} /\ ~ crashed
    BY <1>1, <1>8, Using DEF Enters, Idle
  <2>4. /\ call' \in [Threads -> CallType]
        /\ call'[t].fn = Accept /\ call'[t].at = "listening"
        /\ InUse(t)' = {k} /\ First(t)' = k
        /\ Becomes(t, [fn |-> Accept, at |-> "listening", own |-> <<k>>])
    BY <1>1, <2>1, <2>2, GoesWithOne DEF OneAt
  <2>5. Held' = Held
    BY <1>8 DEF Held
  <2>6. StageInv(t)' /\ OwnInv(t)' /\ ReadyInv(t)' /\ Fresh(t)
    BY <1>8, <2>2, <2>4, <2>5 DEF StageInv, OwnInv, ReadyInv, Fresh, TwoAt
  <2>7. QED
    BY <1>8, <2>3, <2>4, <2>6, MovesKeeps
<1>9. CASE /\ In(t, Accept, "listening") /\ Takes(Accept, {"connected"})
           /\ Goes(t, Accept, "accepted", Append(own, low)) /\ UNCHANGED <<held, crashed>>
  <2> DEFINE is == {"connected"}
  <2>1. InUse(t) = {n} /\ own = <<n>> /\ n \in Numbers
    BY <1>1, <1>9, Using DEF In, OneAt
  <2>2. is \in SUBSET Qualities /\ Takes(Accept, is) /\ Accept # "fileutil_open_on_closeexec"
    BY <1>9 DEF Qualities, Accept
  <2> HIDE DEF is
  <2>3. /\ low \in Numbers /\ fds[low] = Closed /\ fds'[low] = [by |-> Accept, is |-> is]
        /\ \A k \in Numbers \ {low} : fds'[k] = fds[k]
    BY <1>1, <2>2, TakesLowest
  <2>4. n # low
    BY <2>1, <2>3, ClosedIsNobodys
  <2>5. Goes(t, Accept, "accepted", <<n, low>>)
    BY <1>9, <2>1, SequenceOfOne
  <2>6. Held' = Held
    BY <1>9 DEF Held
  <2>7. "listening" \in fds[n].is /\ (fds[n].by = Accept \/ n \in Held)
    BY <1>1, <1>9, <2>1 DEF ReadyInv, OwnInv, In
  <2> HIDE DEF n, low
  <2>8. /\ call' \in [Threads -> CallType]
        /\ call'[t].fn = Accept /\ call'[t].at = "accepted"
        /\ InUse(t)' = {n, low} /\ First(t)' = n /\ Second(t)' = low
        /\ Becomes(t, [fn |-> Accept, at |-> "accepted", own |-> <<n, low>>])
    BY <1>1, <2>1, <2>3, <2>5, GoesWithTwo DEF TwoAt
  <2>9. StageInv(t)' /\ OwnInv(t)' /\ ReadyInv(t)'
    BY <2>1, <2>3, <2>4, <2>6, <2>7, <2>8 DEF StageInv, OwnInv, ReadyInv, is
  <2>10. InUse(t)' = InUse(t) \cup {low} /\ ~ crashed
    BY <1>9, <2>1, <2>8 DEF In
  <2>11. QED
    BY <1>1, <1>9, <2>2, <2>8, <2>9, <2>10, TakingKeeps DEF low
<1>10. CASE /\ In(t, Accept, "accepted") /\ Goes(t, Accept, "told", Front(own))
            /\ UNCHANGED crashed
            /\ \/ own[2] > 0 /\ Give({own[2]}, {}, {"connected"})
               \/ UNCHANGED <<fds, held>>
  <2>1. InUse(t) = {n, m} /\ own = <<n, m>> /\ n \in Numbers /\ m \in Numbers /\ n # m
    BY <1>1, <1>10, Using DEF In, TwoAt, StageInv
  <2>2. Goes(t, Accept, "told", <<n>>)
    BY <1>10, <2>1, SequenceOfTwo
  <2>3. m \notin Held /\ fds[m].by = Accept /\ fds[m].is = {"connected"}
    BY <1>1, <1>10, <2>1, NotYetHeld DEF In, ReadyInv
  <2>4. /\ "listening" \in fds[n].is /\ (fds[n].by = Accept \/ n \in Held)
        /\ own[2] = m /\ ~ crashed
    BY <1>1, <1>10, <2>1 DEF ReadyInv, OwnInv, In, Second
  <2> HIDE DEF n, m
  <2>5. /\ call' \in [Threads -> CallType]
        /\ call'[t].fn = Accept /\ call'[t].at = "told"
        /\ InUse(t)' = {n} /\ First(t)' = n
        /\ Becomes(t, [fn |-> Accept, at |-> "told", own |-> <<n>>])
    BY <1>1, <2>1, <2>2, GoesWithOne DEF OneAt
  <2>6. Fresh(t)
    BY <2>1, <2>5 DEF Fresh
  <2>7. CASE UNCHANGED <<fds, held>>
    <3>1. Held' = Held
      BY <2>7 DEF Held
    <3>2. StageInv(t)' /\ OwnInv(t)' /\ ReadyInv(t)'
      BY <2>4, <2>5, <2>7, <3>1 DEF StageInv, OwnInv, ReadyInv, TwoAt
    <3>3. \A k \in InUse(t) \ InUse(t)' : fds[k].by = Accept /\ fds[k].is = {"connected"}
      BY <2>1, <2>3, <2>5
    <3>4. QED
      BY <1>10, <2>4, <2>5, <2>6, <2>7, <3>2, <3>3, MovesKeeps
  <2>8. CASE Give({own[2]}, {}, {"connected"})
    <3> DEFINE ns == {m}
               promise == {"connected"}
    <3>1. Give(ns, {}, promise)
      BY <2>4, <2>8
    <3>2. /\ ns \in SUBSET Numbers /\ {} \in SUBSET Qualities /\ promise \in SUBSET Qualities
          /\ \A k \in ns : promise \subseteq fds[k].is \cup {}
      BY <2>1, <2>3 DEF Qualities
    <3> HIDE DEF ns, promise
    <3>3. Given(ns, {}, promise)
      BY <1>1, <3>1, <3>2, GiveIs
    <3>4. HeldInv' /\ AsPromised'
      BY <1>10, <2>4, <3>1, <3>2, GivingKeeps
    <3>5. /\ fds' \in [Numbers -> [by : Functions \cup {"none", "program"}, is : SUBSET Qualities]]
          /\ \A k \in Numbers \ {m} : fds'[k] = fds[k]
          /\ Held' = Held \cup {m}
          /\ \A k \in Held : held'[k] = held[k]
          /\ held'[m] = promise
      BY <2>3, <3>3 DEF Given, ns
    <3>6. TypeInv'
      BY <1>1, <1>10, <2>1, <2>5, <3>2, <3>5 DEF TypeInv
    <3>7. StageInv(t)' /\ OwnInv(t)' /\ ReadyInv(t)'
      BY <2>1, <2>4, <2>5, <3>5 DEF StageInv, OwnInv, ReadyInv, TwoAt
    <3>8. Spares(t)
      BY <1>1, <2>1, <2>3, <3>5, Using DEF Spares, IInv, Apart
    <3>9. CallInv' /\ Apart'
      BY <2>5, <2>6, <3>7, <3>8, OthersKeep
    <3>10. OnlyKnownLeaks'
      <4>1. \A k \in Lost' : k \in Lost /\ fds'[k] = fds[k]
        BY <2>1, <2>5, <3>5 DEF Lost, Becomes
      <4>2. QED
        BY <4>1, LeaksKeep DEF IInv
    <3>11. QED
      BY <3>4, <3>6, <3>9, <3>10 DEF IInv
  <2>9. QED
    BY <1>10, <2>7, <2>8
<1>11. CASE (In(t, Accept, "listening") \/ In(t, Accept, "told")) /\ GivesBack(t, {}, {"listening"})
  <2>1. {"listening"} \subseteq fds[First(t)].is \cup {} /\ call[t].at \in OneAt
    BY <1>1, <1>11 DEF ReadyInv, In, OneAt
  <2>2. QED
    BY <1>11, <2>1, GivesBackKeeps DEF In, Qualities
<1>12. QED
  BY <1>2, <1>3, <1>4, <1>5, <1>6, <1>7, <1>8, <1>9, <1>10, <1>11
     DEF netutil_socket_accept, Accept

-----------------------------------------------------------------------------
(***************************************************************************)
(* The invariant is inductive.                                             *)
(***************************************************************************)
LEMMA InitIInv == Init => IInv
<1> SUFFICES ASSUME Init
             PROVE  IInv
  OBVIOUS
<1>1. PICK std \in SUBSET {0} :
        /\ fds = [n \in Numbers |-> IF n \in std THEN [by |-> "program", is |-> {}] ELSE Closed]
        /\ held = [n \in std |-> {}]
  BY DEF Init
<1>2. Held = std /\ std \subseteq Numbers
  BY <1>1, LimitAssumption DEF Held, Numbers
<1>3. \A n \in Numbers : fds[n] = IF n \in std THEN [by |-> "program", is |-> {}] ELSE Closed
  BY <1>1
<1>4. TypeInv
  <2>1. fds \in [Numbers -> [by : Functions \cup {"none", "program"}, is : SUBSET Qualities]]
    BY <1>1 DEF Closed
  <2>2. call \in [Threads -> CallType] /\ crashed \in BOOLEAN
    <3>1. Idle \in CallType
      BY DEF CallType
    <3>2. QED
      BY <3>1 DEF Init
  <2>3. QED
    BY <1>1, <1>2, <2>1, <2>2 DEF TypeInv
<1>5. \A t \in Threads : call[t] = Idle /\ InUse(t) = {}
  BY SequenceOfNone DEF Init, InUse, Idle
<1>6. CallInv
  BY <1>5 DEF CallInv, StageInv, OwnInv, ReadyInv, TwoAt, Idle
<1>7. HeldInv /\ Apart
  <2>1. HeldInv
    BY <1>2, <1>3 DEF HeldInv, Closed
  <2>2. Apart
    BY <1>5 DEF Apart
  <2>3. QED
    BY <2>1, <2>2
<1>8. OnlyKnownLeaks
  BY <1>2, <1>3 DEF OnlyKnownLeaks, Lost
<1>9. AsPromised
  BY <1>1, <1>2, <1>3 DEF AsPromised, Closed, Init
<1>10. QED
  BY <1>4, <1>6, <1>7, <1>8, <1>9 DEF IInv

LEMMA NextIInv == IInv /\ [Next]_vars => IInv'
<1> SUFFICES ASSUME IInv, [Next]_vars
             PROVE  IInv'
  OBVIOUS
<1>1. ASSUME NEW t \in Threads, Reading(t)
      PROVE  IInv'
  BY <1>1, ReadingKeeps
<1>2. ASSUME NEW t \in Threads, Giving(t)
      PROVE  IInv'
  BY <1>2, fileutil_open_on_closeexecKeeps, netutil_socket_block_connectKeeps,
     netutil_socket_nonblock_connectKeeps, netutil_socket_unix_pairKeeps,
     netutil_socket_acceptKeeps DEF Giving
<1>3. ASSUME NEW t \in Threads, Setting(t)
      PROVE  IInv'
  BY <1>3, SettingKeeps
<1>4. ASSUME NEW n \in Numbers, ProgramCloses(n)
      PROVE  IInv'
  BY <1>4, ProgramClosesKeeps
<1>5. CASE UNCHANGED vars
  <2>1. /\ Held' = Held /\ Lost' = Lost
        /\ \A u \in Threads : /\ InUse(u)' = InUse(u)
                              /\ First(u)' = First(u) /\ Second(u)' = Second(u)
    BY <1>5 DEF vars, Held, InUse, First, Second, Lost
  <2>2. TypeInv' /\ HeldInv' /\ Apart' /\ OnlyKnownLeaks' /\ AsPromised'
    BY <1>5, <2>1 DEF vars, IInv, TypeInv, HeldInv, Apart, OnlyKnownLeaks, AsPromised
  <2>3. CallInv'
    BY <1>5, <2>1 DEF vars, IInv, CallInv, StageInv, OwnInv, ReadyInv
  <2>4. QED
    BY <2>2, <2>3 DEF IInv
<1>6. QED
  BY <1>1, <1>2, <1>3, <1>4, <1>5 DEF Next

LEMMA Inductive == Spec => []IInv
BY InitIInv, NextIInv, PTL DEF Spec

-----------------------------------------------------------------------------
(***************************************************************************)
(* However many threads call the functions that open and close             *)
(* descriptors, no call closes one that is not its own.                    *)
(***************************************************************************)
THEOREM OwnDescriptors == Spec => []HeldAreOpen
<1>1. IInv => HeldAreOpen
  BY DEF IInv, TypeInv, HeldInv, CallInv, OwnInv, Apart, HeldAreOpen
<1>2. QED
  BY <1>1, Inductive, PTL

(***************************************************************************)
(* In a table of any size, whatever paths the calls take, only             *)
(* file_execute_type, os_info, an accepted connection nobody is told of    *)
(* and descriptor 0 are lost.                                              *)
(***************************************************************************)
THEOREM KnownLeaks == Spec => []OnlyKnownLeaks
<1>1. IInv => OnlyKnownLeaks
  BY DEF IInv
<1>2. QED
  BY <1>1, Inductive, PTL

(***************************************************************************)
(* What the socket calls and fileutil_open_on_closeexec promise of a       *)
(* descriptor stays true while the program has it.                         *)
(***************************************************************************)
THEOREM Promises == Spec => []AsPromised
<1>1. IInv => AsPromised
  BY DEF IInv
<1>2. QED
  BY <1>1, Inductive, PTL
=====
