------------------------------ MODULE Signals ------------------------------
(***************************************************************************)
(* The signal registry of libmyfcp (fcp_signal.c) in one process whose     *)
(* signals arrive asynchronously.                                          *)
(*                                                                         *)
(* Two parties change the state.  The library runs on the process's call   *)
(* stack: frame[1] is the program's own code, frame[2], ... are signal     *)
(* handlers that interrupted it.  Every system call and every write to the *)
(* library's two static tables is a step of its own, so a signal can be    *)
(* delivered between any two of them, and the handler it runs may itself   *)
(* call the library.  The kernel raises signals and delivers a pending     *)
(* signal that is not masked before the process returns to user mode.      *)
(***************************************************************************)
EXTENDS Integers, FiniteSets

CONSTANTS
  NSIG,          \* the library's table has NSIG entries, signals are 1..NSIG-1
  Uncatchable,   \* SIGKILL, SIGSTOP: sigaction fails, masking has no effect
  Fatal,         \* signals whose default action ends the process
  Handlers,      \* functions the program registers
  DFL, IGN,      \* SIG_DFL and SIG_IGN
  HandlerCalls,  \* library calls that a signal handler may make
  MaxDepth,      \* bound on the height of the call stack
  MaxRaise       \* bound on the number of signals raised

Sig == 1 .. NSIG - 1
Arg == 0 .. NSIG
Catchable == Sig \ Uncatchable
Dispositions == Handlers \cup {DFL, IGN}

Operations == {"add", "del", "delall", "ignoreall", "block", "unblock"}

ASSUME TableAssumption == NSIG \in Nat /\ NSIG > 1
ASSUME SignalAssumption == Uncatchable \subseteq Sig /\ Fatal \subseteq Sig
ASSUME DispositionAssumption == DFL # IGN /\ DFL \notin Handlers /\ IGN \notin Handlers
ASSUME CallAssumption == HandlerCalls \subseteq Operations
ASSUME BoundAssumption == MaxDepth \in Nat /\ MaxDepth > 2 /\ MaxRaise \in Nat

VARIABLES
  disp,        \* kernel: disposition of each signal
  mask,        \* kernel: signals the process currently blocks
  pending,     \* kernel: signals raised and not yet delivered
  alive,       \* kernel: the process has not been killed by a signal
  oldsig,      \* library: g_oldsig[s].oldsig, what sigutil_sig_del restores
  inited,      \* library: g_oldsig[s].inited
  maskInited,  \* library: g_promasksig.inited
  promask,     \* library: g_promasksig.promasksig, what it believes it blocked
  frame,       \* call stack of the process
  top,         \* height of the stack in use
  raised,      \* number of signals raised so far
  foreign,     \* history: the last disposition of each signal that is no handler
  inherited    \* history: the mask the process started with

kernelVars == <<disp, mask, pending, alive>>
tableVars == <<oldsig, inited>>
shadowVars == <<maskInited, promask>>
stackVars == <<frame, top>>
historyVars == <<foreign, inherited>>
vars == <<disp, mask, pending, alive, oldsig, inited, maskInited, promask,
          frame, top, raised, foreign, inherited>>

Pcs == {"idle", "add", "addInited", "del", "delSigaction", "delClear", "ignore",
        "block", "blockInit", "blockAdd", "blockMask",
        "unblock", "unblockDel", "unblockReblock"}

(***************************************************************************)
(* A frame: pc is the next statement of the library function being         *)
(* executed ("idle" when the frame runs the program's own code), op the    *)
(* call in progress or last made, sig its argument or loop index, h the    *)
(* handler it registers, ret its result, saved the mask that the kernel    *)
(* puts back when the handler of this frame returns.                       *)
(***************************************************************************)
Frames == [pc: Pcs, op: Operations \cup {"none"}, sig: Arg,
           h: Handlers \cup {DFL}, ret: {0, -1}, saved: SUBSET Catchable]

BlankFrame == [pc |-> "idle", op |-> "none", sig |-> 0, h |-> DFL, ret |-> 0, saved |-> {}]

cur == frame[top]

InRange(s) == s >= 1 /\ s < NSIG

Init ==
  /\ disp \in [Sig -> {DFL, IGN}]
  /\ \A s \in Uncatchable : disp[s] = DFL
  /\ mask \in SUBSET Catchable
  /\ pending = {}
  /\ alive = TRUE
  /\ oldsig = [s \in Sig |-> DFL]
  /\ inited = [s \in Sig |-> FALSE]
  /\ maskInited = FALSE
  /\ promask = {}
  /\ frame = [d \in 1 .. MaxDepth |-> BlankFrame]
  /\ top = 1
  /\ raised = 0
  /\ foreign = disp
  /\ inherited = mask

-----------------------------------------------------------------------------
(***************************************************************************)
(* The kernel (modelled from how the library uses it).                     *)
(***************************************************************************)

\* A signal with disposition d that the kernel throws away on arrival.
Discards(s, d) == d = IGN \/ (d = DFL /\ s \notin Fatal)

Raise(s) ==
  /\ alive
  /\ raised < MaxRaise
  /\ s \notin pending
  /\ ~ (Discards(s, disp[s]) /\ s \notin mask)
  /\ pending' = pending \cup {s}
  /\ raised' = raised + 1
  /\ UNCHANGED <<disp, mask, alive, tableVars, shadowVars, stackVars, historyVars>>

Deliverable == pending \ mask

\* Mutant: sa_mask left empty, the kernel adds only the signal itself.
HandlerMaskNotFilled(s) == {s} \ Uncatchable

\* What a running handler keeps blocked: the filled sa_mask (sigfillset).
HandlerMask(s) == Catchable

RunHandler(s) ==
  /\ alive
  /\ s \in Deliverable
  /\ disp[s] \in Handlers
  /\ top < MaxDepth
  /\ pending' = pending \ {s}
  /\ top' = top + 1
  /\ frame' = [frame EXCEPT ![top + 1] = [BlankFrame EXCEPT !.saved = mask]]
  /\ mask' = mask \cup HandlerMask(s)
  /\ UNCHANGED <<disp, alive, tableVars, shadowVars, raised, historyVars>>

DefaultAction(s) ==
  /\ alive
  /\ s \in Deliverable
  /\ disp[s] \notin Handlers
  /\ pending' = pending \ {s}
  /\ alive' = Discards(s, disp[s])
  /\ UNCHANGED <<disp, mask, tableVars, shadowVars, stackVars, raised, historyVars>>

Deliver(s) == RunHandler(s) \/ DefaultAction(s)

\* User code runs only when no signal is waiting to be delivered.
Running == alive /\ Deliverable = {}

\* sigaction(2) that installs d for a catchable signal s.
Sigaction(s, d) ==
  /\ disp' = [disp EXCEPT ![s] = d]
  /\ pending' = IF Discards(s, d) THEN pending \ {s} ELSE pending
  /\ foreign' = IF d \in Handlers THEN foreign ELSE [foreign EXCEPT ![s] = d]

\* sigprocmask(2); a request for SIGKILL or SIGSTOP is silently ignored.
MaskBlock(set) == mask' = mask \cup (set \ Uncatchable)
MaskUnblock(set) == mask' = mask \ set

-----------------------------------------------------------------------------
(***************************************************************************)
(* Calls and returns.                                                      *)
(***************************************************************************)

At(p) == Running /\ cur.pc = p

Goto(p) == frame' = [frame EXCEPT ![top].pc = p] /\ top' = top

Return(r) == frame' = [frame EXCEPT ![top].pc = "idle", ![top].ret = r] /\ top' = top

\* Mutant: the loop never advances.
NextSignalStuck(p) == Goto(p)

\* The for loop of sigutil_sig_delall and sigutil_ignore_all_sig: next signal
\* at statement p, or return 0 after the last.
NextSignal(p) ==
  IF cur.sig + 1 < NSIG
    THEN frame' = [frame EXCEPT ![top].pc = p, ![top].sig = cur.sig + 1] /\ top' = top
    ELSE Return(0)

\* Leaving sigutil_sig_del: back to the caller, or to the loop of delall,
\* which only logs a failure.
DelReturn(r) == IF cur.op = "delall" THEN NextSignal("del") ELSE Return(r)

Entry(op) ==
  CASE op = "delall" -> "del"
    [] op = "ignoreall" -> "ignore"
    [] OTHER -> op

Invoke(op, s, h) ==
  /\ At("idle")
  /\ top > 1 => cur.op = "none" /\ op \in HandlerCalls
  /\ frame' = [frame EXCEPT ![top] =
       [pc |-> Entry(op), op |-> op, sig |-> s, h |-> h, ret |-> 0, saved |-> cur.saved]]
  /\ UNCHANGED <<top, kernelVars, tableVars, shadowVars, raised, historyVars>>

\* A call, with the arguments the operation takes; the loops start at 1.
Call ==
  \/ \E s \in Arg, h \in Handlers : Invoke("add", s, h)
  \/ \E op \in {"del", "block", "unblock"}, s \in Arg : Invoke(op, s, DFL)
  \/ \E op \in {"delall", "ignoreall"} : Invoke(op, 1, DFL)

HandlerReturn ==
  /\ At("idle")
  /\ top > 1
  /\ mask' = cur.saved
  /\ frame' = [frame EXCEPT ![top] = BlankFrame]
  /\ top' = top - 1
  /\ UNCHANGED <<disp, pending, alive, tableVars, shadowVars, raised, historyVars>>

-----------------------------------------------------------------------------
(***************************************************************************)
(* sigutil_ignore_all_sig                                                  *)
(***************************************************************************)
IgnoreAll ==
  /\ At("ignore")
  /\ IF cur.sig \in Uncatchable
       THEN UNCHANGED <<disp, pending, foreign>>
       ELSE Sigaction(cur.sig, IGN)
  /\ NextSignal("ignore")
  /\ UNCHANGED <<mask, alive, tableVars, shadowVars, raised, inherited>>

(***************************************************************************)
(* sigutil_sig_add                                                         *)
(***************************************************************************)

\* Mutant: only the first registration saves the old disposition.
SavedOldOnce(s) == IF inited[s] THEN oldsig[s] ELSE disp[s]

\* What the sigaction call of sigutil_sig_add stores as the old disposition.
SavedOld(s) == disp[s]

AddSigaction ==
  /\ At("add")
  /\ IF InRange(cur.sig) /\ cur.sig \notin Uncatchable
       THEN /\ oldsig' = [oldsig EXCEPT ![cur.sig] = SavedOld(cur.sig)]
            /\ Sigaction(cur.sig, cur.h)
            /\ Goto("addInited")
       ELSE /\ Return(-1)
            /\ UNCHANGED <<oldsig, disp, pending, foreign>>
  /\ UNCHANGED <<mask, alive, inited, shadowVars, raised, inherited>>

AddInited ==
  /\ At("addInited")
  /\ inited' = [inited EXCEPT ![cur.sig] = TRUE]
  /\ Return(0)
  /\ UNCHANGED <<kernelVars, oldsig, shadowVars, raised, historyVars>>

(***************************************************************************)
(* sigutil_sig_del, also the body of sigutil_sig_delall                    *)
(***************************************************************************)
DelCheck ==
  /\ At("del")
  /\ IF ~ InRange(cur.sig) THEN DelReturn(-1)
     ELSE IF ~ inited[cur.sig] THEN DelReturn(0)
     ELSE Goto("delSigaction")
  /\ UNCHANGED <<kernelVars, tableVars, shadowVars, raised, historyVars>>

DelSigaction ==
  /\ At("delSigaction")
  /\ IF cur.sig \in Uncatchable
       THEN DelReturn(-1) /\ UNCHANGED <<disp, pending, foreign>>
       ELSE Goto("delClear") /\ Sigaction(cur.sig, oldsig[cur.sig])
  /\ UNCHANGED <<mask, alive, tableVars, shadowVars, raised, inherited>>

\* Mutant: sigutil_sig_del leaves inited set.
DelClearForgotten ==
  /\ At("delClear")
  /\ DelReturn(0)
  /\ UNCHANGED <<kernelVars, tableVars, shadowVars, raised, historyVars>>

DelClear ==
  /\ At("delClear")
  /\ inited' = [inited EXCEPT ![cur.sig] = FALSE]
  /\ DelReturn(0)
  /\ UNCHANGED <<kernelVars, oldsig, shadowVars, raised, historyVars>>

(***************************************************************************)
(* sigutil_block_sig                                                       *)
(***************************************************************************)
\* Mutant: the range check lets NSIG through.
BlockCheckOffByOne ==
  /\ At("block")
  /\ IF cur.sig < 1 THEN Return(-1)
     ELSE Goto(IF maskInited THEN "blockAdd" ELSE "blockInit")
  /\ UNCHANGED <<kernelVars, tableVars, shadowVars, raised, historyVars>>

BlockCheck ==
  /\ At("block")
  /\ IF ~ InRange(cur.sig) THEN Return(-1)
     ELSE Goto(IF maskInited THEN "blockAdd" ELSE "blockInit")
  /\ UNCHANGED <<kernelVars, tableVars, shadowVars, raised, historyVars>>

BlockInit ==
  /\ At("blockInit")
  /\ promask' = {}
  /\ maskInited' = TRUE
  /\ Goto("blockAdd")
  /\ UNCHANGED <<kernelVars, tableVars, raised, historyVars>>

BlockAdd ==
  /\ At("blockAdd")
  /\ IF cur.sig \in promask THEN Return(0) ELSE Goto("blockMask")
  /\ promask' = promask \cup {cur.sig}
  /\ UNCHANGED <<kernelVars, tableVars, maskInited, raised, historyVars>>

\* Mutant: the mask is replaced by the one signal (SIG_SETMASK).
BlockMaskReplaced ==
  /\ At("blockMask")
  /\ mask' = {cur.sig} \ Uncatchable
  /\ Return(0)
  /\ UNCHANGED <<disp, pending, alive, tableVars, shadowVars, raised, historyVars>>

BlockMask ==
  /\ At("blockMask")
  /\ MaskBlock(promask)
  /\ Return(0)
  /\ UNCHANGED <<disp, pending, alive, tableVars, shadowVars, raised, historyVars>>

(***************************************************************************)
(* sigutil_unblock_sig.  The first system call unblocks the whole shadow   *)
(* set, not only the requested signal; the last one blocks the rest again. *)
(***************************************************************************)
UnblockAll ==
  /\ At("unblock")
  /\ IF ~ InRange(cur.sig) \/ ~ maskInited
       THEN Return(-1) /\ UNCHANGED mask
     ELSE IF cur.sig \notin promask
       THEN Return(0) /\ UNCHANGED mask
     ELSE Goto("unblockDel") /\ MaskUnblock(promask)
  /\ UNCHANGED <<disp, pending, alive, tableVars, shadowVars, raised, historyVars>>

UnblockDel ==
  /\ At("unblockDel")
  /\ promask' = promask \ {cur.sig}
  /\ Goto("unblockReblock")
  /\ UNCHANGED <<kernelVars, tableVars, maskInited, raised, historyVars>>

\* Mutant: the rest of the shadow set is not blocked again.
UnblockNoReblock ==
  /\ At("unblockReblock")
  /\ Return(0)
  /\ UNCHANGED <<kernelVars, tableVars, shadowVars, raised, historyVars>>

UnblockReblock ==
  /\ At("unblockReblock")
  /\ MaskBlock(promask)
  /\ Return(0)
  /\ UNCHANGED <<disp, pending, alive, tableVars, shadowVars, raised, historyVars>>

-----------------------------------------------------------------------------
Step ==
  \/ IgnoreAll
  \/ AddSigaction \/ AddInited
  \/ DelCheck \/ DelSigaction \/ DelClear
  \/ BlockCheck \/ BlockInit \/ BlockAdd \/ BlockMask
  \/ UnblockAll \/ UnblockDel \/ UnblockReblock

Next ==
  \/ \E s \in Sig : Raise(s)
  \/ \E s \in Sig : Deliver(s)
  \/ Call
  \/ HandlerReturn
  \/ Step

Spec == Init /\ [][Next]_vars

\* The process is scheduled, handlers return and the kernel delivers.
Fairness ==
  /\ WF_vars(Step)
  /\ WF_vars(HandlerReturn)
  /\ WF_vars(\E s \in Sig : Deliver(s))

FairSpec == Spec /\ Fairness

-----------------------------------------------------------------------------
(***************************************************************************)
(* Properties.                                                             *)
(***************************************************************************)

\* Type invariant.  Past its range check a call works on a real signal, so the
\* library never indexes g_oldsig outside 1..NSIG-1.
TypeOK ==
  /\ disp \in [Sig -> Dispositions]
  /\ mask \in SUBSET Catchable
  /\ pending \in SUBSET Sig
  /\ alive \in BOOLEAN
  /\ oldsig \in [Sig -> Dispositions]
  /\ inited \in [Sig -> BOOLEAN]
  /\ maskInited \in BOOLEAN
  /\ promask \in SUBSET Sig
  /\ frame \in [1 .. MaxDepth -> Frames]
  /\ top \in 1 .. MaxDepth
  /\ raised \in 0 .. MaxRaise
  /\ foreign \in [Sig -> {DFL, IGN}]
  /\ inherited \in SUBSET Catchable
  /\ \A d \in 1 .. MaxDepth :
       frame[d].pc \notin {"idle", "add", "del", "block", "unblock"} => frame[d].sig \in Sig

\* Because sigutil_sig_add fills sa_mask (fcp_signal.c:50), a handler is never
\* interrupted by another one, however many signals arrive while it runs and
\* whatever it deletes: the stack is at most the program and one handler.
HandlersDoNotNest == top <= 2

\* Frames between the registration in the kernel and inited = 1.
Registering(s) == \E d \in 1 .. top : frame[d].pc = "addInited" /\ frame[d].sig = s

\* A handler in force is never orphaned: either it was registered over another
\* handler (oldsig was overwritten), or the library still knows that it has to
\* restore and what it will restore is the last disposition in force that the
\* program had not registered, through every interleaving of adds, deletes,
\* ignore-alls and deletes made by handlers in the middle of them.
RestorePointKept ==
  \A s \in Sig :
    disp[s] \in Handlers /\ oldsig[s] \notin Handlers =>
      /\ inited[s] \/ Registering(s)
      /\ oldsig[s] = foreign[s]

\* The program runs its own code, no handler is active.
AtRest == top = 1 /\ frame[1].pc = "idle"

\* When sigutil_sig_delall returns, nothing is left registered, and the only
\* handlers still in force are those restored by deleting a second registration,
\* even though handlers deleted signals while the loop was running.
DelAllForgetsAll ==
  AtRest /\ frame[1].op = "delall" =>
    \A s \in Sig : ~ inited[s] /\ (disp[s] \in Handlers => oldsig[s] \in Handlers)

\* Between calls the kernel's mask is what the shadow set says: every signal
\* the library believes blocked is blocked, and nothing else is, apart from
\* what the process inherited; and the 0 of sigutil_block_sig or
\* sigutil_unblock_sig is the truth when the call returns: its signal is
\* blocked, or it is not unless it was inherited so.
MaskMatchesShadow ==
  AtRest =>
    /\ promask \ Uncatchable \subseteq mask
    /\ mask \subseteq inherited \cup promask
    /\ frame[1].ret = 0 /\ frame[1].op = "block" => frame[1].sig \in mask \cup Uncatchable
    /\ frame[1].ret = 0 /\ frame[1].op = "unblock" => frame[1].sig \notin mask \ inherited

\* Statements at which the shadow set and the kernel's mask may differ.
MaskWindow == {"blockMask", "unblockDel", "unblockReblock"}

\* The handler of a signal in the shadow set is started only while a call to
\* sigutil_block_sig or sigutil_unblock_sig is between its system calls.
DeliveryOnlyInWindow ==
  [][top' > top /\ (pending \ pending') \cap promask # {} => cur.pc \in MaskWindow]_vars

\* A call to the library returns unless a signal ends the process.
CallReturns == (frame[1].pc # "idle") ~> (frame[1].pc = "idle" \/ ~ alive)

-----------------------------------------------------------------------------
(***************************************************************************)
(* What the documentation promises and the code does not keep.             *)
(***************************************************************************)

\* README.md: sigutil_sig_del restores the way the signal was handled before
\* it was added, that is, no handler of this program, when the program has
\* deleted every signal.
DelRestoresOriginal ==
  AtRest /\ frame[1].op = "delall" => \A s \in Sig : disp[s] \notin Handlers

\* README.md: sigutil_unblock_sig unblocks one signal.  No handler starts for
\* another signal of the shadow set than the one being blocked or unblocked.
OnlyRequestedSignalUnblocked ==
  [][top' > top => (pending \ pending') \cap promask \subseteq {cur.sig}]_vars
============================================================================
