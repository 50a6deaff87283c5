--------------------------- MODULE SignalsProofs ---------------------------
(***************************************************************************)
(* Proofs about Signals, for every table size, every set of handlers and   *)
(* every number of signals.  Signal handlers may delete registrations, as  *)
(* example/testsignal.c does, and make no other call to the library.       *)
(***************************************************************************)
EXTENDS Signals, TLAPS

\* What a handler may call in everything proved here.
DeletingHandlers == HandlerCalls \subseteq {"del", "delall"}

DelPcs == {"del", "delSigaction", "delClear"}

(***************************************************************************)
(* The parts of the inductive invariant.                                   *)
(***************************************************************************)

\* A handler runs with everything blocked and only inside sigutil_sig_del.
StackInv ==
  /\ top \in {1, 2}
  /\ top = 2 => /\ mask = Catchable
                /\ frame[2].pc \in DelPcs \cup {"idle"}
                /\ frame[2].op \in {"none", "del", "delall"}

\* SIGKILL and SIGSTOP keep their default action and are never registered.
KernelInv == \A s \in Uncatchable : disp[s] = DFL /\ ~ inited[s]

\* The statement determines the operation, in the program's own frame.
CallInv ==
  LET f == frame[1] IN
  /\ f.pc = "ignore" => f.op = "ignoreall"
  /\ f.pc \in {"add", "addInited"} => f.op = "add"
  /\ f.pc \in DelPcs => f.op \in {"del", "delall"}
  /\ f.pc \in {"block", "blockInit", "blockAdd", "blockMask"} => f.op = "block"
  /\ f.pc \in {"unblock", "unblockDel", "unblockReblock"} => f.op = "unblock"

\* Where a call of sigutil_sig_add or sigutil_sig_del stands, and that a signal
\* whose handler is gone is remembered as the program found it.
RestoreInv ==
  /\ frame[1].pc = "addInited" => frame[1].sig \notin Uncatchable
  /\ \A s \in Sig : disp[s] \notin Handlers => foreign[s] = disp[s]
  /\ \A d \in 1 .. top : frame[d].pc = "delClear" =>
       LET s == frame[d].sig IN disp[s] \in Handlers => oldsig[s] \in Handlers

\* The loop of sigutil_sig_delall has cleared what it has passed.
DelAllInv ==
  frame[1].op = "delall" =>
    /\ frame[1].sig \in Sig
    /\ \A s \in Sig : frame[1].pc = "idle" \/ s < frame[1].sig => ~ inited[s]

\* The mask of the program's own code: the kernel saved it while a handler runs.
MainMask == IF top = 2 THEN frame[2].saved ELSE mask

MaskInv ==
  LET f == frame[1] IN
  /\ ~ maskInited => promask = {}
  /\ MainMask \subseteq inherited \cup promask
  /\ f.pc \notin MaskWindow => promask \ Uncatchable \subseteq MainMask
  /\ f.pc = "blockInit" => ~ maskInited
  /\ f.pc = "blockAdd" => maskInited
  /\ f.pc = "blockMask" => f.sig \in promask
  /\ f.pc \in {"unblockDel", "unblockReblock"} => MainMask \subseteq inherited
  /\ f.pc = "unblockReblock" => f.sig \notin promask
  /\ f.pc = "idle" /\ f.ret = 0 /\ f.op = "block" => f.sig \in promask
  /\ f.pc = "idle" /\ f.ret = 0 /\ f.op = "unblock" => f.sig \notin promask

IInv ==
  /\ TypeOK
  /\ StackInv
  /\ KernelInv
  /\ CallInv
  /\ RestoreInv
  /\ RestorePointKept
  /\ DelAllInv
  /\ MaskInv

-----------------------------------------------------------------------------
(***************************************************************************)
(* How the control operators change the stack.                             *)
(***************************************************************************)

\* The frame in use differs from what it was by its statement, result and
\* signal only; the others are untouched.
Advanced(p, s, r) ==
  /\ top' = top
  /\ frame' \in [1 .. MaxDepth -> Frames]
  /\ \A d \in 1 .. MaxDepth : d # top => frame'[d] = frame[d]
  /\ frame'[top].pc = p
  /\ frame'[top].sig = s
  /\ frame'[top].ret = r
  /\ frame'[top].op = frame[top].op
  /\ frame'[top].saved = frame[top].saved

LEMMA GotoAdvances ==
  ASSUME TypeOK, NEW p \in Pcs, Goto(p)
  PROVE  Advanced(p, frame[top].sig, frame[top].ret)
BY DEF Goto, Advanced, TypeOK, Frames

LEMMA ReturnAdvances ==
  ASSUME TypeOK, NEW r \in {0, -1}, Return(r)
  PROVE  Advanced("idle", frame[top].sig, r)
<1>1. frame \in [1 .. MaxDepth -> Frames] /\ top \in 1 .. MaxDepth
  BY DEF TypeOK
<1>2. "idle" \in Pcs
  BY DEF Pcs
<1>3. QED
  BY <1>1, <1>2 DEF Return, Advanced, Frames

LEMMA NextSignalAdvances ==
  ASSUME TypeOK, NEW p \in Pcs, NextSignal(p)
  PROVE  IF frame[top].sig + 1 < NSIG
           THEN Advanced(p, frame[top].sig + 1, frame[top].ret)
           ELSE Advanced("idle", frame[top].sig, 0)
<1>1. CASE frame[top].sig + 1 < NSIG
  <2>1. frame[top].sig + 1 \in Arg
    BY <1>1, TableAssumption DEF TypeOK, Frames, Arg
  <2> DEFINE n == frame[top].sig + 1
  <2>2. n \in Arg /\ top' = top
        /\ frame' = [frame EXCEPT ![top].pc = p, ![top].sig = n]
    BY <1>1, <2>1 DEF NextSignal, cur
  <2> HIDE DEF n
  <2>3. frame \in [1 .. MaxDepth -> Frames] /\ top \in 1 .. MaxDepth
    BY DEF TypeOK
  <2>4. Advanced(p, n, frame[top].ret)
    BY <2>2, <2>3 DEF Advanced, Frames
  <2>5. QED
    BY <1>1, <2>4 DEF n
<1>2. CASE ~ (frame[top].sig + 1 < NSIG)
  BY <1>2, ReturnAdvances DEF NextSignal, cur
<1>3. QED
  BY <1>1, <1>2

\* The stack's part of the type invariant.
StackTyped ==
  /\ frame \in [1 .. MaxDepth -> Frames]
  /\ top \in 1 .. MaxDepth
  /\ \A d \in 1 .. MaxDepth :
       frame[d].pc \notin {"idle", "add", "del", "block", "unblock"} => frame[d].sig \in Sig

\* The stack stays typed when the frame in use advances to a typed statement.
LEMMA AdvancedTyped ==
  ASSUME TypeOK, NEW p \in Pcs, NEW s, NEW r, Advanced(p, s, r),
         p \notin {"idle", "add", "del", "block", "unblock"} => s \in Sig
  PROVE  StackTyped'
BY DEF TypeOK, Advanced, StackTyped

\* sigaction keeps the kernel's tables and the history typed.
LEMMA SigactionTyped ==
  ASSUME TypeOK, NEW s \in Sig, NEW d \in Dispositions, Sigaction(s, d)
  PROVE  /\ disp' \in [Sig -> Dispositions]
         /\ pending' \in SUBSET Sig
         /\ foreign' \in [Sig -> {DFL, IGN}]
BY DEF TypeOK, Sigaction, Dispositions

\* The same for the two ways sigutil_sig_del goes on.
LEMMA DelReturnAdvances ==
  ASSUME TypeOK, NEW r \in {0, -1}, DelReturn(r)
  PROVE  \/ /\ frame[top].op = "delall"
            /\ frame[top].sig + 1 < NSIG
            /\ Advanced("del", frame[top].sig + 1, frame[top].ret)
         \/ /\ frame[top].op = "delall"
            /\ ~ (frame[top].sig + 1 < NSIG)
            /\ Advanced("idle", frame[top].sig, 0)
         \/ /\ frame[top].op # "delall"
            /\ Advanced("idle", frame[top].sig, r)
<1>1. "del" \in Pcs
  BY DEF Pcs
<1>2. CASE frame[top].op = "delall"
  BY <1>1, <1>2, NextSignalAdvances DEF DelReturn, cur
<1>3. CASE frame[top].op # "delall"
  BY <1>3, ReturnAdvances DEF DelReturn, cur
<1>4. QED
  BY <1>2, <1>3

LEMMA InRangeSig ==
  ASSUME NEW s \in Arg, InRange(s)
  PROVE  s \in Sig
BY TableAssumption DEF InRange, Arg, Sig

LEMMA CurTyped ==
  ASSUME TypeOK
  PROVE  /\ frame[top] \in Frames
         /\ frame[top].sig \in Arg
         /\ frame[top].ret \in {0, -1}
         /\ frame[top].pc \in Pcs
         /\ frame[top].saved \in SUBSET Catchable
BY DEF TypeOK, Frames

-----------------------------------------------------------------------------
(***************************************************************************)
(* Type correctness.                                                       *)
(***************************************************************************)

LEMMA TypeInit == Init => TypeOK
<1> SUFFICES ASSUME Init PROVE TypeOK
  OBVIOUS
<1>1. BlankFrame \in Frames
  BY TableAssumption DEF BlankFrame, Frames, Pcs, Arg
<1>2. disp \in [Sig -> Dispositions] /\ foreign \in [Sig -> {DFL, IGN}]
  <2>1. disp \in [Sig -> {DFL, IGN}] /\ foreign = disp
    BY DEF Init
  <2>2. {DFL, IGN} \subseteq Dispositions
    BY DEF Dispositions
  <2>3. QED
    BY <2>1, <2>2
<1>3. mask \in SUBSET Catchable /\ inherited \in SUBSET Catchable
  BY DEF Init
<1>4. frame \in [1 .. MaxDepth -> Frames] /\ top \in 1 .. MaxDepth
  BY <1>1, BoundAssumption DEF Init
<1>5. \A d \in 1 .. MaxDepth : frame[d].pc = "idle"
  BY DEF Init, BlankFrame
<1>6. oldsig \in [Sig -> Dispositions] /\ inited \in [Sig -> BOOLEAN]
  <2>1. oldsig = [s \in Sig |-> DFL] /\ inited = [s \in Sig |-> FALSE]
    BY DEF Init
  <2>2. DFL \in Dispositions
    BY DEF Dispositions
  <2>3. QED
    BY <2>1, <2>2
<1>7. /\ pending = {} /\ alive = TRUE /\ maskInited = FALSE
      /\ promask = {} /\ raised = 0
  BY DEF Init
<1>8. raised \in 0 .. MaxRaise
  BY <1>7, BoundAssumption
<1>9. QED
  BY <1>2, <1>3, <1>4, <1>5, <1>6, <1>7, <1>8 DEF TypeOK

LEMMA TypeStep == TypeOK /\ [Next]_vars => TypeOK'
<1> SUFFICES ASSUME TypeOK, [Next]_vars PROVE TypeOK'
  OBVIOUS
<1> USE CurTyped
<1>1. ASSUME NEW s \in Sig, Raise(s) PROVE TypeOK'
  <2>1. pending' \in SUBSET Sig /\ raised' \in 0 .. MaxRaise
    BY <1>1, BoundAssumption DEF Raise, TypeOK
  <2>2. QED
    BY <1>1, <2>1 DEF Raise, TypeOK, tableVars, shadowVars, stackVars, historyVars
<1>2. ASSUME NEW s \in Sig, RunHandler(s) PROVE TypeOK'
  <2>1. [BlankFrame EXCEPT !.saved = mask] \in Frames
    BY TableAssumption DEF TypeOK, BlankFrame, Frames, Pcs, Arg, Catchable
  <2>2. /\ frame' \in [1 .. MaxDepth -> Frames]
        /\ top' \in 1 .. MaxDepth
        /\ \A d \in 1 .. MaxDepth : frame'[d].pc = "idle" \/ frame'[d] = frame[d]
    BY <1>2, <2>1, BoundAssumption DEF RunHandler, TypeOK, BlankFrame
  <2>3. \A d \in 1 .. MaxDepth :
          frame'[d].pc \notin {"idle", "add", "del", "block", "unblock"} => frame'[d].sig \in Sig
    BY <2>2 DEF TypeOK
  <2>4. mask' \in SUBSET Catchable
    BY <1>2 DEF RunHandler, HandlerMask, TypeOK
  <2>5. QED
    BY <1>2, <2>2, <2>3, <2>4 DEF RunHandler, TypeOK, tableVars, shadowVars, historyVars
<1>3. ASSUME NEW s \in Sig, DefaultAction(s) PROVE TypeOK'
  <2>1. alive' \in BOOLEAN
    BY <1>3 DEF DefaultAction, Discards
  <2>2. QED
    BY <1>3, <2>1 DEF DefaultAction, TypeOK, tableVars, shadowVars, stackVars, historyVars
<1>4. ASSUME Call PROVE TypeOK'
  <2>1. PICK op \in Operations, s \in Arg, h \in Handlers \cup {DFL} :
          Invoke(op, s, h) /\ (op \in {"delall", "ignoreall"} => s = 1)
    BY <1>4, TableAssumption DEF Call, Operations, Arg
  <2>2. [pc |-> Entry(op), op |-> op, sig |-> s, h |-> h, ret |-> 0, saved |-> cur.saved]
          \in Frames
    BY DEF cur, Entry, Frames, Pcs, Operations
  <2>3. frame' \in [1 .. MaxDepth -> Frames]
    BY <2>1, <2>2 DEF Invoke, TypeOK
  <2>4. \A d \in 1 .. MaxDepth :
          frame'[d].pc \notin {"idle", "add", "del", "block", "unblock"} => frame'[d].sig \in Sig
    BY <2>1, TableAssumption DEF Invoke, Entry, TypeOK, Sig, Operations
  <2>5. QED
    BY <2>1, <2>3, <2>4 DEF Invoke, TypeOK, kernelVars, tableVars, shadowVars, historyVars
<1>5. ASSUME HandlerReturn PROVE TypeOK'
  <2>1. BlankFrame \in Frames /\ BlankFrame.pc = "idle"
    BY TableAssumption DEF BlankFrame, Frames, Pcs, Arg
  <2>2. /\ frame' \in [1 .. MaxDepth -> Frames]
        /\ top' \in 1 .. MaxDepth
        /\ \A d \in 1 .. MaxDepth : frame'[d].pc = "idle" \/ frame'[d] = frame[d]
    <3>1. top \in 1 .. MaxDepth /\ top > 1 /\ top' = top - 1
      BY <1>5 DEF HandlerReturn, TypeOK
    <3>2. frame' = [frame EXCEPT ![top] = BlankFrame] /\ frame \in [1 .. MaxDepth -> Frames]
      BY <1>5 DEF HandlerReturn, TypeOK
    <3>3. QED
      BY <3>1, <3>2, <2>1, BoundAssumption
  <2>3. mask' \in SUBSET Catchable
    BY <1>5 DEF HandlerReturn, cur
  <2>4. QED
    BY <1>5, <2>2, <2>3 DEF HandlerReturn, TypeOK, tableVars, shadowVars, historyVars
<1>6. ASSUME IgnoreAll PROVE TypeOK'
  <2>1. frame[top].pc = "ignore" /\ frame[top].sig \in Sig
    BY <1>6 DEF IgnoreAll, At, cur, TypeOK
  <2>2. /\ disp' \in [Sig -> Dispositions]
        /\ pending' \in SUBSET Sig
        /\ foreign' \in [Sig -> {DFL, IGN}]
    BY <1>6, <2>1, SigactionTyped DEF IgnoreAll, Dispositions, TypeOK, cur
  <2>3. NextSignal("ignore") /\ "ignore" \in Pcs /\ "idle" \in Pcs
    BY <1>6 DEF IgnoreAll, Pcs
  <2>4. frame[top].sig + 1 < NSIG => frame[top].sig + 1 \in Sig
    BY <2>1, TableAssumption DEF Sig
  <2>5. StackTyped'
    BY <2>3, <2>4, NextSignalAdvances, AdvancedTyped
  <2>6. QED
    BY <1>6, <2>2, <2>5 DEF IgnoreAll, TypeOK, StackTyped, tableVars, shadowVars
<1>7. ASSUME AddSigaction PROVE TypeOK'
  <2>1. frame[top].pc = "add"
    BY <1>7 DEF AddSigaction, At, cur
  <2>2. CASE InRange(frame[top].sig) /\ frame[top].sig \notin Uncatchable
    <3>1. frame[top].sig \in Sig
      BY <2>2, InRangeSig
    <3>2. frame[top].h \in Dispositions
      BY DEF Frames, Dispositions
    <3>3. oldsig' = [oldsig EXCEPT ![frame[top].sig] = disp[frame[top].sig]]
          /\ Sigaction(frame[top].sig, frame[top].h) /\ Goto("addInited")
      BY <1>7, <2>2 DEF AddSigaction, SavedOld, cur
    <3>4. oldsig' \in [Sig -> Dispositions]
      BY <3>1, <3>3 DEF TypeOK
    <3>5. StackTyped'
      BY <3>1, <3>3, GotoAdvances, AdvancedTyped DEF Pcs
    <3>6. QED
      BY <1>7, <3>1, <3>2, <3>3, <3>4, <3>5, SigactionTyped
      DEF AddSigaction, TypeOK, StackTyped, shadowVars
  <2>3. CASE ~ (InRange(frame[top].sig) /\ frame[top].sig \notin Uncatchable)
    <3>1. Return(-1) /\ UNCHANGED <<oldsig, disp, pending, foreign>>
      BY <1>7, <2>3 DEF AddSigaction, cur
    <3>2. StackTyped'
      BY <3>1, ReturnAdvances, AdvancedTyped DEF Pcs
    <3>3. QED
      BY <1>7, <3>1, <3>2 DEF AddSigaction, TypeOK, StackTyped, shadowVars
  <2>4. QED
    BY <2>2, <2>3
<1>8. ASSUME AddInited PROVE TypeOK'
  <2>1. frame[top].sig \in Sig /\ Return(0)
    BY <1>8 DEF AddInited, At, cur, TypeOK
  <2>2. inited' \in [Sig -> BOOLEAN]
    BY <1>8, <2>1 DEF AddInited, TypeOK, cur
  <2>3. StackTyped'
    BY <2>1, ReturnAdvances, AdvancedTyped DEF Pcs
  <2>4. QED
    BY <1>8, <2>2, <2>3 DEF AddInited, TypeOK, StackTyped, kernelVars, shadowVars, historyVars
<1>9. ASSUME NEW r \in {0, -1}, DelReturn(r) PROVE StackTyped'
  BY <1>9, DelReturnAdvances, AdvancedTyped DEF Pcs
<1>10. ASSUME DelCheck PROVE TypeOK'
  <2>1. CASE InRange(frame[top].sig) /\ inited[frame[top].sig]
    <3>1. frame[top].sig \in Sig
      BY <2>1, InRangeSig
    <3>2. Goto("delSigaction")
      BY <1>10, <2>1 DEF DelCheck, cur
    <3>3. StackTyped'
      BY <3>1, <3>2, GotoAdvances, AdvancedTyped DEF Pcs
    <3>4. QED
      BY <1>10, <3>3 DEF DelCheck, TypeOK, StackTyped, kernelVars, tableVars, shadowVars, historyVars
  <2>2. CASE ~ (InRange(frame[top].sig) /\ inited[frame[top].sig])
    <3>1. StackTyped'
      BY <1>10, <2>2, <1>9 DEF DelCheck, cur
    <3>2. QED
      BY <1>10, <3>1 DEF DelCheck, TypeOK, StackTyped, kernelVars, tableVars, shadowVars, historyVars
  <2>3. QED
    BY <2>1, <2>2
<1>11. ASSUME DelSigaction PROVE TypeOK'
  <2>1. frame[top].sig \in Sig
    BY <1>11 DEF DelSigaction, At, cur, TypeOK
  <2>2. oldsig[frame[top].sig] \in Dispositions
    BY <2>1 DEF TypeOK
  <2>3. CASE frame[top].sig \in Uncatchable
    <3>1. DelReturn(-1) /\ UNCHANGED <<disp, pending, foreign>>
      BY <1>11, <2>3 DEF DelSigaction, cur
    <3>2. StackTyped'
      BY <3>1, <1>9
    <3>3. QED
      BY <1>11, <3>1, <3>2 DEF DelSigaction, TypeOK, StackTyped, tableVars, shadowVars
  <2>4. CASE frame[top].sig \notin Uncatchable
    <3>1. Goto("delClear") /\ Sigaction(frame[top].sig, oldsig[frame[top].sig])
      BY <1>11, <2>4 DEF DelSigaction, cur
    <3>2. StackTyped'
      BY <2>1, <3>1, GotoAdvances, AdvancedTyped DEF Pcs
    <3>3. QED
      BY <1>11, <2>1, <2>2, <3>1, <3>2, SigactionTyped
      DEF DelSigaction, TypeOK, StackTyped, tableVars, shadowVars
  <2>5. QED
    BY <2>3, <2>4
<1>12. ASSUME DelClear PROVE TypeOK'
  <2>1. frame[top].sig \in Sig /\ DelReturn(0)
    BY <1>12 DEF DelClear, At, cur, TypeOK
  <2>2. inited' \in [Sig -> BOOLEAN]
    BY <1>12, <2>1 DEF DelClear, TypeOK, cur
  <2>3. StackTyped'
    BY <2>1, <1>9
  <2>4. QED
    BY <1>12, <2>2, <2>3 DEF DelClear, TypeOK, StackTyped, kernelVars, shadowVars, historyVars
<1>13. ASSUME BlockCheck PROVE TypeOK'
  <2>1. CASE InRange(frame[top].sig)
    <3>1. frame[top].sig \in Sig
      BY <2>1, InRangeSig
    <3>2. PICK p \in {"blockAdd", "blockInit"} : Goto(p)
      BY <1>13, <2>1 DEF BlockCheck, cur
    <3>3. StackTyped'
      BY <3>1, <3>2, GotoAdvances, AdvancedTyped DEF Pcs
    <3>4. QED
      BY <1>13, <3>3 DEF BlockCheck, TypeOK, StackTyped, kernelVars, tableVars, shadowVars, historyVars
  <2>2. CASE ~ InRange(frame[top].sig)
    <3>1. StackTyped'
      BY <1>13, <2>2, ReturnAdvances, AdvancedTyped DEF BlockCheck, cur, Pcs
    <3>2. QED
      BY <1>13, <3>1 DEF BlockCheck, TypeOK, StackTyped, kernelVars, tableVars, shadowVars, historyVars
  <2>3. QED
    BY <2>1, <2>2
<1>14. ASSUME BlockInit PROVE TypeOK'
  <2>1. frame[top].sig \in Sig /\ Goto("blockAdd")
    BY <1>14 DEF BlockInit, At, cur, TypeOK
  <2>2. StackTyped'
    BY <2>1, GotoAdvances, AdvancedTyped DEF Pcs
  <2>3. QED
    BY <1>14, <2>2 DEF BlockInit, TypeOK, StackTyped, kernelVars, tableVars, historyVars
<1>15. ASSUME BlockAdd PROVE TypeOK'
  <2>1. frame[top].sig \in Sig
    BY <1>15 DEF BlockAdd, At, cur, TypeOK
  <2>2. Return(0) \/ Goto("blockMask")
    BY <1>15 DEF BlockAdd
  <2>3. StackTyped'
    BY <2>1, <2>2, GotoAdvances, ReturnAdvances, AdvancedTyped DEF Pcs
  <2>4. promask' \in SUBSET Sig
    BY <1>15, <2>1 DEF BlockAdd, TypeOK, cur
  <2>5. QED
    BY <1>15, <2>3, <2>4 DEF BlockAdd, TypeOK, StackTyped, kernelVars, tableVars, historyVars
<1>16. ASSUME BlockMask PROVE TypeOK'
  <2>1. StackTyped'
    BY <1>16, ReturnAdvances, AdvancedTyped DEF BlockMask, Pcs
  <2>2. mask' \in SUBSET Catchable
    BY <1>16 DEF BlockMask, MaskBlock, TypeOK, Catchable
  <2>3. QED
    BY <1>16, <2>1, <2>2 DEF BlockMask, TypeOK, StackTyped, tableVars, shadowVars, historyVars
<1>17. ASSUME UnblockAll PROVE TypeOK'
  <2>1. mask' \in SUBSET Catchable
    BY <1>17 DEF UnblockAll, MaskUnblock, TypeOK
  <2>2. CASE InRange(frame[top].sig)
    <3>1. frame[top].sig \in Sig
      BY <2>2, InRangeSig
    <3>2. Return(-1) \/ Return(0) \/ Goto("unblockDel")
      BY <1>17 DEF UnblockAll
    <3>3. StackTyped'
      BY <3>1, <3>2, GotoAdvances, ReturnAdvances, AdvancedTyped DEF Pcs
    <3>4. QED
      BY <1>17, <2>1, <3>3 DEF UnblockAll, TypeOK, StackTyped, tableVars, shadowVars, historyVars
  <2>3. CASE ~ InRange(frame[top].sig)
    <3>1. StackTyped'
      BY <1>17, <2>3, ReturnAdvances, AdvancedTyped DEF UnblockAll, cur, Pcs
    <3>2. QED
      BY <1>17, <2>1, <3>1 DEF UnblockAll, TypeOK, StackTyped, tableVars, shadowVars, historyVars
  <2>4. QED
    BY <2>2, <2>3
<1>18. ASSUME UnblockDel PROVE TypeOK'
  <2>1. frame[top].sig \in Sig /\ Goto("unblockReblock")
    BY <1>18 DEF UnblockDel, At, cur, TypeOK
  <2>2. StackTyped'
    BY <2>1, GotoAdvances, AdvancedTyped DEF Pcs
  <2>3. QED
    BY <1>18, <2>2 DEF UnblockDel, TypeOK, StackTyped, kernelVars, tableVars, historyVars
<1>19. ASSUME UnblockReblock PROVE TypeOK'
  <2>1. StackTyped'
    BY <1>19, ReturnAdvances, AdvancedTyped DEF UnblockReblock, Pcs
  <2>2. mask' \in SUBSET Catchable
    BY <1>19 DEF UnblockReblock, MaskBlock, TypeOK, Catchable
  <2>3. QED
    BY <1>19, <2>1, <2>2 DEF UnblockReblock, TypeOK, StackTyped, tableVars, shadowVars, historyVars
<1>20. ASSUME UNCHANGED vars PROVE TypeOK'
  BY <1>20 DEF vars, TypeOK
<1>21. QED
  BY <1>1, <1>2, <1>3, <1>4, <1>5, <1>6, <1>7, <1>8, <1>10, <1>11, <1>12, <1>13, <1>14, <1>15,
     <1>16, <1>17, <1>18, <1>19, <1>20
  DEF Next, Step, Deliver

-----------------------------------------------------------------------------
(***************************************************************************)
(* The other parts of the invariant, one lemma per action.  Typing of the  *)
(* next state is TypeStep's and is assumed.                                *)
(***************************************************************************)

Parts == StackInv /\ KernelInv /\ CallInv /\ RestoreInv /\ RestorePointKept /\ DelAllInv /\ MaskInv

\* Only sigutil_sig_del and a handler's own code run on top of the program.
LEMMA ProgramOnTop ==
  ASSUME StackInv, frame[top].pc \notin DelPcs \cup {"idle"}
  PROVE  top = 1
BY DEF StackInv

LEMMA InitKeeps == Init => Parts
<1> SUFFICES ASSUME Init PROVE Parts
  OBVIOUS
<1>1. top = 1 /\ frame[1] = BlankFrame
  BY BoundAssumption DEF Init
<1>2. /\ \A s \in Sig : disp[s] \in {DFL, IGN} /\ foreign[s] = disp[s] /\ ~ inited[s]
      /\ \A s \in Uncatchable : disp[s] = DFL
  BY DEF Init
<1>3. promask = {} /\ ~ maskInited /\ inherited = mask
  BY DEF Init
<1>4. StackInv /\ CallInv /\ DelAllInv
  BY <1>1 DEF StackInv, CallInv, DelAllInv, BlankFrame, DelPcs
<1>5. KernelInv
  BY <1>2, SignalAssumption DEF KernelInv
<1>6. RestoreInv /\ RestorePointKept
  BY <1>1, <1>2, DispositionAssumption DEF RestoreInv, RestorePointKept, BlankFrame
<1>7. MaskInv
  BY <1>1, <1>3 DEF MaskInv, MainMask, BlankFrame
<1>8. QED
  BY <1>4, <1>5, <1>6, <1>7 DEF Parts

LEMMA BlockInitKeeps == TypeOK /\ Parts /\ BlockInit => Parts'
<1> SUFFICES ASSUME TypeOK, Parts, BlockInit PROVE Parts'
  OBVIOUS
<1> USE DEF Parts
<1>1. top = 1 /\ frame[1].pc = "blockInit"
  BY ProgramOnTop DEF BlockInit, At, cur, DelPcs
<1>2. Advanced("blockAdd", frame[1].sig, frame[1].ret)
  BY <1>1, GotoAdvances DEF BlockInit, Pcs
<1>3. UNCHANGED <<disp, mask, oldsig, inited, foreign, inherited>> /\ promask' = {} /\ maskInited' = TRUE
  BY DEF BlockInit, kernelVars, tableVars, historyVars
<1>4. StackInv' /\ CallInv'
  BY <1>1, <1>2 DEF StackInv, CallInv, Advanced, DelPcs
<1>5. KernelInv'
  BY <1>3 DEF KernelInv
<1>6. RestoreInv' /\ RestorePointKept'
  BY <1>1, <1>2, <1>3 DEF RestoreInv, RestorePointKept, Registering, Advanced
<1>7. DelAllInv'
  BY <1>1, <1>2, <1>3 DEF DelAllInv, CallInv, Advanced
<1>8. MaskInv'
  BY <1>1, <1>2, <1>3 DEF MaskInv, MainMask, MaskWindow, Advanced
<1>9. QED
  BY <1>4, <1>5, <1>6, <1>7, <1>8

LEMMA BlockCheckKeeps == TypeOK /\ Parts /\ BlockCheck => Parts'
<1> SUFFICES ASSUME TypeOK, Parts, BlockCheck PROVE Parts'
  OBVIOUS
<1> USE DEF Parts
<1>1. top = 1 /\ frame[1].pc = "block"
  BY ProgramOnTop DEF BlockCheck, At, cur, DelPcs
<1>2. \/ Advanced("idle", frame[1].sig, -1)
      \/ Advanced("blockAdd", frame[1].sig, frame[1].ret) /\ maskInited
      \/ Advanced("blockInit", frame[1].sig, frame[1].ret) /\ ~ maskInited
  BY <1>1, GotoAdvances, ReturnAdvances DEF BlockCheck, Pcs
<1>3. UNCHANGED <<disp, mask, oldsig, inited, foreign, inherited, promask, maskInited>>
  BY DEF BlockCheck, kernelVars, tableVars, historyVars, shadowVars
<1>4. StackInv' /\ CallInv'
  BY <1>1, <1>2 DEF StackInv, CallInv, Advanced, DelPcs
<1>5. KernelInv'
  BY <1>3 DEF KernelInv
<1>6. RestoreInv' /\ RestorePointKept'
  BY <1>1, <1>2, <1>3 DEF RestoreInv, RestorePointKept, Registering, Advanced
<1>7. DelAllInv'
  BY <1>1, <1>2, <1>3 DEF DelAllInv, CallInv, Advanced
<1>8. MaskInv'
  BY <1>1, <1>2, <1>3 DEF MaskInv, CallInv, MainMask, MaskWindow, Advanced
<1>9. QED
  BY <1>4, <1>5, <1>6, <1>7, <1>8

LEMMA BlockAddKeeps == TypeOK /\ Parts /\ BlockAdd => Parts'
<1> SUFFICES ASSUME TypeOK, Parts, BlockAdd PROVE Parts'
  OBVIOUS
<1> USE DEF Parts
<1>1. top = 1 /\ frame[1].pc = "blockAdd"
  BY ProgramOnTop DEF BlockAdd, At, cur, DelPcs
<1>2. \/ Advanced("idle", frame[1].sig, 0) /\ frame[1].sig \in promask
      \/ Advanced("blockMask", frame[1].sig, frame[1].ret)
  BY <1>1, GotoAdvances, ReturnAdvances DEF BlockAdd, cur, Pcs
<1>3. UNCHANGED <<disp, mask, oldsig, inited, foreign, inherited, maskInited>>
      /\ promask' = promask \cup {frame[1].sig}
  BY <1>1 DEF BlockAdd, kernelVars, tableVars, historyVars, cur
<1>4. StackInv' /\ CallInv'
  BY <1>1, <1>2 DEF StackInv, CallInv, Advanced, DelPcs
<1>5. KernelInv'
  BY <1>3 DEF KernelInv
<1>6. RestoreInv' /\ RestorePointKept'
  BY <1>1, <1>2, <1>3 DEF RestoreInv, RestorePointKept, Registering, Advanced
<1>7. DelAllInv'
  BY <1>1, <1>2, <1>3 DEF DelAllInv, CallInv, Advanced
<1>8. MaskInv'
  BY <1>1, <1>2, <1>3 DEF MaskInv, CallInv, MainMask, MaskWindow, Advanced
<1>9. QED
  BY <1>4, <1>5, <1>6, <1>7, <1>8

LEMMA BlockMaskKeeps == TypeOK /\ Parts /\ BlockMask => Parts'
<1> SUFFICES ASSUME TypeOK, Parts, BlockMask PROVE Parts'
  OBVIOUS
<1> USE DEF Parts
<1>1. top = 1 /\ frame[1].pc = "blockMask"
  BY ProgramOnTop DEF BlockMask, At, cur, DelPcs
<1>2. Advanced("idle", frame[1].sig, 0)
  BY <1>1, ReturnAdvances DEF BlockMask
<1>3. UNCHANGED <<disp, oldsig, inited, foreign, inherited, promask, maskInited>>
      /\ mask' = mask \cup (promask \ Uncatchable)
  BY DEF BlockMask, MaskBlock, tableVars, historyVars, shadowVars
<1>4. StackInv' /\ CallInv'
  BY <1>1, <1>2 DEF StackInv, CallInv, Advanced, DelPcs
<1>5. KernelInv'
  BY <1>3 DEF KernelInv
<1>6. RestoreInv' /\ RestorePointKept'
  BY <1>1, <1>2, <1>3 DEF RestoreInv, RestorePointKept, Registering, Advanced
<1>7. DelAllInv'
  BY <1>1, <1>2, <1>3 DEF DelAllInv, CallInv, Advanced
<1>8. MaskInv'
  BY <1>1, <1>2, <1>3 DEF MaskInv, CallInv, MainMask, MaskWindow, Advanced
<1>9. QED
  BY <1>4, <1>5, <1>6, <1>7, <1>8

LEMMA UnblockAllKeeps == TypeOK /\ Parts /\ UnblockAll => Parts'
<1> SUFFICES ASSUME TypeOK, Parts, UnblockAll PROVE Parts'
  OBVIOUS
<1> USE DEF Parts
<1>1. top = 1 /\ frame[1].pc = "unblock"
  BY ProgramOnTop DEF UnblockAll, At, cur, DelPcs
<1>2. \/ Advanced("idle", frame[1].sig, -1) /\ mask' = mask
      \/ Advanced("idle", frame[1].sig, 0) /\ mask' = mask /\ frame[1].sig \notin promask
      \/ /\ Advanced("unblockDel", frame[1].sig, frame[1].ret)
         /\ mask' = mask \ promask
         /\ maskInited
  BY <1>1, GotoAdvances, ReturnAdvances DEF UnblockAll, MaskUnblock, cur, Pcs
<1>3. UNCHANGED <<disp, oldsig, inited, foreign, inherited, promask, maskInited>>
  BY DEF UnblockAll, tableVars, historyVars, shadowVars
<1>4. StackInv' /\ CallInv'
  BY <1>1, <1>2 DEF StackInv, CallInv, Advanced, DelPcs
<1>5. KernelInv'
  BY <1>3 DEF KernelInv
<1>6. RestoreInv' /\ RestorePointKept'
  BY <1>1, <1>2, <1>3 DEF RestoreInv, RestorePointKept, Registering, Advanced
<1>7. DelAllInv'
  BY <1>1, <1>2, <1>3 DEF DelAllInv, CallInv, Advanced
<1>8. MaskInv'
  BY <1>1, <1>2, <1>3 DEF MaskInv, CallInv, MainMask, MaskWindow, Advanced
<1>9. QED
  BY <1>4, <1>5, <1>6, <1>7, <1>8

LEMMA UnblockDelKeeps == TypeOK /\ Parts /\ UnblockDel => Parts'
<1> SUFFICES ASSUME TypeOK, Parts, UnblockDel PROVE Parts'
  OBVIOUS
<1> USE DEF Parts
<1>1. top = 1 /\ frame[1].pc = "unblockDel"
  BY ProgramOnTop DEF UnblockDel, At, cur, DelPcs
<1>2. Advanced("unblockReblock", frame[1].sig, frame[1].ret)
  BY <1>1, GotoAdvances DEF UnblockDel, Pcs
<1>3. UNCHANGED <<disp, mask, oldsig, inited, foreign, inherited, maskInited>>
      /\ promask' = promask \ {frame[1].sig}
  BY <1>1 DEF UnblockDel, kernelVars, tableVars, historyVars, cur
<1>4. StackInv' /\ CallInv'
  BY <1>1, <1>2 DEF StackInv, CallInv, Advanced, DelPcs
<1>5. KernelInv'
  BY <1>3 DEF KernelInv
<1>6. RestoreInv' /\ RestorePointKept'
  BY <1>1, <1>2, <1>3 DEF RestoreInv, RestorePointKept, Registering, Advanced
<1>7. DelAllInv'
  BY <1>1, <1>2, <1>3 DEF DelAllInv, CallInv, Advanced
<1>8. MaskInv'
  BY <1>1, <1>2, <1>3 DEF MaskInv, CallInv, MainMask, MaskWindow, Advanced
<1>9. QED
  BY <1>4, <1>5, <1>6, <1>7, <1>8

LEMMA UnblockReblockKeeps == TypeOK /\ Parts /\ UnblockReblock => Parts'
<1> SUFFICES ASSUME TypeOK, Parts, UnblockReblock PROVE Parts'
  OBVIOUS
<1> USE DEF Parts
<1>1. top = 1 /\ frame[1].pc = "unblockReblock"
  BY ProgramOnTop DEF UnblockReblock, At, cur, DelPcs
<1>2. Advanced("idle", frame[1].sig, 0)
  BY <1>1, ReturnAdvances DEF UnblockReblock
<1>3. UNCHANGED <<disp, oldsig, inited, foreign, inherited, promask, maskInited>>
      /\ mask' = mask \cup (promask \ Uncatchable)
  BY DEF UnblockReblock, MaskBlock, tableVars, historyVars, shadowVars
<1>4. StackInv' /\ CallInv'
  BY <1>1, <1>2 DEF StackInv, CallInv, Advanced, DelPcs
<1>5. KernelInv'
  BY <1>3 DEF KernelInv
<1>6. RestoreInv' /\ RestorePointKept'
  BY <1>1, <1>2, <1>3 DEF RestoreInv, RestorePointKept, Registering, Advanced
<1>7. DelAllInv'
  BY <1>1, <1>2, <1>3 DEF DelAllInv, CallInv, Advanced
<1>8. MaskInv'
  BY <1>1, <1>2, <1>3 DEF MaskInv, CallInv, MainMask, MaskWindow, Advanced
<1>9. QED
  BY <1>4, <1>5, <1>6, <1>7, <1>8

\* Pointwise reading of sigaction.
LEMMA SigactionAt ==
  ASSUME TypeOK, NEW s \in Sig, NEW d \in Dispositions, Sigaction(s, d)
  PROVE  /\ \A t \in Sig : disp'[t] = IF t = s THEN d ELSE disp[t]
         /\ \A t \in Sig : foreign'[t] = IF t = s /\ d \notin Handlers THEN d ELSE foreign[t]
BY DEF TypeOK, Sigaction

LEMMA IgnoreAllKeeps ==
  ASSUME TypeOK, Parts, IgnoreAll
  PROVE  Parts'
<1> USE DEF Parts
<1>1. /\ top = 1 /\ frame[1].pc = "ignore" /\ frame[1].op = "ignoreall"
      /\ frame[1].sig \in Sig
  BY ProgramOnTop DEF IgnoreAll, At, cur, DelPcs, CallInv, TypeOK
<1>2. PICK p \in {"ignore", "idle"}, n \in Arg, r \in {0, -1} : Advanced(p, n, r)
  BY <1>1, NextSignalAdvances, CurTyped, TableAssumption DEF IgnoreAll, Pcs, Sig, Arg
<1>3. /\ UNCHANGED <<mask, oldsig, inited, inherited, promask, maskInited>>
      /\ \A s \in Sig :
           \/ disp'[s] = disp[s] /\ foreign'[s] = foreign[s]
           \/ disp'[s] = IGN /\ foreign'[s] = IGN /\ s \notin Uncatchable
  <2>1. CASE frame[1].sig \in Uncatchable
    BY <1>1, <2>1 DEF IgnoreAll, tableVars, shadowVars, cur
  <2>2. CASE frame[1].sig \notin Uncatchable
    <3>1. Sigaction(frame[1].sig, IGN) /\ IGN \in Dispositions /\ IGN \notin Handlers
      BY <1>1, <2>2, DispositionAssumption DEF IgnoreAll, cur, Dispositions
    <3>2. QED
      BY <1>1, <2>2, <3>1, SigactionAt DEF IgnoreAll, tableVars, shadowVars
  <2>3. QED
    BY <2>1, <2>2
<1>4. StackInv' /\ CallInv'
  BY <1>1, <1>2 DEF StackInv, CallInv, Advanced, DelPcs
<1>5. KernelInv'
  BY <1>3, SignalAssumption DEF KernelInv
<1>6. RestoreInv' /\ RestorePointKept'
  BY <1>1, <1>2, <1>3, DispositionAssumption
  DEF RestoreInv, RestorePointKept, Registering, Advanced
<1>7. DelAllInv'
  BY <1>1, <1>2, <1>3 DEF DelAllInv, Advanced
<1>8. MaskInv'
  BY <1>1, <1>2, <1>3 DEF MaskInv, MainMask, MaskWindow, Advanced
<1>9. QED
  BY <1>4, <1>5, <1>6, <1>7, <1>8

LEMMA AddSigactionKeeps ==
  ASSUME TypeOK, Parts, AddSigaction
  PROVE  Parts'
<1> USE DEF Parts
<1> DEFINE t == frame[1].sig
<1>1. top = 1 /\ frame[1].pc = "add" /\ frame[1].op = "add"
  BY ProgramOnTop DEF AddSigaction, At, cur, DelPcs, CallInv
<1>2. \/ Advanced("idle", t, -1)
      \/ Advanced("addInited", t, frame[1].ret)
  BY <1>1, GotoAdvances, ReturnAdvances DEF AddSigaction, Pcs
<1>3. UNCHANGED <<mask, inited, inherited, promask, maskInited>>
  BY DEF AddSigaction, shadowVars
<1>4. StackInv' /\ CallInv'
  BY <1>1, <1>2, <1>3 DEF StackInv, CallInv, Advanced, DelPcs
<1>5. DelAllInv' /\ MaskInv'
  BY <1>1, <1>2, <1>3 DEF DelAllInv, MaskInv, MainMask, MaskWindow, Advanced
<1>6. CASE InRange(t) /\ t \notin Uncatchable
  <2>1. t \in Sig /\ frame[1].h \in Dispositions
    BY <1>1, <1>6, InRangeSig, CurTyped DEF Frames, Dispositions
  <2>2. /\ oldsig' = [oldsig EXCEPT ![t] = disp[t]]
        /\ Sigaction(t, frame[1].h)
        /\ Goto("addInited")
    BY <1>1, <1>6 DEF AddSigaction, SavedOld, cur
  <2>3. Advanced("addInited", t, frame[1].ret)
    BY <1>1, <2>2, GotoAdvances DEF Pcs
  <2>4. /\ \A s \in Sig : oldsig'[s] = IF s = t THEN disp[s] ELSE oldsig[s]
        /\ \A s \in Sig : disp'[s] = IF s = t THEN frame[1].h ELSE disp[s]
        /\ \A s \in Sig : foreign'[s] = IF s = t /\ frame[1].h \notin Handlers
                                        THEN frame[1].h ELSE foreign[s]
    BY <2>1, <2>2, SigactionAt DEF TypeOK
  <2>5. KernelInv'
    BY <1>3, <1>6, <2>4, SignalAssumption DEF KernelInv
  <2>6. RestoreInv'
    BY <1>1, <1>6, <2>3, <2>4 DEF RestoreInv, Advanced
  <2>7. \E d \in 1 .. top' : frame'[d].pc = "addInited" /\ frame'[d].sig = t
    BY <1>1, <2>3 DEF Advanced
  <2>8. RestorePointKept'
    <3>1. SUFFICES ASSUME NEW s \in Sig, disp'[s] \in Handlers, oldsig'[s] \notin Handlers
                   PROVE  (inited'[s] \/ Registering(s)') /\ oldsig'[s] = foreign'[s]
      BY DEF RestorePointKept
    <3>2. CASE s = t
      <4>1. Registering(s)'
        BY <2>7, <3>2 DEF Registering
      <4>2. QED
        BY <2>4, <3>1, <3>2, <4>1 DEF RestoreInv
    <3>3. CASE s # t
      <4>1. ~ Registering(s)
        BY <1>1 DEF Registering
      <4>2. QED
        BY <1>3, <2>4, <3>1, <3>3, <4>1 DEF RestorePointKept
    <3>4. QED
      BY <3>2, <3>3
  <2>9. QED
    BY <1>4, <1>5, <2>5, <2>6, <2>8
<1>7. CASE ~ (InRange(t) /\ t \notin Uncatchable)
  <2>1. UNCHANGED <<oldsig, disp, foreign>> /\ Return(-1)
    BY <1>1, <1>7 DEF AddSigaction, cur
  <2>2. Advanced("idle", t, -1)
    BY <1>1, <2>1, ReturnAdvances
  <2>3. KernelInv'
    BY <1>3, <2>1 DEF KernelInv
  <2>4. RestoreInv' /\ RestorePointKept'
    BY <1>1, <1>3, <2>1, <2>2 DEF RestoreInv, RestorePointKept, Registering, Advanced
  <2>5. QED
    BY <1>4, <1>5, <2>3, <2>4
<1>8. QED
  BY <1>6, <1>7

LEMMA AddInitedKeeps ==
  ASSUME TypeOK, Parts, AddInited
  PROVE  Parts'
<1> USE DEF Parts
<1>1. /\ top = 1 /\ frame[1].pc = "addInited" /\ frame[1].op = "add"
      /\ frame[1].sig \in Catchable
  BY ProgramOnTop DEF AddInited, At, cur, DelPcs, CallInv, RestoreInv, TypeOK, Catchable
<1>2. Advanced("idle", frame[1].sig, 0)
  BY <1>1, ReturnAdvances DEF AddInited
<1>3. /\ UNCHANGED <<disp, mask, oldsig, foreign, inherited, promask, maskInited>>
      /\ \A s \in Sig : inited'[s] <=> s = frame[1].sig \/ inited[s]
  BY <1>1 DEF AddInited, kernelVars, shadowVars, historyVars, cur, TypeOK
<1>4. StackInv' /\ CallInv'
  BY <1>1, <1>2, <1>3 DEF StackInv, CallInv, Advanced, DelPcs
<1>5. KernelInv'
  BY <1>1, <1>3, SignalAssumption DEF KernelInv, Catchable
<1>6. RestoreInv'
  BY <1>1, <1>2, <1>3 DEF RestoreInv, Advanced
<1>7. RestorePointKept'
  BY <1>1, <1>3 DEF RestorePointKept, Registering
<1>8. DelAllInv' /\ MaskInv'
  BY <1>1, <1>2, <1>3 DEF DelAllInv, MaskInv, MainMask, MaskWindow, Advanced
<1>9. QED
  BY <1>4, <1>5, <1>6, <1>7, <1>8

LEMMA RaiseKeeps ==
  ASSUME Parts, NEW s \in Sig, Raise(s)
  PROVE  Parts'
BY DEF Raise, Parts, StackInv, KernelInv, CallInv, RestoreInv, RestorePointKept, Registering,
       DelAllInv, MaskInv, MainMask, tableVars, shadowVars, stackVars, historyVars

LEMMA DefaultActionKeeps ==
  ASSUME Parts, NEW s \in Sig, DefaultAction(s)
  PROVE  Parts'
BY DEF DefaultAction, Parts, StackInv, KernelInv, CallInv, RestoreInv, RestorePointKept,
       Registering, DelAllInv, MaskInv, MainMask, tableVars, shadowVars, stackVars, historyVars

\* With a handler on the stack everything that can have a handler is blocked.
LEMMA RunHandlerOnProgram ==
  ASSUME TypeOK, Parts, NEW s \in Sig, RunHandler(s)
  PROVE  top = 1 /\ s \in pending \ mask /\ s \notin Uncatchable
<1>1. s \in pending \ mask /\ disp[s] \in Handlers
  BY DEF RunHandler, Deliverable
<1>2. s \notin Uncatchable
  BY <1>1, DispositionAssumption DEF Parts, KernelInv
<1>3. top = 1
  BY <1>1, <1>2 DEF Parts, StackInv, Catchable
<1>4. QED
  BY <1>1, <1>2, <1>3

LEMMA RunHandlerKeeps ==
  ASSUME TypeOK, Parts, NEW s \in Sig, RunHandler(s)
  PROVE  Parts'
<1> USE DEF Parts
<1>1. top = 1
  BY RunHandlerOnProgram
<1>2. /\ top' = 2 /\ mask' = mask \cup Catchable
      /\ frame' = [frame EXCEPT ![2] = [BlankFrame EXCEPT !.saved = mask]]
      /\ UNCHANGED <<disp, oldsig, inited, promask, maskInited, foreign, inherited>>
  BY <1>1 DEF RunHandler, HandlerMask, tableVars, shadowVars, historyVars
<1>3. /\ frame'[1] = frame[1]
      /\ frame'[2].pc = "idle" /\ frame'[2].op = "none" /\ frame'[2].saved = mask
  BY <1>2, BoundAssumption DEF TypeOK, BlankFrame
<1>4. StackInv'
  BY <1>2, <1>3 DEF StackInv, TypeOK
<1>5. KernelInv' /\ CallInv' /\ DelAllInv'
  BY <1>2, <1>3 DEF KernelInv, CallInv, DelAllInv
<1>6. RestoreInv' /\ RestorePointKept'
  BY <1>1, <1>2, <1>3 DEF RestoreInv, RestorePointKept, Registering
<1>7. MaskInv'
  BY <1>1, <1>2, <1>3 DEF MaskInv, MainMask
<1>8. QED
  BY <1>4, <1>5, <1>6, <1>7

LEMMA HandlerReturnKeeps ==
  ASSUME TypeOK, Parts, HandlerReturn
  PROVE  Parts'
<1> USE DEF Parts
<1>1. top = 2 /\ frame[2].pc = "idle"
  BY DEF HandlerReturn, StackInv, At, cur
<1>2. /\ top' = 1 /\ mask' = frame[2].saved
      /\ UNCHANGED <<disp, oldsig, inited, promask, maskInited, foreign, inherited>>
  BY <1>1 DEF HandlerReturn, cur, tableVars, shadowVars, historyVars
<1>3. frame'[1] = frame[1]
  BY <1>1, BoundAssumption DEF HandlerReturn, TypeOK
<1>4. StackInv' /\ KernelInv' /\ CallInv' /\ DelAllInv'
  BY <1>2, <1>3 DEF StackInv, KernelInv, CallInv, DelAllInv
<1>5. RestoreInv' /\ RestorePointKept'
  BY <1>1, <1>2, <1>3 DEF RestoreInv, RestorePointKept, Registering
<1>6. MaskInv'
  BY <1>1, <1>2, <1>3 DEF MaskInv, MainMask
<1>7. QED
  BY <1>4, <1>5, <1>6

LEMMA CallKeeps ==
  ASSUME TypeOK, Parts, Call, DeletingHandlers
  PROVE  Parts'
<1> USE DEF Parts
<1>1. PICK op \in Operations, s \in Arg, h \in Handlers \cup {DFL} :
        Invoke(op, s, h) /\ (op = "delall" => s = 1)
  BY TableAssumption DEF Call, Operations, Arg, Sig
<1>2. /\ top' = top
      /\ UNCHANGED <<disp, mask, oldsig, inited, promask, maskInited, foreign, inherited>>
      /\ frame[top].pc = "idle"
      /\ top = 2 => op \in {"del", "delall"}
  BY <1>1 DEF Invoke, At, cur, kernelVars, tableVars, shadowVars, historyVars, DeletingHandlers
<1>3. /\ \A d \in 1 .. MaxDepth : d # top => frame'[d] = frame[d]
      /\ frame'[top].pc = Entry(op) /\ frame'[top].op = op /\ frame'[top].sig = s
      /\ frame'[top].saved = frame[top].saved /\ frame'[top].pc # "idle"
  BY <1>1 DEF Invoke, TypeOK, cur, Entry, Operations
<1>4. /\ op = "delall" => Entry(op) = "del"
      /\ op = "ignoreall" => Entry(op) = "ignore"
      /\ op \notin {"delall", "ignoreall"} => Entry(op) = op
  BY DEF Entry
<1>5. top \in 1 .. MaxDepth /\ top \in {1, 2} /\ 1 \in 1 .. MaxDepth
  BY BoundAssumption DEF TypeOK, StackInv
<1>6. StackInv'
  BY <1>2, <1>3, <1>4, <1>5 DEF StackInv, DelPcs
<1>7. CallInv'
  BY <1>3, <1>4, <1>5 DEF CallInv, DelPcs, Operations
<1>8. KernelInv'
  BY <1>2 DEF KernelInv
<1>9. RestoreInv' /\ RestorePointKept'
  BY <1>2, <1>3, <1>4, <1>5 DEF RestoreInv, RestorePointKept, Registering, Operations
<1>10. DelAllInv'
  BY <1>1, <1>2, <1>3, <1>4, <1>5, TableAssumption DEF DelAllInv, Sig
<1>11. MaskInv'
  BY <1>2, <1>3, <1>4, <1>5 DEF MaskInv, MainMask, MaskWindow, Operations
<1>12. QED
  BY <1>6, <1>7, <1>8, <1>9, <1>10, <1>11

(***************************************************************************)
(* sigutil_sig_del runs in the program or in a handler.                    *)
(***************************************************************************)

\* What a step inside sigutil_sig_del keeps whatever it does to the tables, as
\* long as it leaves the masks alone and moves to p inside the function or out.
LEMMA DelMoves ==
  ASSUME TypeOK, Parts, frame[top].pc \in DelPcs,
         NEW p \in DelPcs \cup {"idle"}, NEW n, NEW r, Advanced(p, n, r),
         UNCHANGED <<mask, promask, maskInited, inherited>>
  PROVE  StackInv' /\ CallInv' /\ MaskInv'
<1> USE DEF Parts
<1>1. CASE top = 1
  <2>1. StackInv' /\ CallInv'
    BY <1>1 DEF StackInv, CallInv, Advanced, DelPcs
  <2>2. MaskInv'
    BY <1>1 DEF MaskInv, MainMask, MaskWindow, CallInv, Advanced, DelPcs
  <2>3. QED
    BY <2>1, <2>2
<1>2. CASE top = 2
  <2>1. frame'[1] = frame[1] /\ top' = 2 /\ 2 \in 1 .. MaxDepth
    BY <1>2, BoundAssumption DEF Advanced
  <2>2. StackInv'
    BY <1>2, <2>1 DEF StackInv, Advanced
  <2>3. CallInv' /\ MaskInv'
    BY <1>2, <2>1 DEF CallInv, MaskInv, MainMask, Advanced
  <2>4. QED
    BY <2>2, <2>3
<1>3. QED
  BY <1>1, <1>2 DEF StackInv

\* The loop of sigutil_sig_delall moves on only past a signal that is cleared.
LEMMA DelReturnKeepsLoop ==
  ASSUME TypeOK, Parts, frame[top].pc \in DelPcs, NEW r \in {0, -1}, DelReturn(r),
         \A s \in Sig : inited'[s] => inited[s],
         frame[top].sig \in Sig => ~ inited'[frame[top].sig]
  PROVE  DelAllInv'
<1> USE DEF Parts
<1>1. CASE top = 1
  <2>1. SUFFICES ASSUME frame'[1].op = "delall" PROVE DelAllInv'
    BY DEF DelAllInv
  <2>2. frame[1].op = "delall" /\ frame[1].sig \in Sig
    BY <1>1, <2>1, DelReturnAdvances DEF Advanced, DelAllInv
  <2>3. CASE frame[1].sig + 1 < NSIG
    <3>1. Advanced("del", frame[1].sig + 1, frame[1].ret)
      BY <1>1, <2>2, <2>3, DelReturnAdvances
    <3>2. frame'[1].pc = "del" /\ frame'[1].sig = frame[1].sig + 1
      BY <1>1, <3>1 DEF Advanced
    <3>3. frame'[1].sig \in Sig
      BY <2>2, <2>3, <3>2, TableAssumption DEF Sig
    <3>4. \A s \in Sig : s < frame'[1].sig => s < frame[1].sig \/ s = frame[1].sig
      BY <2>2, <3>2, TableAssumption DEF Sig
    <3>5. QED
      BY <1>1, <2>2, <3>2, <3>3, <3>4 DEF DelAllInv
  <2>4. CASE ~ (frame[1].sig + 1 < NSIG)
    <3>1. Advanced("idle", frame[1].sig, 0)
      BY <1>1, <2>2, <2>4, DelReturnAdvances
    <3>2. \A s \in Sig : s < frame[1].sig \/ s = frame[1].sig
      BY <2>2, <2>4, TableAssumption DEF Sig
    <3>3. QED
      BY <1>1, <2>2, <3>1, <3>2 DEF DelAllInv, Advanced
  <2>5. QED
    BY <2>3, <2>4
<1>2. CASE top = 2
  <2>1. frame'[1] = frame[1]
    BY <1>2, BoundAssumption, DelReturnAdvances DEF Advanced
  <2>2. QED
    BY <2>1 DEF DelAllInv
<1>3. QED
  BY <1>1, <1>2 DEF StackInv

\* Inside one iteration the loop of sigutil_sig_delall keeps what it cleared.
LEMMA DelGoesOn ==
  ASSUME TypeOK, Parts, frame[top].pc \in DelPcs, UNCHANGED inited,
         NEW p \in DelPcs, NEW r, Advanced(p, frame[top].sig, r)
  PROVE  DelAllInv'
<1>1. CASE top = 1
  BY <1>1 DEF Parts, DelAllInv, Advanced, DelPcs
<1>2. CASE top = 2
  <2>1. frame'[1] = frame[1]
    BY <1>2, BoundAssumption DEF Advanced
  <2>2. QED
    BY <2>1 DEF Parts, DelAllInv
<1>3. QED
  BY <1>1, <1>2 DEF Parts, StackInv

LEMMA DelReturnMoves ==
  ASSUME TypeOK, NEW r \in {0, -1}, DelReturn(r)
  PROVE  \E p \in {"del", "idle"}, n \in Arg, q \in {0, -1} : Advanced(p, n, q)
<1>1. frame[top].sig \in Arg /\ frame[top].ret \in {0, -1}
  BY CurTyped
<1>2. frame[top].sig + 1 < NSIG => frame[top].sig + 1 \in Arg
  BY <1>1, TableAssumption DEF Arg
<1>3. QED
  BY <1>1, <1>2, DelReturnAdvances

\* The frames as the invariants about registrations see them.
LEMMA DelFrames ==
  ASSUME TypeOK, Parts, frame[top].pc \in DelPcs,
         NEW p \in DelPcs \cup {"idle"}, NEW n, NEW r, Advanced(p, n, r)
  PROVE  /\ top' = top
         /\ \A s \in Sig : Registering(s)' <=> Registering(s)
         /\ frame'[1].pc = "addInited" => frame'[1] = frame[1]
         /\ \A d \in 1 .. top :
              frame'[d].pc = "delClear" =>
                \/ p = "delClear" /\ frame'[d].sig = n
                \/ frame[d].pc = "delClear" /\ frame'[d] = frame[d]
<1>1. /\ top' = top /\ top \in {1, 2}
      /\ frame'[top].pc = p /\ frame'[top].sig = n
      /\ top = 2 => frame'[1] = frame[1]
  BY BoundAssumption DEF Advanced, Parts, StackInv
<1>2. CASE top = 1
  BY <1>1, <1>2 DEF Registering, DelPcs
<1>3. CASE top = 2
  BY <1>1, <1>3 DEF Registering, DelPcs
<1>4. QED
  BY <1>1, <1>2, <1>3

LEMMA DelCheckKeeps ==
  ASSUME TypeOK, Parts, DelCheck
  PROVE  Parts'
<1> USE DEF Parts
<1>1. /\ frame[top].pc = "del"
      /\ UNCHANGED <<disp, mask, oldsig, inited, promask, maskInited, foreign, inherited>>
  BY DEF DelCheck, At, cur, kernelVars, tableVars, shadowVars, historyVars
<1>2. KernelInv'
  BY <1>1 DEF KernelInv
<1>3. ASSUME NEW p \in {"del", "idle", "delSigaction"}, NEW n, NEW q, Advanced(p, n, q)
      PROVE  StackInv' /\ CallInv' /\ MaskInv' /\ RestoreInv' /\ RestorePointKept'
  <2>1. StackInv' /\ CallInv' /\ MaskInv'
    BY <1>1, <1>3, DelMoves DEF DelPcs
  <2>2. RestoreInv' /\ RestorePointKept'
    BY <1>1, <1>3, DelFrames DEF RestoreInv, RestorePointKept, DelPcs
  <2>3. QED
    BY <2>1, <2>2
<1>4. CASE InRange(frame[top].sig) /\ inited[frame[top].sig]
  <2>1. Advanced("delSigaction", frame[top].sig, frame[top].ret)
    BY <1>4, GotoAdvances DEF DelCheck, cur, Pcs
  <2>2. DelAllInv'
    BY <1>1, <2>1, DelGoesOn DEF DelPcs
  <2>3. QED
    BY <1>2, <1>3, <2>1, <2>2
<1>5. CASE ~ (InRange(frame[top].sig) /\ inited[frame[top].sig])
  <2>1. PICK r \in {0, -1} : DelReturn(r)
    BY <1>5 DEF DelCheck, cur
  <2>2. frame[top].sig \in Sig => ~ inited'[frame[top].sig]
    BY <1>1, <1>5, TableAssumption DEF InRange, Sig
  <2>3. DelAllInv'
    BY <1>1, <2>1, <2>2, DelReturnKeepsLoop DEF DelPcs
  <2>4. QED
    BY <1>2, <1>3, <2>1, <2>3, DelReturnMoves
<1>6. QED
  BY <1>4, <1>5

LEMMA DelSigactionKeeps ==
  ASSUME TypeOK, Parts, DelSigaction
  PROVE  Parts'
<1> USE DEF Parts
<1> DEFINE t == frame[top].sig
<1>1. /\ frame[top].pc = "delSigaction" /\ t \in Sig
      /\ UNCHANGED <<mask, oldsig, inited, promask, maskInited, inherited>>
  BY DEF DelSigaction, At, cur, tableVars, shadowVars, TypeOK
<1>2. CASE t \in Uncatchable
  <2>1. DelReturn(-1) /\ UNCHANGED <<disp, foreign>>
    BY <1>2 DEF DelSigaction, cur
  <2>2. PICK p \in {"del", "idle"}, n \in Arg, q \in {0, -1} : Advanced(p, n, q)
    BY <2>1, DelReturnMoves
  <2>3. StackInv' /\ CallInv' /\ MaskInv'
    BY <1>1, <2>2, DelMoves DEF DelPcs
  <2>4. DelAllInv'
    BY <1>1, <1>2, <2>1, DelReturnKeepsLoop DEF DelPcs, KernelInv
  <2>5. KernelInv'
    BY <1>1, <2>1 DEF KernelInv
  <2>6. RestoreInv' /\ RestorePointKept'
    BY <1>1, <2>1, <2>2, DelFrames DEF RestoreInv, RestorePointKept, DelPcs
  <2>7. QED
    BY <2>3, <2>4, <2>5, <2>6
<1>3. CASE t \notin Uncatchable
  <2>1. Goto("delClear") /\ Sigaction(t, oldsig[t]) /\ oldsig[t] \in Dispositions
    BY <1>1, <1>3 DEF DelSigaction, cur, TypeOK
  <2>2. Advanced("delClear", t, frame[top].ret)
    BY <2>1, GotoAdvances DEF Pcs
  <2>3. /\ \A s \in Sig : disp'[s] = IF s = t THEN oldsig[t] ELSE disp[s]
        /\ \A s \in Sig : foreign'[s] = IF s = t /\ oldsig[t] \notin Handlers
                                        THEN oldsig[t] ELSE foreign[s]
    BY <1>1, <2>1, SigactionAt
  <2>4. StackInv' /\ CallInv' /\ MaskInv'
    BY <1>1, <2>2, DelMoves DEF DelPcs
  <2>5. DelAllInv'
    BY <1>1, <2>2, DelGoesOn DEF DelPcs
  <2>6. KernelInv'
    BY <1>1, <1>3, <2>3, SignalAssumption DEF KernelInv
  <2>7. RestorePointKept'
    BY <1>1, <2>2, <2>3, DelFrames DEF RestorePointKept, DelPcs
  <2>8. RestoreInv'
    <3>1. \A s \in Sig : disp'[s] \notin Handlers => foreign'[s] = disp'[s]
      BY <2>3 DEF RestoreInv
    <3>2. \A d \in 1 .. top : frame[d].pc = "delClear" => frame[d].sig \in Sig
      BY BoundAssumption DEF TypeOK
    <3>3. \A s \in Sig : (disp[s] \in Handlers => oldsig[s] \in Handlers)
                       => (disp'[s] \in Handlers => oldsig'[s] \in Handlers)
      BY <1>1, <2>3
    <3>4. disp'[t] \in Handlers => oldsig'[t] \in Handlers
      BY <1>1, <2>3
    <3>5. /\ top' = top
          /\ frame'[1].pc = "addInited" => frame'[1] = frame[1]
          /\ \A d \in 1 .. top :
               frame'[d].pc = "delClear" =>
                 frame'[d].sig = t \/ (frame[d].pc = "delClear" /\ frame'[d] = frame[d])
      BY <1>1, <2>2, DelFrames DEF DelPcs
    <3>6. ASSUME NEW d \in 1 .. top, frame'[d].pc = "delClear",
                 disp'[frame'[d].sig] \in Handlers
          PROVE  oldsig'[frame'[d].sig] \in Handlers
      BY <3>2, <3>3, <3>4, <3>5, <3>6 DEF RestoreInv
    <3>7. QED
      BY <3>1, <3>5, <3>6 DEF RestoreInv
  <2>9. QED
    BY <2>4, <2>5, <2>6, <2>7, <2>8
<1>4. QED
  BY <1>2, <1>3

LEMMA DelClearKeeps ==
  ASSUME TypeOK, Parts, DelClear
  PROVE  Parts'
<1> USE DEF Parts
<1> DEFINE t == frame[top].sig
<1>1. /\ frame[top].pc = "delClear" /\ t \in Sig
      /\ UNCHANGED <<disp, mask, oldsig, promask, maskInited, foreign, inherited>>
      /\ DelReturn(0)
  BY DEF DelClear, At, cur, kernelVars, shadowVars, historyVars, TypeOK
<1>2. \A s \in Sig : inited'[s] <=> inited[s] /\ s # t
  BY <1>1 DEF DelClear, cur, TypeOK
<1>3. PICK p \in {"del", "idle"}, n \in Arg, q \in {0, -1} : Advanced(p, n, q)
  BY <1>1, DelReturnMoves
<1>4. StackInv' /\ CallInv' /\ MaskInv'
  BY <1>1, <1>3, DelMoves DEF DelPcs
<1>5. DelAllInv'
  BY <1>1, <1>2, DelReturnKeepsLoop DEF DelPcs
<1>6. KernelInv'
  BY <1>1, <1>2, SignalAssumption DEF KernelInv
<1>7. RestoreInv'
  BY <1>1, <1>3, DelFrames DEF RestoreInv, DelPcs
<1>8. disp[t] \in Handlers => oldsig[t] \in Handlers
  BY <1>1 DEF RestoreInv, StackInv
<1>9. RestorePointKept'
  BY <1>1, <1>2, <1>3, <1>8, DelFrames DEF RestorePointKept, DelPcs
<1>10. QED
  BY <1>4, <1>5, <1>6, <1>7, <1>9

-----------------------------------------------------------------------------
(***************************************************************************)
(* The invariant holds, and what follows from it.                          *)
(***************************************************************************)

LEMMA PartsStep ==
  ASSUME DeletingHandlers, TypeOK, Parts, [Next]_vars
  PROVE  Parts'
<1>1. CASE UNCHANGED vars
  BY <1>1 DEF vars, Parts, StackInv, KernelInv, CallInv, RestoreInv, RestorePointKept,
              Registering, DelAllInv, MaskInv, MainMask
<1>2. CASE \E s \in Sig : Raise(s)
  BY <1>2, RaiseKeeps
<1>3. CASE \E s \in Sig : Deliver(s)
  BY <1>3, RunHandlerKeeps, DefaultActionKeeps DEF Deliver
<1>4. CASE Call
  BY <1>4, CallKeeps
<1>5. CASE HandlerReturn
  BY <1>5, HandlerReturnKeeps
<1>6. CASE Step
  BY <1>6, IgnoreAllKeeps, AddSigactionKeeps, AddInitedKeeps, DelCheckKeeps, DelSigactionKeeps,
     DelClearKeeps, BlockCheckKeeps, BlockInitKeeps, BlockAddKeeps, BlockMaskKeeps,
     UnblockAllKeeps, UnblockDelKeeps, UnblockReblockKeeps
  DEF Step
<1>7. QED
  BY <1>1, <1>2, <1>3, <1>4, <1>5, <1>6 DEF Next

\* Every variable keeps its type and no call past its range check works on a
\* number that is not a signal, whatever the handlers call.
THEOREM TypeCorrect == Spec => []TypeOK
<1>1. Init => TypeOK
  BY TypeInit
<1>2. TypeOK /\ [Next]_vars => TypeOK'
  BY TypeStep
<1>3. QED
  BY <1>1, <1>2, PTL DEF Spec

LEMMA Invariance == ASSUME DeletingHandlers PROVE Spec => []IInv
<1>1. IInv <=> TypeOK /\ Parts
  BY DEF IInv, Parts
<1>2. Init => TypeOK /\ Parts
  BY TypeInit, InitKeeps
<1>3. TypeOK /\ Parts /\ [Next]_vars => TypeOK' /\ Parts'
  BY DeletingHandlers, TypeStep, PartsStep
<1>4. QED
  BY <1>1, <1>2, <1>3, PTL DEF Spec

\* A signal handler is never interrupted by another one (HandlersDoNotNest),
\* for any number of signals raised: sigutil_sig_add fills sa_mask, and a
\* handler that only deletes registrations never opens the mask again.
THEOREM NoNesting == ASSUME DeletingHandlers PROVE Spec => []HandlersDoNotNest
<1>1. IInv => HandlersDoNotNest
  BY DEF IInv, StackInv, HandlersDoNotNest
<1>2. QED
  BY <1>1, Invariance, PTL

\* A handler in force that was not registered over another one can always be
\* undone, and undoing it puts back what the program found (RestorePointKept),
\* although handlers delete registrations between any two steps of the program.
THEOREM RestorePoint == ASSUME DeletingHandlers PROVE Spec => []RestorePointKept
<1>1. IInv => RestorePointKept
  BY DEF IInv
<1>2. QED
  BY <1>1, Invariance, PTL

\* When sigutil_sig_delall has returned nothing is registered, and a handler is
\* in force only where a second registration was undone (DelAllForgetsAll).
THEOREM DelAllForgets == ASSUME DeletingHandlers PROVE Spec => []DelAllForgetsAll
<1>1. IInv => DelAllForgetsAll
  <2>1. SUFFICES ASSUME IInv, AtRest, frame[1].op = "delall", NEW s \in Sig
                 PROVE  ~ inited[s] /\ (disp[s] \in Handlers => oldsig[s] \in Handlers)
    BY DEF DelAllForgetsAll
  <2>2. ~ inited[s]
    BY <2>1 DEF IInv, DelAllInv, AtRest
  <2>3. ~ Registering(s)
    BY <2>1 DEF AtRest, Registering
  <2>4. QED
    BY <2>1, <2>2, <2>3 DEF IInv, RestorePointKept
<1>2. QED
  BY <1>1, Invariance, PTL

\* Between calls the kernel's mask is the shadow set plus at most what the
\* process inherited, and the signal of a sigutil_block_sig or
\* sigutil_unblock_sig that has returned 0 is blocked, or is not unless the
\* process inherited it blocked (MaskMatchesShadow).
THEOREM ShadowFaithful == ASSUME DeletingHandlers PROVE Spec => []MaskMatchesShadow
<1>1. IInv => MaskMatchesShadow
  BY DEF IInv, TypeOK, MaskInv, MainMask, MaskMatchesShadow, AtRest, MaskWindow
<1>2. QED
  BY <1>1, Invariance, PTL

\* No step but the delivery of a signal to a handler makes the stack grow.
LEMMA OnlyDeliveryPushes ==
  ASSUME TypeOK, [Next]_vars, top' > top
  PROVE  \E s \in Sig : RunHandler(s)
<1>1. top \in Nat
  BY BoundAssumption DEF TypeOK
<1>2. ~ Step
  <2>1. Step => top' = top
    BY DEF Step, IgnoreAll, AddSigaction, AddInited, DelCheck, DelSigaction, DelClear, BlockCheck,
           BlockInit, BlockAdd, BlockMask, UnblockAll, UnblockDel, UnblockReblock, Goto, Return,
           NextSignal, DelReturn
  <2>2. QED
    BY <1>1, <2>1
<1>3. ~ Call /\ ~ HandlerReturn
  BY <1>1 DEF Call, Invoke, HandlerReturn
<1>4. \A s \in Sig : ~ Raise(s) /\ ~ DefaultAction(s)
  BY <1>1 DEF Raise, DefaultAction, stackVars
<1>5. QED
  BY <1>1, <1>2, <1>3, <1>4 DEF Next, Deliver, vars

\* The handler of a signal the library believes blocked starts only inside a
\* call of sigutil_block_sig or sigutil_unblock_sig (DeliveryOnlyInWindow).
THEOREM DeliveryInWindow == ASSUME DeletingHandlers PROVE Spec => DeliveryOnlyInWindow
<1> DEFINE Window == top' > top /\ (pending \ pending') \cap promask # {} => cur.pc \in MaskWindow
<1>1. ASSUME IInv, [Next]_vars PROVE [Window]_vars
  <2>1. SUFFICES ASSUME top' > top, NEW t \in pending \ pending', t \in promask,
                        cur.pc \notin MaskWindow
                 PROVE  FALSE
    OBVIOUS
  <2>2. TypeOK /\ Parts
    BY <1>1 DEF IInv, Parts
  <2>3. PICK s \in Sig : RunHandler(s)
    BY <1>1, <2>1, <2>2, OnlyDeliveryPushes
  <2>4. t = s
    BY <2>1, <2>3 DEF RunHandler
  <2>5. top = 1 /\ t \notin mask /\ t \notin Uncatchable
    BY <2>2, <2>3, <2>4, RunHandlerOnProgram
  <2>6. QED
    BY <2>1, <2>2, <2>5 DEF Parts, MaskInv, MainMask, cur
<1>2. QED
  BY <1>1, Invariance, PTL DEF Spec, DeliveryOnlyInWindow
============================================================================
