--------------------------- MODULE LibMiniProofs ---------------------------
(***************************************************************************)
(* Proofs about the library, for every set of signals, jmp_bufs, errors,   *)
(* calls and actions, and stacks of every depth.                           *)
(***************************************************************************)
EXTENDS LibMini, SequenceTheorems, TLAPS

USE DEF signalVars, history, vars, sigset_t, sigaction_t

----------------------------------------------------------------------------
(* The stack.                                                              *)

Answers == {0} \cup Errors

\* What the argument of a frame may be, by what the frame is doing.
GoodFrame(f) ==
  /\ f \in Frame /\ f.errno \in Answers
  /\ f.op = "reset" => -f.arg \in Answers
  /\ f.op = "store" => -f.arg \in Errors
  /\ f.op = "longjmp" => f.arg \in Vals
  /\ f.op = "perror" => f.arg \in Answers
  /\ f.op = "setjmp" => f.buf \in Bufs

StackOK(fs) ==
  /\ fs \in Seq(Frame) /\ Len(fs) \in 1 .. MaxDepth
  /\ \A i \in 1 .. Len(fs) : GoodFrame(fs[i]) /\ (fs[i].sig = NULL <=> i = 1)

\* The lower frames are as they were, the top one of them may have moved on.
Prefix(fs, gs, n) ==
  \A i \in 1 .. n : /\ gs[i].sig = fs[i].sig /\ gs[i].mask = fs[i].mask
                    /\ gs[i].errno = fs[i].errno
                    /\ i # n => gs[i] = fs[i]

\* The same stack; only the top frame moved on.
SameStack(fs, gs) ==
  Len(gs) = Len(fs) /\ Prefix(fs, gs, Len(fs))

LEMMA StackTop ==
  ASSUME StackOK(frames)
  PROVE  /\ Level \in Nat \ {0} /\ Level \in 1 .. MaxDepth /\ MaxDepth \in Nat
         /\ GoodFrame(Top) /\ Top \in Frame /\ (Top.sig = NULL <=> Level = 1)
<1>1. Level \in 1 .. MaxDepth /\ MaxDepth \in Nat \ {0}
  BY ProgramAssumption DEF StackOK, Level
<1>2. Level \in Nat \ {0} /\ Level \in 1 .. Level
  BY <1>1
<1> QED
  BY <1>1, <1>2 DEF StackOK, Level, Top, GoodFrame

\* Replacing the top frame by one with the same things put aside.
LEMMA WithStack ==
  ASSUME StackOK(frames), NEW f, GoodFrame(f),
         f.sig = Top.sig, f.mask = Top.mask, f.errno = Top.errno
  PROVE  /\ StackOK(With(f)) /\ SameStack(frames, With(f))
         /\ Len(With(f)) = Level /\ With(f)[Level] = f
<1>1. frames \in Seq(Frame) /\ Level \in 1 .. Len(frames) /\ f \in Frame
  BY StackTop DEF StackOK, Level, GoodFrame
<1>2. /\ With(f) \in Seq(Frame) /\ Len(With(f)) = Len(frames)
      /\ \A j \in 1 .. Len(frames) : With(f)[j] = IF j = Level THEN f ELSE frames[j]
  BY <1>1, ExceptSeq DEF With
<1>3. StackOK(With(f))
  BY <1>1, <1>2, StackTop DEF StackOK, Level, Top
<1>4. SameStack(frames, With(f))
  BY <1>1, <1>2 DEF SameStack, Prefix, Level, Top
<1> QED
  BY <1>1, <1>2, <1>3, <1>4 DEF Level

\* The top frame goes on to do op with arg.
LEMMA NowStack ==
  ASSUME StackOK(frames), NEW op \in Ops \ {"setjmp"}, NEW arg \in Int,
         op = "reset" => -arg \in Answers, op = "store" => -arg \in Errors,
         op = "longjmp" => arg \in Vals, op = "perror" => arg \in Answers
  PROVE  /\ StackOK(Now(op, arg)) /\ SameStack(frames, Now(op, arg))
         /\ Len(Now(op, arg)) = Level
         /\ Now(op, arg)[Level].op = op /\ Now(op, arg)[Level].arg = arg
<1> DEFINE f == [Top EXCEPT !.op = op, !.arg = arg]
<1>1. Top \in Frame /\ GoodFrame(Top)
  BY StackTop
<1>2. /\ f \in Frame /\ f.op = op /\ f.arg = arg
      /\ f.sig = Top.sig /\ f.mask = Top.mask /\ f.errno = Top.errno
  BY <1>1 DEF Frame
<1>3. GoodFrame(f)
  BY <1>1, <1>2 DEF GoodFrame
<1> HIDE DEF f
<1>4. StackOK(With(f)) /\ SameStack(frames, With(f)) /\ Len(With(f)) = Level /\ With(f)[Level] = f
  BY <1>2, <1>3, WithStack
<1> QED
  BY <1>2, <1>4 DEF Now, f

\* A prefix of the stack is a stack.
LEMMA BelowStack ==
  ASSUME StackOK(frames), NEW n \in 1 .. Level
  PROVE  /\ StackOK(Below(n)) /\ Len(Below(n)) = n
         /\ \A i \in 1 .. n : Below(n)[i] = frames[i]
<1>1. n \in Nat /\ 1 <= n /\ n <= Len(frames) /\ Len(frames) \in 1 .. MaxDepth /\ MaxDepth \in Nat
  BY StackTop DEF Level
<1>2. \A i \in 1 .. n : frames[i] \in Frame
  BY <1>1 DEF StackOK, GoodFrame
<1>3. /\ Below(n) \in Seq(Frame) /\ Len(Below(n)) = n
      /\ \A i \in 1 .. n : Below(n)[i] = frames[i]
  BY <1>1, <1>2, SubSeqProperties DEF Below
<1>4. Len(Below(n)) \in 1 .. MaxDepth
  BY <1>1, <1>3
<1>5. \A i \in 1 .. n : GoodFrame(frames[i]) /\ (frames[i].sig = NULL <=> i = 1)
  BY <1>1 DEF StackOK
<1> QED
  BY <1>3, <1>4, <1>5 DEF StackOK

\* A handler's frame on top.
LEMMA AppendStack ==
  ASSUME NEW fs, StackOK(fs), Len(fs) # MaxDepth, NEW f, GoodFrame(f), f.sig \in Signals
  PROVE  /\ StackOK(Append(fs, f)) /\ Len(Append(fs, f)) = Len(fs) + 1
         /\ \A i \in 1 .. Len(fs) : Append(fs, f)[i] = fs[i]
         /\ Append(fs, f)[Len(fs) + 1] = f
<1>1. fs \in Seq(Frame) /\ f \in Frame /\ f.sig # NULL
      /\ Len(fs) \in 1 .. MaxDepth /\ MaxDepth \in Nat
  BY SignalAssumption, ProgramAssumption DEF StackOK, GoodFrame
<1>2. /\ Append(fs, f) \in Seq(Frame) /\ Len(Append(fs, f)) = Len(fs) + 1
      /\ \A i \in 1 .. Len(fs) : Append(fs, f)[i] = fs[i]
      /\ Append(fs, f)[Len(fs) + 1] = f
  BY <1>1, AppendProperties
<1>3. \A i \in 1 .. Len(fs) + 1 : /\ GoodFrame(Append(fs, f)[i])
                                  /\ Append(fs, f)[i].sig = NULL <=> i = 1
  BY <1>1, <1>2 DEF StackOK
<1> QED
  BY <1>1, <1>2, <1>3 DEF StackOK

----------------------------------------------------------------------------
(* Types, and what a step does to the stack and the mask.                  *)

TypeInv ==
  /\ StackOK(frames)
  /\ blocked \in sigset_t /\ pending \in sigset_t /\ want \in sigset_t /\ left \in sigset_t
  /\ disp \in [Signals -> sigaction_t] /\ timer \in BOOLEAN
  /\ errno \in Answers
  /\ env \in [Bufs -> [level : 0 .. Level, mask : sigset_t]]
  /\ proc \in {"alive", "exited", "killed", "segv"}

LEMMA TypeImplies == TypeInv => TypeOK
BY StackTop DEF TypeInv, TypeOK, StackOK, Level, Answers

\* The steps that leave the stack's height alone, with or without sigprocmask.
MaskStep ==
  \E how \in Hows, set \in sigset_t :
    /\ blocked' = Applied(how, blocked, set)
    /\ IF Level = 1 THEN Asks(how, set) ELSE UNCHANGED history
SameStep ==
  SameStack(frames, frames') /\ (UNCHANGED <<blocked, want, left>> \/ MaskStep)

\* A frame that has a failed call's answer to look at had it before.
Unharmed(fs, gs, n) == gs[n].op = "run" /\ gs[n].arg < 0 => gs[n] = fs[n]

\* longjmp cuts the stack, the kernel puts a handler on it, and it returns.
LeapStep ==
  \E n \in 1 .. Level :
    /\ Len(frames') = n /\ Prefix(frames, frames', n) /\ frames'[n].op = "longjmp"
    /\ UNCHANGED <<blocked, want, errno>>
    /\ left' = left \cup Leftover(n)
EnterStep ==
  \E s \in Signals \ blocked :
    /\ Len(frames') = Level + 1 /\ Prefix(frames, frames', Level)
    /\ frames'[Level + 1] = [MainFrame EXCEPT !.sig = s, !.mask = blocked, !.errno = errno]
    /\ blocked' = blocked \cup disp[s].mask \cup {s} /\ UNCHANGED <<want, left, errno>>
    /\ Unharmed(frames, frames', Level)
ReturnStep ==
  /\ Level > 1 /\ Len(frames') = Level - 1
  /\ \A i \in 1 .. Level - 1 : frames'[i] = frames[i]
  /\ blocked' = Top.mask /\ UNCHANGED <<want, left>>
  /\ errno' = IF PoliteHandlers THEN Top.errno ELSE errno

LEMMA SameStackSelf == ASSUME StackOK(frames) PROVE SameStack(frames, frames)
BY DEF SameStack, Prefix

\* A step after which the top frame does op, and only errno besides may change.
LEMMA TypeNow ==
  ASSUME TypeInv, NEW op \in Ops \ {"setjmp"}, NEW arg \in Int,
         op = "reset" => -arg \in Answers, op = "store" => -arg \in Errors,
         op = "longjmp" => arg \in Vals, op = "perror" => arg \in Answers,
         frames' = Now(op, arg),
         blocked' \in sigset_t, pending' \in sigset_t, want' \in sigset_t, left' \in sigset_t,
         disp' \in [Signals -> sigaction_t], timer' \in BOOLEAN, errno' \in Answers,
         env' = env, proc' \in {"alive", "exited", "killed", "segv"},
         UNCHANGED <<blocked, want, left>> \/ MaskStep
  PROVE  TypeInv' /\ SameStep
<1>1. StackOK(frames') /\ SameStack(frames, frames') /\ Len(frames') = Level
  BY NowStack DEF TypeInv
<1>2. StackOK(frames)' /\ Level' = Level
  BY <1>1 DEF StackOK, Level
<1> QED
  BY <1>1, <1>2 DEF TypeInv, SameStep

\* A step that leaves the stack alone.
LEMMA TypeStill ==
  ASSUME TypeInv, UNCHANGED <<frames, blocked, disp, env, want, left>>,
         pending' \in sigset_t, timer' \in BOOLEAN, errno' \in Answers,
         proc' \in {"alive", "exited", "killed", "segv"}
  PROVE  TypeInv' /\ SameStep
<1>1. StackOK(frames)' /\ Level' = Level /\ SameStack(frames, frames')
  BY SameStackSelf DEF TypeInv, StackOK, Level, GoodFrame, SameStack, Prefix
<1> QED
  BY <1>1 DEF TypeInv, SameStep

LEMMA GeneratedType == ASSUME TypeInv, NEW s \in Signals PROVE Generated(s) \in sigset_t
BY DEF TypeInv, Generated

LEMMA AppliedType ==
  ASSUME NEW how, NEW mask \in sigset_t, NEW set \in sigset_t
  PROVE  Applied(how, mask, set) \in sigset_t
BY DEF Applied

LEMMA MainFrameType ==
  /\ MainFrame \in Frame /\ GoodFrame(MainFrame)
  /\ MainFrame.sig = NULL /\ MainFrame.op = "run" /\ MainFrame.arg = 0
BY DEF MainFrame, Frame, Ops, GoodFrame, Answers

LEMMA TypeInit == Init => TypeInv
<1> SUFFICES ASSUME Init PROVE TypeInv
  OBVIOUS
<1>1. MainFrame \in Frame /\ GoodFrame(MainFrame) /\ MainFrame.sig = NULL
  BY MainFrameType
<1>2. /\ frames \in Seq(Frame) /\ Len(frames) = 1 /\ frames[1] = MainFrame
  BY <1>1 DEF Init
<1>3. StackOK(frames) /\ Level = 1
  BY <1>1, <1>2, ProgramAssumption DEF StackOK, Level
<1>4. disp \in [Signals -> sigaction_t]
  BY DEF Init, SignalAct
<1>5. env \in [Bufs -> [level : 0 .. Level, mask : sigset_t]]
  <2>1. [level |-> 0, mask |-> {}] \in [level : 0 .. Level, mask : sigset_t]
    BY <1>3
  <2> QED
    BY <2>1 DEF Init
<1> QED
  BY <1>3, <1>4, <1>5 DEF Init, TypeInv, Answers

\* The steps of the wrappers, of the calls that wait, and exit.
LEMMA TypeWrappers ==
  ASSUME TypeInv, Wrapper \/ IdWrapper \/ Reset \/ Store \/ Wait \/ WaitEnds \/ exit \/ SigactionQuery
  PROVE  TypeInv' /\ SameStep
<1> USE DEF TypeInv
<1>0. Top.op = "reset" => -Top.arg \in Answers /\ Top.arg \in Int
  BY StackTop DEF GoodFrame, Frame
<1>00. Top.op = "store" => -Top.arg \in Errors /\ Top.arg \in Int
  BY StackTop DEF GoodFrame, Frame
<1>1. CASE Wrapper \/ IdWrapper
  <2>1. PICK e \in Answers : frames' = Now("reset", -e)
    BY <1>1 DEF Wrapper, IdWrapper, Answers
  <2>2. -e \in Int /\ -(-e) = e
    BY <2>1, ErrorAssumption DEF Answers
  <2> QED
    BY <1>1, <2>1, <2>2, TypeNow DEF Wrapper, IdWrapper, Ops
<1>2. CASE Reset
  <2>1. AfterReset(Top.arg) \in {"run", "store"} /\ 0 \in Answers /\ Top.arg \in Int
    BY <1>2, <1>0 DEF Reset, InProgram, AfterReset, Answers
  <2>2. AfterReset(Top.arg) = "store" => -Top.arg \in Errors
    BY <1>2, <1>0 DEF Reset, InProgram, AfterReset, Answers
  <2> QED
    BY <1>2, <2>1, <2>2, TypeNow DEF Reset, Ops
<1>3. CASE Store
  <2>1. Stored(Top.arg) \in Answers /\ Top.arg \in Int
    BY <1>3, <1>00 DEF Store, InProgram, Stored, Answers
  <2> QED
    BY <1>3, <2>1, TypeNow DEF Store, Ops
<1>4. CASE Wait
  BY <1>4, TypeNow DEF Wait, Ops
<1>5. CASE WaitEnds
  <2>1. CASE InProgram("sleep") /\ frames' = Now("run", 0)
    BY <1>5, <2>1, TypeNow DEF WaitEnds, Ops
  <2>2. CASE \E e \in {0} \cup (Errors \ {EINTR}) : frames' = Now("reset", -e)
    <3>1. PICK e \in Answers : frames' = Now("reset", -e)
      BY <2>2 DEF Answers
    <3>2. -e \in Int /\ -(-e) = e
      BY <3>1, ErrorAssumption DEF Answers
    <3> QED
      BY <1>5, <3>1, <3>2, TypeNow DEF WaitEnds, Ops
  <2> QED
    BY <1>5, <2>1, <2>2 DEF WaitEnds
<1>6. CASE exit \/ SigactionQuery
  BY <1>6, TypeStill DEF exit, SigactionQuery
<1> QED
  BY <1>1, <1>2, <1>3, <1>4, <1>5, <1>6

\* The calls about signals.
LEMMA TypeSetAction ==
  ASSUME TypeInv, NEW s \in Signals, NEW act \in sigaction_t, SetAction(s, act)
  PROVE  TypeInv' /\ SameStep
<1>1. Installed(act) \in sigaction_t
  BY DEF Installed
<1>2. disp' \in [Signals -> sigaction_t] /\ pending' \in sigset_t
  BY <1>1 DEF SetAction, TypeInv
<1>3. PICK ret \in {0, -EINVAL} : frames' = Now("reset", ret)
  BY DEF SetAction
<1>4. ret \in Int /\ -ret \in Answers
  BY ErrorAssumption DEF Answers, EINVAL
<1> QED
  BY <1>2, <1>3, <1>4, TypeNow DEF SetAction, TypeInv, Ops

LEMMA TypeSignals ==
  ASSUME TypeInv,
         \/ sigpending \/ alarm
         \/ \E s \in Signals : kill(s) \/ \E act \in Acts : sigaction(s, act)
         \/ \E s \in Signals, h \in {"DFL", "IGN", "handler"} : signal(s, h)
         \/ \E how \in Hows, set \in sigset_t : sigprocmask(how, set)
  PROVE  TypeInv' /\ SameStep
<1> USE DEF TypeInv
<1>0. 0 \in Answers
  BY DEF Answers
<1>1. CASE sigpending
  <2>1. CASE frames' = Now("run", 0)
    BY <1>1, <2>1, <1>0, TypeNow DEF sigpending, Ops
  <2>2. CASE frames' = Now("run", -EFAULT)
    BY <1>1, <2>2, <1>0, TypeNow DEF sigpending, Ops, EFAULT
  <2> QED
    BY <1>1, <2>1, <2>2 DEF sigpending
<1>2. CASE alarm
  BY <1>2, <1>0, TypeNow DEF alarm, Ops
<1>3. ASSUME NEW s \in Signals, kill(s) PROVE TypeInv' /\ SameStep
  BY <1>3, <1>0, TypeNow, GeneratedType DEF kill, Ops
<1>4. ASSUME NEW s \in Signals, NEW act \in Acts, sigaction(s, act) PROVE TypeInv' /\ SameStep
  <2>1. act \in sigaction_t
    BY ProgramAssumption
  <2> QED
    BY <1>4, <2>1, TypeSetAction DEF sigaction
<1>5. ASSUME NEW s \in Signals, NEW h \in {"DFL", "IGN", "handler"}, signal(s, h)
      PROVE  TypeInv' /\ SameStep
  <2>1. SignalAct(h) \in sigaction_t
    BY DEF SignalAct
  <2> QED
    BY <1>5, <2>1, TypeSetAction DEF signal
<1>6. ASSUME NEW how \in Hows, NEW set \in sigset_t, sigprocmask(how, set)
      PROVE  TypeInv' /\ SameStep
  <2>1. MaskStep /\ blocked' \in sigset_t /\ want' \in sigset_t /\ left' \in sigset_t
    BY <1>6, AppliedType DEF MaskStep, sigprocmask, Asks
  <2>2. PICK ret \in Int : frames' = Now("run", ret)
    BY <1>6 DEF sigprocmask, EINVAL
  <2>3. /\ UNCHANGED <<pending, disp, timer, errno, env, proc>>
        /\ "run" \in Ops \ {"setjmp"}
    BY <1>6 DEF sigprocmask, Ops
  <2> QED
    BY <2>1, <2>2, <2>3, <1>0, TypeNow
<1> QED
  BY <1>1, <1>2, <1>3, <1>4, <1>5, <1>6

\* A step after which the top frame is f.
LEMMA TypeWith ==
  ASSUME TypeInv, NEW f, GoodFrame(f), f.sig = Top.sig, f.mask = Top.mask, f.errno = Top.errno,
         frames' = With(f), env' \in [Bufs -> [level : 0 .. Level, mask : sigset_t]],
         UNCHANGED <<blocked, pending, disp, timer, errno, proc, history>>
  PROVE  TypeInv' /\ SameStep
<1>1. StackOK(frames') /\ SameStack(frames, frames') /\ Len(frames') = Level
  BY WithStack DEF TypeInv
<1>2. StackOK(frames)' /\ Level' = Level
  BY <1>1 DEF StackOK, Level, TypeInv
<1> QED
  BY <1>1, <1>2 DEF TypeInv, SameStep

LEMMA TypeSetjmp ==
  ASSUME TypeInv, SetjmpMask \/ LongjmpMask \/ \E b \in Bufs : setjmp(b)
  PROVE  TypeInv' /\ SameStep
<1> USE DEF TypeInv
<1>0. Top \in Frame /\ GoodFrame(Top) /\ Level \in Nat \ {0}
  BY StackTop
<1>1. ASSUME NEW b \in Bufs, setjmp(b) PROVE TypeInv' /\ SameStep
  <2> DEFINE f == [Top EXCEPT !.op = "setjmp", !.buf = b]
  <2>1. f \in Frame /\ GoodFrame(f) /\ f.sig = Top.sig /\ f.mask = Top.mask /\ f.errno = Top.errno
    BY <1>0 DEF GoodFrame, Frame, Ops
  <2>2. env' \in [Bufs -> [level : 0 .. Level, mask : sigset_t]]
    <3>1. [env[b] EXCEPT !.level = Level] \in [level : 0 .. Level, mask : sigset_t]
      BY <1>0
    <3>2. env' = [env EXCEPT ![b] = [env[b] EXCEPT !.level = Level]]
      BY <1>1 DEF setjmp
    <3> QED
      BY <3>1, <3>2
  <2>3. frames' = With(f)
    BY <1>1 DEF setjmp
  <2> HIDE DEF f
  <2> QED
    BY <1>1, <2>1, <2>2, <2>3, TypeWith DEF setjmp
<1>2. CASE SetjmpMask
  <2> DEFINE f == [Top EXCEPT !.op = "run", !.arg = 0, !.buf = NULL]
  <2>0. /\ f \in Frame /\ f.op = "run"
        /\ f.sig = Top.sig /\ f.mask = Top.mask /\ f.errno = Top.errno
    <3>1. PICK zero \in Int : zero = 0
      OBVIOUS
    <3>2. f = [Top EXCEPT !.op = "run", !.arg = zero, !.buf = NULL]
      BY <3>1
    <3> QED
      BY <1>0, <3>2 DEF Frame, Ops
  <2>1. GoodFrame(f)
    BY <1>0, <2>0 DEF GoodFrame
  <2>2. env' \in [Bufs -> [level : 0 .. Level, mask : sigset_t]]
    <3>1. Top.buf \in Bufs
      BY <1>0, <1>2 DEF GoodFrame, SetjmpMask, InProgram
    <3>2. [env[Top.buf] EXCEPT !.mask = blocked] \in [level : 0 .. Level, mask : sigset_t]
      BY <3>1
    <3>3. env' = [env EXCEPT ![Top.buf] = [env[Top.buf] EXCEPT !.mask = blocked]]
      BY <1>2 DEF SetjmpMask
    <3> QED
      BY <3>2, <3>3
  <2>3. frames' = With(f) /\ blocked' = blocked
    BY <1>2 DEF SetjmpMask, Probed
  <2> HIDE DEF f
  <2> QED
    BY <1>2, <2>0, <2>1, <2>2, <2>3, TypeWith DEF SetjmpMask
<1>3. CASE LongjmpMask
  <2> DEFINE f == [Top EXCEPT !.op = "run", !.arg = Returned(Top.arg), !.r11 = {}]
  <2>1. Returned(Top.arg) \in Int
    <3>1. Top.arg \in Nat
      BY <1>0, <1>3, ProgramAssumption DEF LongjmpMask, InProgram, GoodFrame
    <3>2. (IF Top.arg = 0 THEN 1 ELSE Top.arg) \in Int /\ HalfWord \in Nat \ {0}
      BY <3>1, ProgramAssumption
    <3> QED
      BY <3>2 DEF Returned
  <2>2. f \in Frame /\ GoodFrame(f) /\ f.sig = Top.sig /\ f.mask = Top.mask /\ f.errno = Top.errno
    BY <1>0, <2>1 DEF GoodFrame, Frame, Ops
  <2>3. frames' = With(f) /\ blocked' = blocked
    BY <1>3 DEF LongjmpMask, SetByValue
  <2> HIDE DEF f
  <2> QED
    BY <1>3, <2>2, <2>3, TypeWith DEF LongjmpMask
<1> QED
  BY <1>1, <1>2, <1>3

\* After a cut the jmp_bufs hold frames that are still there.
LEMMA OutlivedType ==
  ASSUME NEW n \in Nat, NEW m \in Nat, env \in [Bufs -> [level : 0 .. m, mask : sigset_t]]
  PROVE  Outlived(n) \in [Bufs -> [level : 0 .. n, mask : sigset_t]]
<1>1. ASSUME NEW b \in Bufs
      PROVE  (IF env[b].level > n THEN [env[b] EXCEPT !.level = 0] ELSE env[b])
               \in [level : 0 .. n, mask : sigset_t]
  <2>1. env[b] \in [level : 0 .. m, mask : sigset_t]
    OBVIOUS
  <2>2. CASE env[b].level > n
    BY <2>1, <2>2
  <2>3. CASE ~(env[b].level > n)
    <3>1. env[b].level \in 0 .. n
      BY <2>1, <2>3
    <3> QED
      BY <2>1, <2>3, <3>1
  <2> QED
    BY <2>2, <2>3
<1> QED
  BY <1>1 DEF Outlived

LEMMA TypeLongjmp ==
  ASSUME TypeInv, NEW b \in Bufs, NEW val \in Vals, longjmp(b, val)
  PROVE  TypeInv' /\ LeapStep
<1> DEFINE n == env[b].level
           f == [frames[n] EXCEPT !.op = "longjmp", !.arg = val, !.buf = NULL, !.r11 = env[b].mask]
<1>0. n \in 1 .. Level /\ n \in Nat /\ Level \in Nat /\ env[b].mask \in sigset_t
  BY StackTop DEF longjmp, TypeInv
<1>1. frames[n] \in Frame /\ GoodFrame(frames[n]) /\ val \in Int /\ val \in Nat
  BY <1>0, ProgramAssumption DEF TypeInv, StackOK, Level, GoodFrame
<1>2. /\ f \in Frame /\ f.op = "longjmp" /\ f.arg = val
      /\ f.sig = frames[n].sig /\ f.mask = frames[n].mask /\ f.errno = frames[n].errno
  BY <1>0, <1>1 DEF Frame, Ops
<1>3. GoodFrame(f)
  BY <1>1, <1>2 DEF GoodFrame
<1>4. /\ StackOK(Below(n)) /\ Len(Below(n)) = n
      /\ \A i \in 1 .. n : Below(n)[i] = frames[i]
  BY <1>0, BelowStack DEF TypeInv
<1>5. frames' = [Below(n) EXCEPT ![n] = f]
  <2>1. frames' = [Below(n) EXCEPT ![n] = [Below(n)[n] EXCEPT !.op = "longjmp", !.arg = val,
                                                      !.buf = NULL, !.r11 = env[b].mask]]
    BY DEF longjmp
  <2>2. Below(n)[n] = frames[n]
    BY <1>0, <1>4
  <2> QED
    BY <2>1, <2>2
<1> HIDE DEF f
<1>6. /\ frames' \in Seq(Frame) /\ Len(frames') = n
      /\ \A j \in 1 .. n : frames'[j] = IF j = n THEN f ELSE frames[j]
  BY <1>0, <1>2, <1>4, <1>5, ExceptSeq DEF StackOK
<1>7. StackOK(frames') /\ Prefix(frames, frames', n) /\ frames'[n].op = "longjmp"
  BY <1>0, <1>2, <1>3, <1>4, <1>6 DEF StackOK, Prefix
<1>8. env' \in [Bufs -> [level : 0 .. n, mask : sigset_t]]
  BY <1>0, OutlivedType DEF longjmp, TypeInv
<1>9. left' = left \cup Leftover(n) /\ left' \in sigset_t
  BY DEF longjmp, Leftover, TypeInv
<1>10. UNCHANGED <<signalVars, errno, proc, want>>
  BY DEF longjmp
<1>11. TypeInv'
  <2>1. StackOK(frames)' /\ Level' = n
    BY <1>6, <1>7 DEF StackOK, Level
  <2> QED
    BY <2>1, <1>8, <1>9, <1>10 DEF TypeInv
<1> QED
  BY <1>0, <1>6, <1>7, <1>9, <1>10, <1>11 DEF LeapStep

LEMMA TypePerror ==
  ASSUME TypeInv, PerrorPrefix \/ PerrorMessage
  PROVE  TypeInv' /\ SameStep
<1> USE DEF TypeInv
<1>2. CASE PerrorPrefix
  <2>1. errno \in Answers /\ errno \in Int /\ errno' \in Answers
    BY <1>2, ErrorAssumption DEF PerrorPrefix, Answers
  <2> QED
    BY <1>2, <2>1, TypeNow DEF PerrorPrefix, Ops
<1>3. CASE PerrorMessage
  <2>1. errno' \in Answers /\ proc' \in {"alive", "exited", "killed", "segv"}
    BY <1>3, ErrorAssumption DEF PerrorMessage, Answers
  <2> QED
    BY <1>3, <2>1, TypeNow DEF PerrorMessage, Ops
<1> QED
  BY <1>2, <1>3

\* The call a handler interrupts goes on, or is about to answer EINTR.
LEMMA InterruptedStack ==
  ASSUME TypeInv, NEW s \in Signals
  PROVE  /\ StackOK(Interrupted(s)) /\ SameStack(frames, Interrupted(s))
         /\ Unharmed(frames, Interrupted(s), Level)
<1>1. -EINTR \in Int /\ -(-EINTR) \in Answers
  BY ErrorAssumption DEF EINTR, Answers
<1>2. /\ StackOK(Now("reset", -EINTR)) /\ SameStack(frames, Now("reset", -EINTR))
      /\ Unharmed(frames, Now("reset", -EINTR), Level)
  BY <1>1, NowStack DEF TypeInv, Ops, Unharmed
<1>3. /\ StackOK(Now("run", 0)) /\ SameStack(frames, Now("run", 0))
      /\ Unharmed(frames, Now("run", 0), Level)
  BY NowStack DEF TypeInv, Ops, Unharmed
<1>4. StackOK(frames) /\ SameStack(frames, frames) /\ Unharmed(frames, frames, Level)
  BY SameStackSelf DEF TypeInv, Unharmed
<1>5. \/ Interrupted(s) = Now("reset", -EINTR)
      \/ Interrupted(s) = Now("run", 0)
      \/ Interrupted(s) = frames
  BY DEF Interrupted
<1> QED
  BY <1>2, <1>3, <1>4, <1>5

LEMMA TypeHandle ==
  ASSUME TypeInv, NEW s \in Signals, Handle(s)
  PROVE  TypeInv' /\ EnterStep
<1> DEFINE g == Interrupted(s)
           h == [MainFrame EXCEPT !.sig = s, !.mask = blocked, !.errno = errno]
<1>1. StackOK(g) /\ SameStack(frames, g) /\ Unharmed(frames, g, Level)
  BY InterruptedStack
<1>2. Level # MaxDepth /\ s \in pending /\ s \notin blocked
  BY DEF Handle, Due
<1>3. Len(g) = Level /\ Len(g) # MaxDepth /\ Level \in Nat
  BY <1>1, <1>2, StackTop DEF SameStack, Level, TypeInv
<1>4. MainFrame \in Frame /\ MainFrame.op = "run"
  BY MainFrameType
<1>5. errno \in Nat /\ errno \in Answers
  BY ErrorAssumption DEF TypeInv, Answers
<1>6. h \in Frame /\ h.sig = s /\ h.op = "run" /\ h.errno = errno
  BY <1>4, <1>5 DEF Frame, Ops, TypeInv
<1>7. GoodFrame(h)
  BY <1>5, <1>6 DEF GoodFrame
<1>8. frames' = Append(g, h)
  BY DEF Handle
<1> HIDE DEF g, h
<1>9. /\ StackOK(frames') /\ Len(frames') = Level + 1
      /\ \A i \in 1 .. Level : frames'[i] = g[i]
      /\ frames'[Level + 1] = h
  BY <1>1, <1>3, <1>6, <1>7, <1>8, AppendStack
<1>10. Prefix(frames, frames', Level)
  BY <1>1, <1>9 DEF SameStack, Prefix, Level
<1>11. blocked' \in sigset_t /\ pending' \in sigset_t
  BY DEF Handle, TypeInv
<1>12. env' \in [Bufs -> [level : 0 .. Level + 1, mask : sigset_t]]
  <2>1. [level : 0 .. Level, mask : sigset_t] \subseteq [level : 0 .. Level + 1, mask : sigset_t]
    BY <1>3
  <2>2. env' = env
    BY DEF Handle
  <2> QED
    BY <2>1, <2>2 DEF TypeInv
<1>13. TypeInv'
  <2>1. StackOK(frames)' /\ Level' = Level + 1
    BY <1>9 DEF StackOK, Level
  <2> QED
    BY <2>1, <1>11, <1>12 DEF TypeInv, Handle
<1>14. frames'[Level + 1] = [MainFrame EXCEPT !.sig = s, !.mask = blocked, !.errno = errno]
  BY <1>9 DEF h
<1>15. blocked' = blocked \cup disp[s].mask \cup {s} /\ UNCHANGED <<want, left, errno>>
  BY DEF Handle
<1>16. Unharmed(frames, frames', Level)
  <2>1. frames'[Level] = g[Level]
    BY <1>9, StackTop DEF TypeInv
  <2> QED
    BY <1>1, <2>1 DEF Unharmed
<1> QED
  BY <1>2, <1>9, <1>10, <1>13, <1>14, <1>15, <1>16 DEF EnterStep

LEMMA TypeReturn ==
  ASSUME TypeInv, myrt
  PROVE  TypeInv' /\ ReturnStep
<1>1. Level \in Nat /\ Level > 1 /\ Level - 1 \in 1 .. Level /\ Level - 1 \in Nat
  BY StackTop DEF TypeInv, myrt
<1>2. Top \in Frame /\ GoodFrame(Top)
  BY StackTop DEF TypeInv
<1>3. /\ StackOK(frames') /\ Len(frames') = Level - 1
      /\ \A i \in 1 .. Level - 1 : frames'[i] = frames[i]
  BY <1>1, BelowStack DEF TypeInv, myrt
<1>4. env' \in [Bufs -> [level : 0 .. Level - 1, mask : sigset_t]]
  BY <1>1, OutlivedType DEF myrt, TypeInv
<1>5. blocked' \in sigset_t /\ errno' \in Answers
  BY <1>2 DEF myrt, PutAside, Frame, GoodFrame, TypeInv
<1>6. StackOK(frames)' /\ Level' = Level - 1
  BY <1>3 DEF StackOK, Level
<1>7. TypeInv'
  BY <1>4, <1>5, <1>6 DEF TypeInv, myrt
<1> QED
  BY <1>1, <1>3, <1>7 DEF ReturnStep, myrt, PutAside

\* Every step keeps the types and does one of four things to the stack.
LEMMA TypeNext ==
  ASSUME TypeInv, [Next]_vars
  PROVE  TypeInv' /\ (SameStep \/ LeapStep \/ EnterStep \/ ReturnStep)
<1>1. CASE UNCHANGED vars
  <2>1. /\ UNCHANGED <<frames, blocked, disp, env, want, left>>
        /\ pending' \in sigset_t /\ timer' \in BOOLEAN /\ errno' \in Answers
        /\ proc' \in {"alive", "exited", "killed", "segv"}
    BY <1>1 DEF TypeInv
  <2> QED
    BY <2>1, TypeStill
<1>2. CASE Call
  <2>1. CASE \/ sigpending \/ alarm
             \/ \E s \in Signals : kill(s) \/ \E act \in Acts : sigaction(s, act)
             \/ \E s \in Signals, h \in {"DFL", "IGN", "handler"} : signal(s, h)
             \/ \E how \in Hows, set \in sigset_t : sigprocmask(how, set)
    BY <2>1, TypeSignals
  <2>2. CASE Wrapper \/ IdWrapper \/ Wait \/ exit \/ SigactionQuery
    BY <2>2, TypeWrappers
  <2>3. CASE PerrorPrefix
    BY <2>3, TypePerror
  <2>4. ASSUME NEW b \in Bufs, setjmp(b) PROVE TypeInv' /\ SameStep
    BY <2>4, TypeSetjmp
  <2>5. ASSUME NEW b \in Bufs, NEW val \in Vals, longjmp(b, val) PROVE TypeInv' /\ LeapStep
    BY <2>5, TypeLongjmp
  <2> QED
    BY <1>2, <2>1, <2>2, <2>3, <2>4, <2>5 DEF Call
<1>3. CASE InCall
  BY <1>3, TypeWrappers, TypePerror, TypeSetjmp DEF InCall
<1>4. CASE myrt
  BY <1>4, TypeReturn
<1>5. ASSUME NEW s \in Signals, Dispose(s) \/ Arrives(s) PROVE TypeInv' /\ SameStep
  <2>1. pending' \in sigset_t /\ proc' \in {"alive", "exited", "killed", "segv"}
    BY <1>5, GeneratedType DEF Dispose, Arrives, TypeInv
  <2> QED
    BY <1>5, <2>1, TypeStill DEF Dispose, Arrives, TypeInv
<1>6. CASE TimerExpires
  <2>1. pending' \in sigset_t
    BY <1>6, GeneratedType, SignalAssumption DEF TimerExpires
  <2> QED
    BY <1>6, <2>1, TypeStill DEF TimerExpires, TypeInv
<1>7. CASE Kernel
  BY <1>5, <1>6, <1>7, TypeHandle DEF Kernel
<1> QED
  BY <1>1, <1>2, <1>3, <1>4, <1>7 DEF Next, Finished

\* The variables have their types; main is the bottom frame and every other
\* frame a handler's; a jmp_buf holds no frame that is gone.
THEOREM TypeCorrect == Spec => []TypeOK
<1>1. TypeInv /\ [Next]_vars => TypeInv'
  BY TypeNext
<1> QED
  BY <1>1, TypeInit, TypeImplies, PTL DEF Spec

----------------------------------------------------------------------------
(* The mask.  What main has blocked, now or in the mask the first handler on *)
(* top of it put aside, is what it asked for and what longjmp left behind;   *)
(* the handlers above have that blocked too, and put it aside themselves.    *)

MainBlocked == IF Level = 1 THEN blocked ELSE frames[2].mask

MasksInv ==
  /\ MainBlocked = want \cup left
  /\ MainBlocked \subseteq blocked
  /\ \A i \in 3 .. Level : MainBlocked \subseteq frames[i].mask

LEMMA MasksNext ==
  ASSUME HandlerHows \cap {"unblock", "setmask"} = {}, TypeInv, MasksInv, [Next]_vars
  PROVE  MasksInv'
<1>0. TypeInv' /\ (SameStep \/ LeapStep \/ EnterStep \/ ReturnStep)
  BY TypeNext
<1>1. Level \in Nat \ {0} /\ Level' = Len(frames')
  BY StackTop DEF TypeInv, Level
\* A step that keeps main and a handler, and the masks of both and those between.
<1>K. ASSUME NEW n \in 2 .. Level, Level' = n, want' = want, left' = left,
             \A k \in 1 .. n : frames'[k].mask = frames[k].mask,
             MainBlocked \subseteq blocked'
      PROVE  MasksInv'
  <2>1. MainBlocked = frames[2].mask /\ MainBlocked' = frames'[2].mask /\ 2 \in 1 .. n
    BY <1>1, <1>K DEF MainBlocked
  <2>2. MainBlocked' = MainBlocked
    BY <1>K, <2>1
  <2>3. \A i \in 3 .. n : MainBlocked' \subseteq frames'[i].mask
    BY <1>1, <1>K, <2>2 DEF MasksInv
  <2> QED
    BY <1>K, <2>2, <2>3 DEF MasksInv
<1>2. CASE SameStep
  <2>1. /\ Level' = Level
        /\ \A i \in 1 .. Level : frames'[i].mask = frames[i].mask
    BY <1>1, <1>2 DEF SameStep, SameStack, Prefix, Level
  <2>2. CASE UNCHANGED <<blocked, want, left>>
    <3>1. CASE Level = 1
      BY <1>1, <2>1, <2>2, <3>1 DEF MasksInv, MainBlocked
    <3>2. CASE Level # 1
      BY <1>1, <1>K, <2>1, <2>2, <3>2 DEF MasksInv
    <3> QED
      BY <3>1, <3>2
  <2>3. CASE MaskStep
    <3>1. PICK how \in Hows, set \in sigset_t :
            /\ blocked' = Applied(how, blocked, set)
            /\ IF Level = 1 THEN Asks(how, set) ELSE UNCHANGED history
      BY <2>3 DEF MaskStep
    <3>2. CASE Level = 1
      <4>1. blocked = want \cup left
        BY <3>2 DEF MasksInv, MainBlocked
      <4>2. blocked' = want' \cup left'
        BY <3>1, <3>2, <4>1 DEF Asks, Applied
      <4> QED
        BY <1>1, <2>1, <3>2, <4>2 DEF MasksInv, MainBlocked
    <3>3. CASE Level # 1
      <4>1. how \notin {"unblock", "setmask"}
        BY <3>1, <3>3 DEF Hows
      <4>2. blocked \subseteq blocked' /\ want' = want /\ left' = left
        BY <3>1, <3>3, <4>1 DEF Applied
      <4> QED
        BY <1>1, <1>K, <2>1, <3>3, <4>2 DEF MasksInv
    <3> QED
      BY <3>2, <3>3
  <2> QED
    BY <1>2, <2>2, <2>3 DEF SameStep
<1>3. CASE LeapStep
  <2>1. PICK n \in 1 .. Level :
          /\ Len(frames') = n /\ Prefix(frames, frames', n)
          /\ UNCHANGED <<blocked, want>>
          /\ left' = left \cup Leftover(n)
    BY <1>3 DEF LeapStep
  <2>2. \A i \in 1 .. n : frames'[i].mask = frames[i].mask
    BY <2>1 DEF Prefix
  <2>3. CASE n = 1
    <3>1. blocked' = want' \cup left'
      BY <1>1, <2>1, <2>3 DEF MasksInv, MainBlocked, Leftover
    <3> QED
      BY <1>1, <2>1, <2>3, <3>1 DEF MasksInv, MainBlocked
  <2>4. CASE n # 1
    <3>1. left' = left
      BY <2>1, <2>4 DEF Leftover
    <3> QED
      BY <1>1, <1>K, <2>1, <2>2, <2>4, <3>1 DEF MasksInv
  <2> QED
    BY <2>3, <2>4
<1>4. CASE EnterStep
  <2>1. PICK s \in Signals \ blocked :
          /\ Len(frames') = Level + 1 /\ Prefix(frames, frames', Level)
          /\ frames'[Level + 1] = [MainFrame EXCEPT !.sig = s, !.mask = blocked, !.errno = errno]
          /\ blocked' = blocked \cup disp[s].mask \cup {s} /\ UNCHANGED <<want, left, errno>>
    BY <1>4 DEF EnterStep
  <2>2. \A i \in 1 .. Level : frames'[i].mask = frames[i].mask
    BY <2>1 DEF Prefix
  <2>3. frames'[Level + 1].mask = blocked
    BY <2>1, MainFrameType DEF Frame
  <2>4. MainBlocked' = MainBlocked
    <3>1. CASE Level = 1
      <4>0. Level + 1 = 2 /\ Level' = Level + 1
        BY <1>1, <2>1, <3>1
      <4>1. Level' = 2 /\ frames'[2].mask = blocked
        BY <2>3, <4>0
      <4> QED
        BY <3>1, <4>1 DEF MainBlocked
    <3>2. CASE Level # 1
      <4>1. 2 \in 1 .. Level
        BY <1>1, <3>2
      <4> QED
        BY <1>1, <2>1, <2>2, <3>2, <4>1 DEF MainBlocked
    <3> QED
      BY <3>1, <3>2
  <2>5. \A i \in 3 .. Level + 1 : MainBlocked' \subseteq frames'[i].mask
    <3> SUFFICES ASSUME NEW i \in 3 .. Level + 1 PROVE MainBlocked' \subseteq frames'[i].mask
      OBVIOUS
    <3>1. CASE i = Level + 1
      BY <2>3, <2>4, <3>1 DEF MasksInv
    <3>2. CASE i # Level + 1
      <4>1. i \in 3 .. Level /\ i \in 1 .. Level
        BY <1>1, <3>2
      <4> QED
        BY <2>2, <2>4, <4>1 DEF MasksInv
    <3> QED
      BY <3>1, <3>2
  <2> QED
    BY <1>1, <2>1, <2>4, <2>5 DEF MasksInv
<1>5. CASE ReturnStep
  <2>1. /\ Level > 1 /\ Level' = Level - 1 /\ UNCHANGED <<want, left>>
        /\ \A i \in 1 .. Level - 1 : frames'[i] = frames[i]
        /\ blocked' = frames[Level].mask
    BY <1>1, <1>5 DEF ReturnStep, Top
  <2>2. CASE Level = 2
    BY <1>1, <2>1, <2>2 DEF MasksInv, MainBlocked
  <2>3. CASE Level # 2
    <3>1. Level \in 3 .. Level /\ Level - 1 \in 2 .. Level
      BY <1>1, <2>1, <2>3
    <3>2. MainBlocked \subseteq blocked'
      BY <2>1, <3>1 DEF MasksInv
    <3> QED
      BY <1>1, <1>K, <2>1, <3>1, <3>2
  <2> QED
    BY <2>2, <2>3
<1> QED
  BY <1>0, <1>2, <1>3, <1>4, <1>5

\* Main's mask is what main asked for and what longjmp left behind: handlers
\* that return leave no trace in it, as long as they unblock nothing.
THEOREM MainMaskKept ==
  ASSUME HandlerHows \cap {"unblock", "setmask"} = {} PROVE Spec => []MainMask
<1>1. Init => TypeInv /\ MasksInv
  <2>1. Init => TypeInv /\ Level = 1
    BY TypeInit DEF Init, Level
  <2> QED
    BY <2>1 DEF Init, MasksInv, MainBlocked
<1>2. TypeInv /\ MasksInv /\ [Next]_vars => (TypeInv /\ MasksInv)'
  BY TypeNext, MasksNext
<1>3. MasksInv => MainMask
  BY DEF MasksInv, MainBlocked, MainMask
<1> QED
  BY <1>1, <1>2, <1>3, PTL DEF Spec

----------------------------------------------------------------------------
(* Entry.  The signal of a handler stays blocked while the handler is on the *)
(* stack, in the mask of now and in every mask put aside above it.           *)

EntryInv ==
  /\ NoReentry
  /\ \A i \in 2 .. Level : /\ frames[i].sig \in blocked
                           /\ \A j \in i + 1 .. Level : frames[i].sig \in frames[j].mask

LEMMA EntryNext ==
  ASSUME HandlerHows \cap {"unblock", "setmask"} = {}, TypeInv, EntryInv, [Next]_vars
  PROVE  EntryInv'
<1>0. TypeInv' /\ (SameStep \/ LeapStep \/ EnterStep \/ ReturnStep)
  BY TypeNext
<1>1. Level \in Nat \ {0} /\ Level' = Len(frames')
  BY StackTop DEF TypeInv, Level
\* A step that cuts the stack to n frames, or keeps it, and blocks no less.
<1>K. ASSUME NEW n \in 1 .. Level, Level' = n,
             \A k \in 1 .. n : frames'[k].sig = frames[k].sig /\ frames'[k].mask = frames[k].mask,
             \A k \in 2 .. n : frames[k].sig \in blocked'
      PROVE  EntryInv'
  <2>1. NoReentry'
    BY <1>1, <1>K DEF EntryInv, NoReentry
  <2>2. \A i \in 2 .. n : /\ frames'[i].sig \in blocked'
                          /\ \A j \in i + 1 .. n : frames'[i].sig \in frames'[j].mask
    BY <1>1, <1>K DEF EntryInv
  <2> QED
    BY <1>K, <2>1, <2>2 DEF EntryInv
<1>2. CASE SameStep
  <2>1. /\ Level' = Level
        /\ \A i \in 1 .. Level : frames'[i].sig = frames[i].sig /\ frames'[i].mask = frames[i].mask
    BY <1>1, <1>2 DEF SameStep, SameStack, Prefix, Level
  <2>2. \A k \in 2 .. Level : frames[k].sig \in blocked'
    <3>1. CASE blocked' = blocked
      BY <3>1 DEF EntryInv
    <3>2. CASE MaskStep
      <4> SUFFICES ASSUME NEW k \in 2 .. Level PROVE frames[k].sig \in blocked'
        OBVIOUS
      <4>1. PICK how \in Hows, set \in sigset_t : blocked' = Applied(how, blocked, set)
        BY <3>2 DEF MaskStep
      <4>2. how \notin {"unblock", "setmask"}
        BY <1>1, <4>1 DEF Hows
      <4>3. blocked \subseteq blocked'
        BY <4>1, <4>2 DEF Applied
      <4> QED
        BY <4>3 DEF EntryInv
    <3> QED
      BY <1>2, <3>1, <3>2 DEF SameStep
  <2> QED
    BY <1>1, <1>K, <2>1, <2>2
<1>3. CASE LeapStep
  <2>1. PICK n \in 1 .. Level : Len(frames') = n /\ Prefix(frames, frames', n) /\ blocked' = blocked
    BY <1>3 DEF LeapStep
  <2>2. \A k \in 1 .. n : frames'[k].sig = frames[k].sig /\ frames'[k].mask = frames[k].mask
    BY <2>1 DEF Prefix
  <2>3. \A k \in 2 .. n : frames[k].sig \in blocked'
    BY <1>1, <2>1 DEF EntryInv
  <2> QED
    BY <1>1, <1>K, <2>1, <2>2, <2>3
<1>4. CASE EnterStep
  <2>1. PICK s \in Signals \ blocked :
          /\ Len(frames') = Level + 1 /\ Prefix(frames, frames', Level)
          /\ frames'[Level + 1] = [MainFrame EXCEPT !.sig = s, !.mask = blocked, !.errno = errno]
          /\ blocked' = blocked \cup disp[s].mask \cup {s}
    BY <1>4 DEF EnterStep
  <2>2. \A i \in 1 .. Level : frames'[i].sig = frames[i].sig /\ frames'[i].mask = frames[i].mask
    BY <2>1 DEF Prefix
  <2>3. frames'[Level + 1].sig = s /\ frames'[Level + 1].mask = blocked
    BY <2>1, MainFrameType DEF Frame
  <2>4. \A i \in 1 .. Level : frames[i].sig # s
    <3>1. frames[1].sig = NULL /\ s # NULL
      BY <1>1, SignalAssumption DEF TypeInv, StackOK, Level
    <3>2. \A i \in 2 .. Level : frames[i].sig # s
      BY DEF EntryInv
    <3> QED
      BY <1>1, <3>1, <3>2
  <2>5. NoReentry'
    <3> SUFFICES ASSUME NEW i \in 1 .. Level + 1, NEW j \in 1 .. Level + 1,
                        frames'[i].sig = frames'[j].sig
                 PROVE  i = j
      BY <1>1, <2>1 DEF NoReentry
    <3>1. CASE i \in 1 .. Level /\ j \in 1 .. Level
      BY <2>2, <3>1 DEF EntryInv, NoReentry
    <3>2. CASE i = Level + 1 /\ j \in 1 .. Level
      BY <2>2, <2>3, <2>4, <3>2
    <3>3. CASE j = Level + 1 /\ i \in 1 .. Level
      BY <2>2, <2>3, <2>4, <3>3
    <3> QED
      BY <1>1, <3>1, <3>2, <3>3
  <2>6. ASSUME NEW i \in 2 .. Level + 1
        PROVE  /\ frames'[i].sig \in blocked'
               /\ \A j \in i + 1 .. Level + 1 : frames'[i].sig \in frames'[j].mask
    <3>1. CASE i = Level + 1
      <4>1. s \in blocked' /\ i + 1 .. Level + 1 = {}
        BY <1>1, <2>1, <3>1
      <4> QED
        BY <2>3, <3>1, <4>1
    <3>2. CASE i \in 2 .. Level
      <4>1. /\ frames'[i].sig = frames[i].sig /\ frames[i].sig \in blocked
            /\ \A j \in i + 1 .. Level : frames[i].sig \in frames[j].mask
        BY <2>2, <3>2 DEF EntryInv
      <4>2. ASSUME NEW j \in i + 1 .. Level + 1 PROVE frames'[i].sig \in frames'[j].mask
        <5>1. CASE j = Level + 1
          BY <2>3, <4>1, <5>1
        <5>2. CASE j \in i + 1 .. Level
          BY <1>1, <2>2, <3>2, <4>1, <5>2
        <5> QED
          BY <1>1, <5>1, <5>2
      <4> QED
        BY <2>1, <4>1, <4>2
    <3> QED
      BY <1>1, <3>1, <3>2
  <2> QED
    BY <1>1, <2>1, <2>5, <2>6 DEF EntryInv
<1>5. CASE ReturnStep
  <2>1. /\ Level > 1 /\ Level' = Level - 1
        /\ \A i \in 1 .. Level - 1 : frames'[i] = frames[i]
        /\ blocked' = frames[Level].mask
    BY <1>1, <1>5 DEF ReturnStep, Top
  <2>2. \A k \in 2 .. Level - 1 : frames[k].sig \in blocked'
    BY <1>1, <2>1 DEF EntryInv
  <2> QED
    BY <1>1, <1>K, <2>1, <2>2
<1> QED
  BY <1>0, <1>2, <1>3, <1>4, <1>5

\* No handler is entered again before it returned or was jumped out of, when
\* handlers unblock no signal themselves.
THEOREM NeverReentered ==
  ASSUME HandlerHows \cap {"unblock", "setmask"} = {} PROVE Spec => []NoReentry
<1>1. Init => TypeInv /\ EntryInv
  <2>1. Init => TypeInv /\ Level = 1
    BY TypeInit DEF Init, Level
  <2> QED
    BY <2>1 DEF EntryInv, NoReentry
<1>2. TypeInv /\ EntryInv /\ [Next]_vars => (TypeInv /\ EntryInv)'
  BY TypeNext, EntryNext
<1>3. EntryInv => NoReentry
  BY DEF EntryInv
<1> QED
  BY <1>1, <1>2, <1>3, PTL DEF Spec

----------------------------------------------------------------------------
(* errno.  What a frame will find in errno when the handlers above it have   *)
(* returned: what the handler just above it put aside.                       *)

ErrnoFor(i) == IF i = Level THEN errno ELSE frames[i + 1].errno

ErrnoInv ==
  \A i \in 1 .. Level : frames[i].op = "run" /\ frames[i].arg < 0 => ErrnoFor(i) = -frames[i].arg

\* The frame on top, after a step of its own.
LEMMA ErrnoNow ==
  ASSUME TypeInv, NEW op \in Ops \ {"setjmp"}, NEW arg \in Int, frames' = Now(op, arg),
         op = "reset" => -arg \in Answers, op = "store" => -arg \in Errors,
         op = "longjmp" => arg \in Vals, op = "perror" => arg \in Answers,
         op = "run" => arg >= 0 \/ errno' = -arg
  PROVE  ErrnoKept'
<1>1. Len(frames') = Level /\ frames'[Level].op = op /\ frames'[Level].arg = arg
  BY NowStack DEF TypeInv
<1>2. Top'.op = op /\ Top'.arg = arg
  BY <1>1 DEF Top, Level
<1> QED
  BY <1>2 DEF ErrnoKept

LEMMA ErrnoWith ==
  ASSUME TypeInv, NEW f \in Frame, frames' = With(f), f.op # "run" \/ f.arg >= 0
  PROVE  ErrnoKept'
<1>1. frames \in Seq(Frame) /\ Level \in 1 .. Len(frames)
  BY StackTop DEF TypeInv, StackOK, Level
<1>2. Len(frames') = Level /\ frames'[Level] = f
  BY <1>1, ExceptSeq DEF With, Level
<1>3. Top' = f
  BY <1>2 DEF Top, Level
<1> QED
  BY <1>3 DEF ErrnoKept, Frame

\* Every call and every step within one leaves the frame that made it either in
\* the call, or with an answer that errno goes with.
LEMMA ErrnoOwn ==
  ASSUME "badset" \notin Uses, TypeInv, TypeInv', ErrnoKept, Call \/ InCall
  PROVE  ErrnoKept' \/ LeapStep
<1>0. Top \in Frame /\ GoodFrame(Top) /\ Level \in Nat \ {0} /\ 0 \in Answers
  BY StackTop DEF TypeInv, Answers
<1>1. CASE UNCHANGED <<frames, errno>>
  BY <1>1 DEF ErrnoKept, Top, Level
<1>2. ASSUME NEW e \in Answers, frames' = Now("reset", -e) PROVE ErrnoKept'
  <2>1. -e \in Int /\ -(-e) = e
    BY <1>2, ErrorAssumption DEF Answers
  <2> QED
    BY <1>2, <2>1, ErrnoNow DEF Ops
<1>3. ASSUME NEW op \in {"run", "pause", "sleep", "read"}, NEW arg \in Nat, frames' = Now(op, arg)
      PROVE  ErrnoKept'
  BY <1>3, ErrnoNow DEF Ops
<1>4. CASE Wrapper \/ IdWrapper \/ Wait \/ exit \/ SigactionQuery
  BY <1>1, <1>2, <1>3, <1>4 DEF Wrapper, IdWrapper, Wait, exit, SigactionQuery, Answers
<1>5. ASSUME frames' \in {Now("reset", 0), Now("reset", -EINVAL)} PROVE ErrnoKept'
  <2>1. EINVAL \in Answers
    BY ErrorAssumption DEF Answers
  <2> QED
    BY <1>0, <1>2, <1>5, <2>1
<1>6. CASE \/ alarm \/ \E s \in Signals : kill(s) \/ \E act \in Acts : sigaction(s, act)
           \/ \E s \in Signals, h \in {"DFL", "IGN", "handler"} : signal(s, h)
  BY <1>5, <1>6 DEF alarm, kill, sigaction, signal, SetAction
<1>7. CASE sigpending
  BY <1>3, <1>7 DEF sigpending
<1>8. CASE \E how \in Hows, set \in sigset_t : sigprocmask(how, set)
  <2>1. \E ret \in Nat : frames' = Now("run", ret)
    BY <1>8 DEF sigprocmask, EINVAL
  <2> QED
    BY <1>3, <2>1
<1>9. CASE PerrorPrefix
  <2>1. errno \in Answers /\ errno \in Int
    BY ErrorAssumption DEF TypeInv, Answers
  <2> QED
    BY <1>9, <2>1, ErrnoNow DEF PerrorPrefix, Ops
<1>10. CASE PerrorMessage
  BY <1>3, <1>10 DEF PerrorMessage
<1>11. CASE Reset
  <2>1. Top.arg \in Int /\ -Top.arg \in Answers
    BY <1>0, <1>11 DEF Reset, InProgram, GoodFrame, Frame
  <2>2. CASE Top.arg < 0
    <3>1. -Top.arg \in Errors /\ frames' = Now("store", Top.arg)
      BY <1>11, <2>1, <2>2 DEF Reset, AfterReset, Answers
    <3> QED
      BY <2>1, <3>1, ErrnoNow DEF Ops
  <2>3. CASE ~(Top.arg < 0)
    <3>1. Top.arg >= 0 /\ frames' = Now("run", Top.arg)
      BY <1>11, <2>1, <2>3 DEF Reset, AfterReset
    <3> QED
      BY <2>1, <3>1, ErrnoNow DEF Ops
  <2> QED
    BY <2>2, <2>3
<1>12. CASE Store
  <2>1. Top.arg \in Int /\ errno' = -Top.arg /\ frames' = Now("run", Top.arg)
    BY <1>0, <1>12 DEF Store, Stored, Frame
  <2> QED
    BY <2>1, ErrnoNow DEF Ops
<1>13. CASE WaitEnds
  BY <1>2, <1>3, <1>13 DEF WaitEnds, Answers
<1>14. ASSUME NEW b \in Bufs, setjmp(b) PROVE ErrnoKept'
  <2> DEFINE f == [Top EXCEPT !.op = "setjmp", !.buf = b]
  <2>1. f \in Frame /\ f.op = "setjmp" /\ frames' = With(f)
    BY <1>0, <1>14 DEF setjmp, Frame, Ops
  <2> HIDE DEF f
  <2> QED
    BY <2>1, ErrnoWith
<1>15. CASE SetjmpMask
  <2> DEFINE f == [Top EXCEPT !.op = "run", !.arg = 0, !.buf = NULL]
  <2>1. f \in Frame /\ f.arg = 0
    <3>1. PICK zero \in Int : zero = 0
      OBVIOUS
    <3>2. f = [Top EXCEPT !.op = "run", !.arg = zero, !.buf = NULL]
      BY <3>1
    <3> QED
      BY <1>0, <3>1, <3>2 DEF Frame, Ops
  <2>2. frames' = With(f)
    BY <1>15 DEF SetjmpMask
  <2> HIDE DEF f
  <2> QED
    BY <2>1, <2>2, ErrnoWith
<1>16. CASE LongjmpMask
  <2> DEFINE f == [Top EXCEPT !.op = "run", !.arg = Returned(Top.arg), !.r11 = {}]
  <2>1. Returned(Top.arg) \in Nat
    <3>1. Top.arg \in Nat
      BY <1>0, <1>16, ProgramAssumption DEF LongjmpMask, InProgram, GoodFrame
    <3>2. (IF Top.arg = 0 THEN 1 ELSE Top.arg) \in Nat /\ HalfWord \in Nat \ {0}
      BY <3>1, ProgramAssumption
    <3> QED
      BY <3>2 DEF Returned
  <2>2. f \in Frame /\ f.arg = Returned(Top.arg)
    <3>1. PICK r \in Int : r = Returned(Top.arg)
      BY <2>1
    <3>2. f = [Top EXCEPT !.op = "run", !.arg = r, !.r11 = {}]
      BY <3>1
    <3> QED
      BY <1>0, <3>1, <3>2 DEF Frame, Ops
  <2>3. frames' = With(f)
    BY <1>16 DEF LongjmpMask
  <2> HIDE DEF f
  <2> QED
    BY <2>1, <2>2, <2>3, ErrnoWith
<1>17. ASSUME NEW b \in Bufs, NEW val \in Vals, longjmp(b, val) PROVE LeapStep
  BY <1>17, TypeLongjmp
<1>18. CASE Call
  BY <1>4, <1>6, <1>7, <1>8, <1>9, <1>14, <1>17, <1>18 DEF Call
<1>19. CASE InCall
  BY <1>10, <1>11, <1>12, <1>13, <1>15, <1>16, <1>19 DEF InCall
<1> QED
  BY <1>18, <1>19

LEMMA ErrnoNext ==
  ASSUME PoliteHandlers, "badset" \notin Uses, TypeInv, ErrnoInv, [Next]_vars
  PROVE  ErrnoInv'
<1>0. TypeInv' /\ (SameStep \/ LeapStep \/ EnterStep \/ ReturnStep)
  BY TypeNext
<1>1. Level \in Nat \ {0} /\ Level' = Len(frames')
  BY StackTop DEF TypeInv, Level
<1> DEFINE Fits(i) == frames'[i].op = "run" /\ frames'[i].arg < 0
                        => (IF i = Level' THEN errno' ELSE frames'[i + 1].errno) = -frames'[i].arg
<1> SUFFICES ASSUME NEW i \in 1 .. Level' PROVE Fits(i)
  BY DEF ErrnoInv, ErrnoFor
<1>2. CASE LeapStep
  <2>1. PICK n \in 1 .. Level : /\ Len(frames') = n /\ Prefix(frames, frames', n)
                                /\ frames'[n].op = "longjmp"
    BY <1>2 DEF LeapStep
  <2>2. CASE i = n
    BY <2>1, <2>2
  <2>3. CASE i # n
    <3>1. i \in 1 .. n /\ i + 1 \in 1 .. n /\ i \in 1 .. Level /\ i # Level /\ i # Level'
      BY <1>1, <2>1, <2>3
    <3>2. frames'[i] = frames[i] /\ frames'[i + 1].errno = frames[i + 1].errno
      BY <2>1, <2>3, <3>1 DEF Prefix
    <3> QED
      BY <3>1, <3>2 DEF ErrnoInv, ErrnoFor
  <2> QED
    BY <2>2, <2>3
<1>3. CASE EnterStep
  <2>1. PICK s \in Signals \ blocked :
          /\ Len(frames') = Level + 1 /\ Prefix(frames, frames', Level)
          /\ frames'[Level + 1] = [MainFrame EXCEPT !.sig = s, !.mask = blocked, !.errno = errno]
          /\ Unharmed(frames, frames', Level)
    BY <1>3 DEF EnterStep
  <2>2. frames'[Level + 1].errno = errno /\ frames'[Level + 1].arg = 0
    BY <2>1, MainFrameType DEF Frame
  <2>3. CASE i = Level + 1
    BY <2>2, <2>3
  <2>4. CASE i = Level
    <3>1. i # Level' /\ i \in 1 .. Level
      BY <1>1, <2>1, <2>4
    <3> QED
      BY <2>1, <2>2, <2>4, <3>1 DEF Unharmed, ErrnoInv, ErrnoFor
  <2>5. CASE i \notin {Level, Level + 1}
    <3>1. i \in 1 .. Level /\ i + 1 \in 1 .. Level /\ i # Level /\ i # Level'
      BY <1>1, <2>1, <2>5
    <3>2. frames'[i] = frames[i] /\ frames'[i + 1].errno = frames[i + 1].errno
      BY <2>1, <3>1 DEF Prefix
    <3> QED
      BY <3>1, <3>2 DEF ErrnoInv, ErrnoFor
  <2> QED
    BY <2>3, <2>4, <2>5
<1>4. CASE ReturnStep
  <2>1. /\ Level > 1 /\ Level' = Level - 1 /\ errno' = frames[Level].errno
        /\ \A k \in 1 .. Level - 1 : frames'[k] = frames[k]
    BY <1>1, <1>4 DEF ReturnStep, Top
  <2>2. i \in 1 .. Level /\ i # Level /\ frames'[i] = frames[i]
    BY <1>1, <2>1
  <2>3. CASE i = Level'
    BY <1>1, <2>1, <2>2, <2>3 DEF ErrnoInv, ErrnoFor
  <2>4. CASE i # Level'
    <3>1. frames'[i + 1] = frames[i + 1]
      BY <1>1, <2>1, <2>4
    <3> QED
      BY <2>2, <2>4, <3>1 DEF ErrnoInv, ErrnoFor
  <2> QED
    BY <2>3, <2>4
<1>5. CASE SameStep /\ ~LeapStep /\ ~EnterStep /\ ~ReturnStep
  <2>1. Level' = Level /\ Prefix(frames, frames', Level)
    BY <1>1, <1>5 DEF SameStep, SameStack, Level
  <2>2. ErrnoKept
    BY <1>1 DEF ErrnoInv, ErrnoKept, ErrnoFor, Top
  <2>3. ErrnoKept'
    <3>1. CASE Call \/ InCall
      BY <1>0, <1>5, <2>2, <3>1, ErrnoOwn
    <3>2. CASE UNCHANGED <<frames, errno>>
      BY <2>2, <3>2 DEF ErrnoKept, Top, Level
    <3>3. ASSUME NEW s \in Signals, Handle(s) PROVE FALSE
      BY <1>5, <3>3, TypeHandle
    <3>4. ~myrt
      BY <1>5, TypeReturn
    <3> QED
      BY <3>1, <3>2, <3>3, <3>4
         DEF Next, Finished, Kernel, Dispose, Arrives, TimerExpires
  <2>4. CASE i = Level
    <3>1. Top' = frames'[i] /\ i = Level'
      BY <2>1, <2>4 DEF Top, Level
    <3> QED
      BY <2>3, <3>1 DEF ErrnoKept
  <2>5. CASE i # Level
    <3>1. i \in 1 .. Level /\ i + 1 \in 1 .. Level /\ i # Level /\ i # Level'
      BY <1>1, <2>1, <2>5
    <3>2. frames'[i] = frames[i] /\ frames'[i + 1].errno = frames[i + 1].errno
      BY <2>1, <3>1 DEF Prefix
    <3> QED
      BY <3>1, <3>2 DEF ErrnoInv, ErrnoFor
  <2> QED
    BY <2>4, <2>5
<1> QED
  BY <1>0, <1>2, <1>3, <1>4, <1>5

\* A failed call's error number is in errno when the program looks, whatever
\* ran in between, for handlers that keep errno and no sigpending that fails.
THEOREM ErrnoIsKept ==
  ASSUME PoliteHandlers, "badset" \notin Uses PROVE Spec => []ErrnoKept
<1>1. Init => TypeInv /\ ErrnoInv
  <2> SUFFICES ASSUME Init PROVE TypeInv /\ ErrnoInv
    OBVIOUS
  <2>1. TypeInv /\ Level = 1 /\ frames[1] = MainFrame
    BY TypeInit DEF Init, Level
  <2> QED
    BY <2>1, MainFrameType DEF ErrnoInv
<1>2. TypeInv /\ ErrnoInv /\ [Next]_vars => (TypeInv /\ ErrnoInv)'
  BY TypeNext, ErrnoNext
<1>3. TypeInv /\ ErrnoInv => ErrnoKept
  <2> SUFFICES ASSUME TypeInv, ErrnoInv PROVE ErrnoKept
    OBVIOUS
  <2>1. Level \in 1 .. Level
    BY StackTop DEF TypeInv
  <2> QED
    BY <2>1 DEF ErrnoInv, ErrnoKept, ErrnoFor, Top
<1> QED
  BY <1>1, <1>2, <1>3, PTL DEF Spec
=============================================================================
