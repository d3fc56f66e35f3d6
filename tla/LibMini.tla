------------------------------ MODULE LibMini ------------------------------
(***************************************************************************)
(* The signal side of the C library of HW3 (libmini.c, libmini64.asm) in a *)
(* process with one thread that calls it, from main and from the handlers  *)
(* the kernel interrupts main with.                                        *)
(*                                                                         *)
(* frames is the stack: frame 1 is main, every frame above it a handler    *)
(* the kernel started on top of whatever the frame below was doing.  A     *)
(* library function is as many steps as it has places where a handler can  *)
(* run in the middle and tell: the system call, errno = 0, errno = -ret;   *)
(* the registers of setjmp and longjmp, and their mask; the two halves of  *)
(* perror.  A sigset_t is the set of its signals.                          *)
(***************************************************************************)
EXTENDS Integers, Sequences

CONSTANTS
  Signals, ALRM,  \* signals in use; the one alarm() sends
  NULL,           \* no signal
  Bufs,           \* jmp_bufs of the program
  Vals, HalfWord, \* 64-bit words longjmp may find in rsi; 2^32
  Errors,         \* error numbers the kernel answers with
  WriteErrors,    \* those a write to the standard error may get
  Uses,           \* what the program calls: names of functions, and
                  \* "query" for sigaction(sig, NULL, &old), "badset" for
                  \* sigpending with a bad pointer
  Acts,           \* what it hands to sigaction
  MainHows, HandlerHows,  \* the "how" of sigprocmask, in main and in handlers
  PoliteHandlers, \* whether its handlers save and restore errno
  MaxDepth        \* bound: frames on the stack

EINTR == 4
EINVAL == 22
EFAULT == 14
PERRMSG_MIN == 0
PERRMSG_MAX == 34

sigset_t == SUBSET Signals
sigaction_t == [handler : {"DFL", "IGN", "handler"}, mask : sigset_t,
                restart : BOOLEAN, restorer : BOOLEAN]

ASSUME SignalAssumption == ALRM \in Signals /\ NULL \notin Signals
ASSUME ErrorAssumption ==
  Errors \subseteq Nat \ {0} /\ {EINTR, EINVAL} \cup WriteErrors \subseteq Errors
ASSUME ProgramAssumption ==
  /\ HalfWord \in Nat \ {0} /\ Vals \subseteq Nat /\ Acts \subseteq sigaction_t
  /\ PoliteHandlers \in BOOLEAN
  /\ MainHows \cup HandlerHows \subseteq {"block", "unblock", "setmask", "bad"}
  /\ MaxDepth \in Nat \ {0}

VARIABLES
  frames,   \* the stack of main and the handlers on top of it
  blocked,  \* the signal mask, as the kernel has it
  pending,  \* signals generated and not delivered
  disp,     \* the kernel's table of sigactions
  timer,    \* whether an alarm is set
  errno,
  env,      \* per jmp_buf: the frame and the mask it holds (frame 0: unset)
  proc,     \* how the process is
  want,     \* history: the mask main itself asked sigprocmask for
  left      \* history: what longjmp into main left blocked, until main unblocks it

vars == <<frames, blocked, pending, disp, timer, errno, env, proc, want, left>>
signalVars == <<blocked, pending, disp, timer>>
history == <<want, left>>

\* What a frame does: runs the program's own code; waits in the kernel;
\* is in a wrapper before or after errno = 0; or between two halves.
Ops == {"run", "pause", "sleep", "read", "reset", "store",
        "setjmp", "longjmp", "perror"}
\* arg: what the last call returned, or what the wrapper will; mask, errno:
\* what the kernel and the handler put aside when the handler began;
\* r11: the mask longjmp loaded;  buf: the jmp_buf of setjmp.
Frame == [sig : Signals \cup {NULL}, mask : sigset_t, errno : Nat,
          op : Ops, arg : Int, buf : Bufs \cup {NULL}, r11 : sigset_t]
MainFrame == [sig |-> NULL, mask |-> {}, errno |-> 0, op |-> "run", arg |-> 0,
              buf |-> NULL, r11 |-> {}]

Level == Len(frames)
Top == frames[Level]
Below(n) == SubSeq(frames, 1, n)
With(frame) == [frames EXCEPT ![Level] = frame]
Now(op, arg) == With([Top EXCEPT !.op = op, !.arg = arg])

\* Signals the kernel delivers before it lets the program run on.
Due == IF Level = MaxDepth THEN {} ELSE pending \ blocked
InProgram(op) == proc = "alive" /\ Due = {} /\ Top.op = op
Running == InProgram("run")
Calls(function) == function \in Uses /\ Running

----------------------------------------------------------------------------
(* The wrappers: the system call, then errno = 0, then perhaps errno = -ret. *)

\* A call that does not touch signals.
Wrapper ==
  /\ Calls("wrapper")
  /\ \E e \in {0} \cup Errors : frames' = Now("reset", -e)
  /\ UNCHANGED <<signalVars, errno, env, proc, history>>

\* gettimeofday and the calls about user and group ids, which never sleep.
IdWrapper ==
  /\ Calls("getuid")
  /\ \E e \in {0} \cup (Errors \ {EINTR}) : frames' = Now("reset", -e)
  /\ UNCHANGED <<signalVars, errno, env, proc, history>>

NeverStores(ret) == "run"  \* mutant: errno is only reset
AfterReset(ret) == IF ret < 0 THEN "store" ELSE "run"

Reset ==
  /\ InProgram("reset") /\ errno' = 0
  /\ frames' = Now(AfterReset(Top.arg), Top.arg)
  /\ UNCHANGED <<signalVars, env, proc, history>>

StoresRet(ret) == ret  \* mutant: no minus
Stored(ret) == -ret

Store ==
  /\ InProgram("store") /\ errno' = Stored(Top.arg)
  /\ frames' = Now("run", Top.arg)
  /\ UNCHANGED <<signalVars, env, proc, history>>

\* pause, sleep and read go to sleep in the kernel.  pause ends only by a
\* handler (Interrupted); the sleep of libmini64.asm leaves errno alone.
Wait ==
  /\ \E op \in {"pause", "sleep", "read"} : Calls(op) /\ frames' = Now(op, 0)
  /\ UNCHANGED <<signalVars, errno, env, proc, history>>

WaitEnds ==
  /\ \/ InProgram("sleep") /\ frames' = Now("run", 0)
     \/ /\ InProgram("read")
        /\ \E e \in {0} \cup (Errors \ {EINTR}) : frames' = Now("reset", -e)
  /\ UNCHANGED <<signalVars, errno, env, proc, history>>

exit ==
  /\ Calls("exit") /\ proc' = "exited"
  /\ UNCHANGED <<frames, signalVars, errno, env, history>>

----------------------------------------------------------------------------
(* Signal actions.                                                         *)

\* An ignored signal is thrown away, unless it is blocked.
Generated(s) == IF disp[s].handler = "IGN" /\ s \notin blocked THEN pending
                ELSE pending \cup {s}

\* The kernel calls no handler without a restorer.
Installed(act) == [act EXCEPT !.restorer = TRUE]

\* The kernel refuses SIGKILL, SIGSTOP and what is no signal at all.
SetAction(s, act) ==
  /\ \/ /\ disp' = [disp EXCEPT ![s] = Installed(act)]
        /\ pending' = IF act.handler = "IGN" THEN pending \ {s} ELSE pending
        /\ frames' = Now("reset", 0)
     \/ /\ frames' = Now("reset", -EINVAL)
        /\ UNCHANGED <<disp, pending>>
  /\ UNCHANGED <<blocked, timer, errno, env, proc, history>>

sigaction(s, act) == Calls("sigaction") /\ SetAction(s, act)

\* sigaction(sig, NULL, &old): act->sa_flags is written through NULL.
SigactionQuery ==
  /\ Calls("query") /\ proc' = "segv"
  /\ UNCHANGED <<frames, signalVars, errno, env, history>>

\* SA_RESTART goes into prevDisp, which sigaction overwrites.
SignalAct(h) == [handler |-> h, mask |-> {}, restart |-> FALSE, restorer |-> FALSE]

signal(s, h) == Calls("signal") /\ SetAction(s, SignalAct(h))

Applied(how, mask, set) == CASE how = "block" -> mask \cup set
                             [] how = "unblock" -> mask \ set
                             [] how = "setmask" -> set
                             [] OTHER -> mask

\* What main asks for, and what of longjmp's leftovers that still leaves.
Asks(how, set) ==
  /\ want' = Applied(how, want, set)
  /\ left' = CASE how = "unblock" -> left \ set
               [] how = "setmask" -> {}
               [] OTHER -> left

Hows == IF Level = 1 THEN MainHows ELSE HandlerHows

\* Errors come back positive, and errno is left alone.
sigprocmask(how, set) ==
  /\ Calls("sigprocmask") /\ how \in Hows
  /\ blocked' = Applied(how, blocked, set)
  /\ IF Level = 1 THEN Asks(how, set) ELSE UNCHANGED history
  /\ frames' = Now("run", IF how = "bad" THEN EINVAL ELSE 0)
  /\ UNCHANGED <<pending, disp, timer, errno, env, proc>>

\* Its error comes back as the kernel's negative number, errno left alone.
sigpending ==
  /\ Calls("sigpending")
  /\ \/ frames' = Now("run", 0)
     \/ "badset" \in Uses /\ frames' = Now("run", -EFAULT)
  /\ UNCHANGED <<signalVars, errno, env, proc, history>>

kill(s) ==
  /\ Calls("kill") /\ pending' = Generated(s)
  /\ frames' = Now("reset", 0)
  /\ UNCHANGED <<blocked, disp, timer, errno, env, proc, history>>

\* alarm(0) cancels.
alarm ==
  /\ Calls("alarm") /\ timer' \in BOOLEAN
  /\ frames' = Now("reset", 0)
  /\ UNCHANGED <<blocked, pending, disp, errno, env, proc, history>>
----------------------------------------------------------------------------
(* setjmp and longjmp: first the registers, then the mask.                 *)

\* A jmp_buf whose frame is gone may not be jumped to.
Outlived(n) == [b \in Bufs |-> IF env[b].level > n THEN [env[b] EXCEPT !.level = 0]
                               ELSE env[b]]

setjmp(b) ==
  /\ Calls("setjmp")
  /\ env' = [env EXCEPT ![b].level = Level]
  /\ frames' = With([Top EXCEPT !.op = "setjmp", !.buf = b])
  /\ UNCHANGED <<signalVars, errno, proc, history>>

UnblocksAll(mask) == {}  \* mutant: the probe is a SIG_SETMASK
\* rt_sigprocmask(SIG_UNBLOCK, NULL, &old) changes no mask.
Probed(mask) == mask

SetjmpMask ==
  /\ InProgram("setjmp")
  /\ blocked' = Probed(blocked)
  /\ env' = [env EXCEPT ![Top.buf].mask = blocked]
  /\ frames' = With([Top EXCEPT !.op = "run", !.arg = 0, !.buf = NULL])
  /\ UNCHANGED <<pending, disp, timer, errno, proc, history>>

\* What the handlers on top of main, cut off by a jump to frame n, had blocked.
Leftover(n) == IF n = 1 /\ Level > 1 THEN blocked \ frames[2].mask ELSE {}

\* The stack is cut back to the frame that called setjmp.
longjmp(b, val) ==
  /\ Calls("longjmp") /\ env[b].level \in 1 .. Level
  /\ LET n == env[b].level
     IN /\ frames' = [Below(n) EXCEPT ![n] =
             [@ EXCEPT !.op = "longjmp", !.arg = val, !.buf = NULL, !.r11 = env[b].mask]]
        /\ env' = Outlived(n)
        /\ left' = left \cup Leftover(n)
  /\ UNCHANGED <<signalVars, errno, proc, want>>

\* rsi holds the saved mask, where the kernel expects a pointer to it: NULL
\* changes nothing, and any other mask is no address of the process (EFAULT).
SetByValue(mask, saved) == mask

\* What eax shows of rax.
Returned(val) == (IF val = 0 THEN 1 ELSE val) % HalfWord

LongjmpMask ==
  /\ InProgram("longjmp")
  /\ blocked' = SetByValue(blocked, Top.r11)
  /\ frames' = With([Top EXCEPT !.op = "run", !.arg = Returned(@), !.r11 = {}])
  /\ UNCHANGED <<pending, disp, timer, errno, env, proc, history>>

----------------------------------------------------------------------------
(* perror: write is a wrapper, so errno is 0 or write's own error after it. *)

PerrorPrefix ==
  /\ Calls("perror") /\ frames' = Now("perror", errno)
  /\ \/ UNCHANGED errno             \* no prefix
     \/ errno' \in {0} \cup WriteErrors
  /\ UNCHANGED <<signalVars, env, proc, history>>

\* The bound is checked on errno, the table indexed with the backup of it;
\* what is read past the table's end is written out, or faults.
PerrorMessage ==
  /\ InProgram("perror")
  /\ \/ proc' = proc
     \/ /\ errno \in PERRMSG_MIN .. PERRMSG_MAX
        /\ Top.arg \notin PERRMSG_MIN .. PERRMSG_MAX
        /\ proc' = "segv"
  /\ errno' \in {0} \cup WriteErrors
  /\ frames' = Now("run", 0)
  /\ UNCHANGED <<signalVars, env, history>>

----------------------------------------------------------------------------
(* The kernel and the outside.                                             *)

\* What a handler does to the call it interrupts.
Interrupted(s) ==
  CASE Top.op = "pause" -> Now("reset", -EINTR)
    [] Top.op = "sleep" -> Now("run", 0)
    [] Top.op = "read" /\ ~disp[s].restart -> Now("reset", -EINTR)
    [] OTHER -> frames

Handle(s) ==
  /\ s \in Due /\ proc = "alive" /\ disp[s].handler = "handler" /\ disp[s].restorer
  /\ frames' = Append(Interrupted(s), [MainFrame EXCEPT !.sig = s, !.mask = blocked,
                                                        !.errno = errno])
  /\ blocked' = blocked \cup disp[s].mask \cup {s}
  /\ pending' = pending \ {s}
  /\ UNCHANGED <<disp, timer, errno, env, proc, history>>

\* Ignored, fatal, or a handler the kernel could not return from.
Dispose(s) ==
  /\ s \in Due /\ proc = "alive"
  /\ disp[s].handler = "handler" => ~disp[s].restorer
  /\ proc' = CASE disp[s].handler = "IGN" -> proc
               [] disp[s].handler = "DFL" -> "killed"
               [] OTHER -> "segv"
  /\ pending' = pending \ {s}
  /\ UNCHANGED <<frames, blocked, disp, timer, errno, env, history>>

OwnMask(frame) == blocked \ {frame.sig}  \* mutant: sa_mask stays blocked
\* The mask sigreturn finds on the stack.
PutAside(frame) == frame.mask

\* The handler returns into myrt, which makes the sigreturn call.
myrt ==
  /\ Running /\ Level > 1
  /\ frames' = Below(Level - 1)
  /\ blocked' = PutAside(Top)
  /\ errno' = IF PoliteHandlers THEN Top.errno ELSE errno
  /\ env' = Outlived(Level - 1)
  /\ UNCHANGED <<pending, disp, timer, proc, history>>

Arrives(s) ==
  /\ proc = "alive" /\ pending' = Generated(s) /\ pending' # pending
  /\ UNCHANGED <<frames, blocked, disp, timer, errno, env, proc, history>>

TimerExpires ==
  /\ proc = "alive" /\ timer /\ timer' = FALSE /\ pending' = Generated(ALRM)
  /\ UNCHANGED <<frames, blocked, disp, errno, env, proc, history>>

----------------------------------------------------------------------------
Init ==
  /\ frames = <<MainFrame>> /\ blocked = {} /\ pending = {} /\ timer = FALSE
  /\ disp = [s \in Signals |-> SignalAct("DFL")]
  /\ errno = 0 /\ env = [b \in Bufs |-> [level |-> 0, mask |-> {}]]
  /\ proc = "alive" /\ want = {} /\ left = {}

Call ==
  \/ Wrapper \/ IdWrapper \/ Wait \/ exit \/ SigactionQuery \/ sigpending \/ alarm \/ PerrorPrefix
  \/ \E s \in Signals : kill(s) \/ \E act \in Acts : sigaction(s, act)
  \/ \E s \in Signals, h \in {"DFL", "IGN", "handler"} : signal(s, h)
  \/ \E how \in Hows, set \in sigset_t : sigprocmask(how, set)
  \/ \E b \in Bufs : setjmp(b) \/ \E val \in Vals : longjmp(b, val)
InCall == Reset \/ Store \/ WaitEnds \/ SetjmpMask \/ LongjmpMask \/ PerrorMessage
Kernel == TimerExpires \/ \E s \in Signals : Handle(s) \/ Dispose(s) \/ Arrives(s)
Finished == proc # "alive" /\ UNCHANGED vars
Next == Call \/ InCall \/ myrt \/ Kernel \/ Finished

Spec == Init /\ [][Next]_vars

----------------------------------------------------------------------------
(* Properties.                                                             *)

\* The variables have their types; main is the bottom frame and every other
\* frame a handler's; a jmp_buf holds no frame that is gone.
TypeOK ==
  /\ frames \in Seq(Frame) /\ Level \in 1 .. MaxDepth
  /\ \A i \in 1 .. Level : frames[i].sig = NULL <=> i = 1
  /\ {blocked, pending, want, left} \subseteq sigset_t
  /\ disp \in [Signals -> sigaction_t] /\ timer \in BOOLEAN
  /\ errno \in {0} \cup Errors
  /\ env \in [Bufs -> [level : 0 .. Level, mask : sigset_t]]
  /\ proc \in {"alive", "exited", "killed", "segv"}

\* While main runs, the mask is exactly what main's own sigprocmask calls made
\* it and what the handlers that longjmp jumped out of into main had blocked:
\* setjmp's probe, interrupted calls and handlers that ran and returned leave no
\* trace in it, neither their signal nor their sa_mask (libmini64.asm:116-203,
\* libmini.c:289-312).
MainMask == Level = 1 => blocked = want \cup left

\* A handler is never entered again before it has returned or was jumped out
\* of, as long as no handler unblocks signals itself (libmini64.asm:128-151).
NoReentry ==
  \A i, j \in 1 .. Level : frames[i].sig = frames[j].sig => i = j

\* A call that answered -1 has its own error number in errno when the program
\* looks at it, whatever handlers ran between the system call, errno = 0,
\* errno = -ret and the look (libmini.c:5-6).
ErrnoKept == Top.op = "run" /\ Top.arg < 0 => errno = -Top.arg

\* longjmp restores the mask setjmp saved (HW3/README.md:40).
LongjmpRestores == [][LongjmpMask => blocked' = Top.r11]_vars
=============================================================================
