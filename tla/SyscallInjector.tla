--------------------------- MODULE SyscallInjector ---------------------------
(***************************************************************************)
(* do_clean_syscall of syscall_injector.c: the manager makes the stopped   *)
(* function execute a system call of the manager's choice, by overwriting  *)
(* the instruction at rip and the registers, single-stepping it, and       *)
(* putting both back.  do_brk, do_mprotect, do_mmap, do_munmap and         *)
(* do_madvise_dontneed check the result; do_mremap and do_fork have no     *)
(* caller.  restore_process_sd makes a number of such calls and then lets  *)
(* the function go.                                                        *)
(*                                                                         *)
(* Every ptrace request is a step of its own.  Between any two, a signal   *)
(* for the function may become pending, the function may be killed, or the *)
(* manager may.  Errors of ptrace are printed and otherwise ignored, but   *)
(* for PTRACE_PEEKTEXT and the GETREGS of the loop.                        *)
(***************************************************************************)
EXTENDS Naturals, Sequences

CONSTANTS
    Call,           \* the system calls that are injected, with their arguments
    MaxCalls,       \* bound: calls made in all
    MaxSignals      \* bound: signals sent to the function while it is traced

ASSUME InjectorAssumption == MaxCalls \in Nat /\ MaxSignals \in Nat

VARIABLES
    mpc,            \* where the manager is
    issued,         \* the calls that it has begun
    original_regs, peekdata, syscall_regs,      \* its local variables
    fn,             \* what the function does
    text, fn_regs,     \* its instruction at rip, and its registers
    report,         \* what waitpid has to say about it
    pending,        \* signals that wait for it
    sent,           \* signals sent so far
    executed        \* the calls that the kernel has carried out for it

locals   == <<original_regs, peekdata, syscall_regs>>
caller   == <<mpc, issued, locals>>
image    == <<text, fn_regs>>
kernel   == <<fn, report, pending, sent, executed>>
injector == <<caller, image, kernel>>

\* The registers of the function itself; of a local variable that was never
\* written; of a function that executed something out of place.
Own     == [rax |-> "own"]
Garbage == [rax |-> "garbage"]
Strayed == [rax |-> "strayed"]

\* expected is what the caller compares with; brk that fails returns the old
\* break, which is other; errno stands for the last page of numbers.
Result == {"expected", "other", "errno"}
\* The registers of a call: rax is its number, and then its result.
CallRegs == [call : Call, rax : Result \cup {"number"}]

InjectorInit ==
    /\ mpc = "between" /\ issued = <<>>
    /\ original_regs = Garbage /\ peekdata = "garbage" /\ syscall_regs = Garbage
    /\ fn = "stopped" /\ text = "own" /\ fn_regs = Own
    /\ report = "none" /\ pending = 0 /\ sent = 0
    /\ executed = <<>>

Stopped == fn = "stopped"
Goes(from, to) == mpc = from /\ mpc' = to
Current == issued[Len(issued)]

-------------------------------------------------------------------------------
(* The manager. *)

BeginCall(c) ==
    /\ Goes("between", "getregs")
    /\ Len(issued) < MaxCalls
    /\ issued' = Append(issued, c)
    /\ original_regs' = Garbage /\ peekdata' = "garbage" /\ syscall_regs' = Garbage
    /\ UNCHANGED <<image, kernel>>

GetRegs ==
    /\ Goes("getregs", "peek")
    /\ original_regs' = IF Stopped THEN fn_regs ELSE original_regs
    /\ UNCHANGED <<issued, peekdata, syscall_regs, image, kernel>>

PeekText ==
    /\ IF Stopped THEN Goes("peek", "poke") /\ peekdata' = text
       ELSE Goes("peek", "failed") /\ UNCHANGED peekdata
    /\ UNCHANGED <<issued, original_regs, syscall_regs, image, kernel>>

PokeText ==
    /\ Goes("poke", "setregs")
    /\ text' = IF Stopped THEN "syscall" ELSE text
    /\ syscall_regs' = [call |-> Current, rax |-> "number"]
    /\ UNCHANGED <<issued, original_regs, peekdata, fn_regs, kernel>>

SetRegs ==
    /\ Goes("setregs", "step")
    /\ fn_regs' = IF Stopped THEN syscall_regs ELSE fn_regs
    /\ UNCHANGED <<issued, locals, text, kernel>>

\* PTRACE_SINGLESTEP passes no signal on: what the last stop was about is dropped.
SingleStep ==
    /\ Goes("step", "wait")
    /\ fn' = IF Stopped THEN "stepping" ELSE fn
    /\ UNCHANGED <<issued, locals, image, report, pending, sent, executed>>

\* Mutant: only a stop is waited for.
BugOnlyStops ==
    /\ Goes("wait", "look")
    /\ report = "stop" /\ report' = "none"
    /\ UNCHANGED <<issued, locals, image, fn, pending, sent, executed>>

WaitPid ==
    /\ report # "none"
    /\ IF report = "death" THEN Goes("wait", "failed") ELSE Goes("wait", "look")
    /\ report' = "none"
    /\ UNCHANGED <<issued, locals, image, fn, pending, sent, executed>>

\* Mutant: a call that fails is made again.
BugAgainOnError ==
    /\ mpc = "look"
    /\ syscall_regs' = IF Stopped THEN fn_regs ELSE syscall_regs
    /\ mpc' = IF Stopped /\ fn_regs.rax \in {"number", "errno"} THEN "step" ELSE "untext"
    /\ fn_regs' = IF Stopped /\ fn_regs.rax = "errno"
                  THEN [fn_regs EXCEPT !.rax = "number"] ELSE fn_regs
    /\ UNCHANGED <<issued, original_regs, peekdata, text, kernel>>

\* The end of the loop.  A stop before the call has happened leaves rax as it is.
LookAtResult ==
    /\ mpc = "look"
    /\ syscall_regs' = IF Stopped THEN fn_regs ELSE syscall_regs
    /\ mpc' = CASE Stopped /\ fn_regs.rax = "errno"  -> "failed"
                [] Stopped /\ fn_regs.rax = "number" -> "step"
                [] OTHER                          -> "untext"
    /\ UNCHANGED <<issued, original_regs, peekdata, image, kernel>>

RestoreText ==
    /\ Goes("untext", "unregs")
    /\ text' = IF Stopped THEN peekdata ELSE text
    /\ UNCHANGED <<issued, locals, fn_regs, kernel>>

RestoreRegs ==
    /\ Goes("unregs", "returned")
    /\ fn_regs' = IF Stopped THEN original_regs ELSE fn_regs
    /\ UNCHANGED <<issued, locals, text, kernel>>

\* The assertion of do_brk, do_mmap and the others.
CheckResult ==
    /\ IF syscall_regs.rax = "expected" THEN Goes("returned", "between")
       ELSE Goes("returned", "aborted")
    /\ UNCHANGED <<issued, locals, image, kernel>>

\* SYSCALL_FAILED: kill, and exit.
Fail ==
    /\ Goes("failed", "exited")
    /\ fn' = "dead"
    /\ report' = IF fn = "dead" THEN report ELSE "death"
    /\ UNCHANGED <<issued, locals, image, pending, sent, executed>>

\* The manager detaches from the function, and stops it again for the next
\* request.
Resume ==
    /\ Goes("between", "resumed")
    /\ fn' = IF Stopped THEN "runs" ELSE fn
    /\ UNCHANGED <<issued, locals, image, report, pending, sent, executed>>

StopAgain ==
    /\ Goes("resumed", "between")
    /\ fn = "runs" /\ fn' = "stopped"
    /\ UNCHANGED <<issued, locals, image, report, pending, sent, executed>>

do_clean_syscall ==
    \/ GetRegs \/ PeekText \/ PokeText \/ SetRegs \/ SingleStep \/ WaitPid \/ LookAtResult
    \/ RestoreText \/ RestoreRegs \/ CheckResult \/ Fail

-------------------------------------------------------------------------------
(* The kernel. *)

\* A signal is delivered before the instruction is executed.
SignalStop ==
    /\ fn = "stepping" /\ pending > 0
    /\ pending' = pending - 1
    /\ fn' = "stopped" /\ report' = "stop"
    /\ UNCHANGED <<caller, image, sent, executed>>

\* The instruction is executed.
Execute ==
    /\ fn = "stepping" /\ pending = 0
    /\ fn' = "stopped" /\ report' = "stop"
    /\ IF text = "syscall" /\ fn_regs \in CallRegs /\ fn_regs.rax = "number"
       THEN \E r \in Result :
               /\ fn_regs' = [fn_regs EXCEPT !.rax = r]
               /\ executed' = Append(executed, [call |-> fn_regs.call, result |-> r])
       ELSE fn_regs' = Strayed /\ UNCHANGED executed
    /\ UNCHANGED <<caller, text, pending, sent>>

SendSignal ==
    /\ fn \in {"stopped", "stepping"}
    /\ sent < MaxSignals
    /\ sent' = sent + 1 /\ pending' = pending + 1
    /\ UNCHANGED <<caller, image, fn, report, executed>>

\* SIGKILL from outside.
FnKilled ==
    /\ fn \in {"stopped", "stepping"}
    /\ fn' = "dead" /\ report' = "death"
    /\ UNCHANGED <<caller, image, pending, sent, executed>>

Ended == {"exited", "aborted", "killed"}

ManagerKilled ==
    /\ mpc \notin Ended \cup {"resumed"}
    /\ mpc' = "killed"
    /\ UNCHANGED <<issued, locals, image, kernel>>

\* Mutant: PTRACE_O_EXITKILL is not set; the kernel detaches.
BugDetached ==
    /\ mpc \in Ended /\ fn \in {"stopped", "stepping"}
    /\ fn' = "runs" /\ report' = "none"
    /\ UNCHANGED <<caller, image, pending, sent, executed>>

\* PTRACE_O_EXITKILL.
ExitKill ==
    /\ mpc \in Ended /\ fn \in {"stopped", "stepping"}
    /\ fn' = "dead" /\ report' = "none"
    /\ UNCHANGED <<caller, image, pending, sent, executed>>

Kernel == SignalStop \/ Execute \/ ExitKill

InjectorNext ==
    \/ do_clean_syscall \/ (\E c \in Call : BeginCall(c)) \/ Resume \/ StopAgain
    \/ Kernel \/ SendSignal \/ FnKilled \/ ManagerKilled

\* A call that was begun is carried on with; the kernel does its part.
Fairness == WF_injector(do_clean_syscall) /\ WF_injector(Kernel)

InjectorSpec == InjectorInit /\ [][InjectorNext]_injector /\ Fairness

-------------------------------------------------------------------------------
InjectorTypeOK ==
    /\ mpc \in {"between", "getregs", "peek", "poke", "setregs", "step", "wait", "look",
                "untext", "unregs", "returned", "failed", "resumed"} \cup Ended
    /\ issued \in Seq(Call)
    /\ original_regs \in CallRegs \cup {Own, Garbage, Strayed}
    /\ peekdata \in {"own", "syscall", "garbage"}
    /\ syscall_regs \in CallRegs \cup {Garbage}
    /\ fn \in {"stopped", "stepping", "runs", "dead"}
    /\ text \in {"own", "syscall"}
    /\ fn_regs \in CallRegs \cup {Own, Strayed}
    /\ report \in {"none", "stop", "death"}
    /\ sent \in 0..MaxSignals /\ pending \in 0..sent
    /\ executed \in Seq([call : Call, result : Result])

\* Whenever the manager goes on with the restore, and whenever the function is
\* let go, the function has its own code and registers, and every call that was
\* begun was carried out, once, in order, with the result that was wanted.  A
\* signal in the middle of a call changes nothing of that (do_clean_syscall).
CallsAreClean ==
    fn = "runs" \/ (mpc = "between" /\ fn # "dead") =>
        /\ text = "own" /\ fn_regs = Own
        /\ Len(executed) = Len(issued)
        /\ \A i \in 1..Len(issued) : executed[i] = [call |-> issued[i], result |-> "expected"]

\* However the manager ends between the first call and the release of the
\* function, the function does not survive it half-restored.
NotHalfRestored == mpc \in Ended ~> fn = "dead"

\* A call comes to an end, with signals and deaths at any moment: waitpid is
\* never waited on for nothing.
CallEnds == mpc = "getregs" ~> mpc \in {"between"} \cup Ended
===============================================================================
