------------------------------- MODULE Session -------------------------------
(***************************************************************************)
(* One run of the groundhog manager: controller (groundhog-launcher.c),    *)
(* its threads handle_stdin, handle_stdout and handle_stdcmd               *)
(* (communicator.c), checkpoint, restore and diff (proc_cr.c) as those     *)
(* threads call them, and the function process, which talks to the manager *)
(* through c_lib_tracee.c.                                                 *)
(*                                                                         *)
(* The function is a server: it calls checkpoint_me, then reads a request, *)
(* answers it and calls restore_me, which brings it back to the return of  *)
(* checkpoint_me.  Its memory is a record that a checkpoint copies and a   *)
(* restore puts back whole: module CheckpointRestore is about whether it   *)
(* does.  handle_stderr only copies the function's stderr and is left out. *)
(* The build has GH_NOP = 0, and stop_tracking is never set.               *)
(***************************************************************************)
EXTENDS Integers, Sequences, FiniteSets, Functions

CONSTANTS
    MaxRequests,      \* bound: requests of the platform
    MaxOutstanding,   \* requests the platform sends ahead of the answers
    Keepalive,        \* argv[1]; 0: never killed
    Calls,            \* what the function does while it serves a request
    MaxCalls          \* bound: calls per request

\* Commands that are answered, commands that are not, and the end of the
\* function; "blind" allows give_back.me before any save_for.me.
Asks  == {"checkpoint.me", "diff.me", "dump_stats.me", "nop.me", "save_for.me",
          "give_back.me"}
Tells == {"detach.it", "cont.it", "other"}

ASSUME SessionAssumption ==
    /\ MaxRequests \in Nat /\ MaxOutstanding \in Nat /\ MaxCalls \in Nat
    /\ Keepalive \in Nat
    /\ Calls \subseteq Asks \cup Tells \cup {"exit", "blind"}

VARIABLES
    fn,              \* the function process
    stopped,         \* it is held in a ptrace-stop
    stdin_pipe,      \* manager to function: requests
    stdout_pipe,     \* function to manager: responses
    stdcmdout,       \* function to manager: commands
    stdcmdin,        \* manager to function: replies to commands
    mpc,             \* where handle_stdcmd and controller are
    num_checkpoints, num_revived,
    snapshot,        \* p_checkpointed_state: the function at the checkpoint
    scratchmem,      \* what save_for.me left in the manager
    queue,           \* the manager's stdin
    submitted,       \* requests the platform has sent: 1..submitted
    answers          \* responses on the manager's stdout

fnPipes  == <<stdin_pipe, stdout_pipe, stdcmdout, stdcmdin>>
manager  == <<stopped, mpc, num_checkpoints, num_revived, snapshot, scratchmem>>
platform == <<queue, submitted, answers>>
vars     == <<fn, fnPipes, manager, platform>>

Request == 1..MaxRequests
None == 0

\* at: what the function does; next: what it does once a command is answered;
\* cur: the request it serves; mem: the requests whose data it has used; buf:
\* what stdio has read of its stdin and it has not used; left: calls it may make.
Function == [at: {"boot", "asking", "idle", "work", "done", "return", "dead"},
             next: {"idle", "work", "return"},
             cur: Request \cup {None}, mem: SUBSET Request,
             buf: Seq(Request), left: 0..MaxCalls]
Response == [req: Request, data: SUBSET Request]
Command  == [name: Asks \cup Tells \cup {"restore.me"}, data: SUBSET Request]
Unset    == [at |-> "unset"]
Unsaved  == {None}
ACK      == {}

Init ==
    /\ fn = [at |-> "boot", next |-> "idle", cur |-> None, mem |-> {},
             buf |-> <<>>, left |-> 0]
    /\ stopped = FALSE
    /\ stdin_pipe = <<>> /\ stdout_pipe = <<>> /\ stdcmdout = <<>> /\ stdcmdin = <<>>
    /\ mpc = "read" /\ num_checkpoints = 0 /\ num_revived = 0
    /\ snapshot = Unset /\ scratchmem = Unsaved
    /\ queue = <<>> /\ submitted = 0 /\ answers = {}

Ended == mpc \in {"exited", "aborted", "sigpipe"}

-------------------------------------------------------------------------------
(* The platform and the two forwarding threads. *)

Submit ==
    /\ ~Ended
    /\ submitted < MaxRequests
    /\ submitted - Cardinality(answers) < MaxOutstanding
    /\ submitted' = submitted + 1
    /\ queue' = Append(queue, submitted')
    /\ UNCHANGED <<fn, fnPipes, manager, answers>>

\* A line is forwarded at once, whatever the function is doing.  A write to a
\* function that has ended is a SIGPIPE, which the manager does not handle.
handle_stdin ==
    /\ ~Ended /\ queue # <<>>
    /\ queue' = Tail(queue)
    /\ IF fn.at = "dead"
       THEN mpc' = "sigpipe" /\ UNCHANGED stdin_pipe
       ELSE stdin_pipe' = Append(stdin_pipe, Head(queue)) /\ UNCHANGED mpc
    /\ UNCHANGED <<fn, stopped, stdout_pipe, stdcmdout, stdcmdin, num_checkpoints,
                   num_revived, snapshot, scratchmem, submitted, answers>>

handle_stdout ==
    /\ ~Ended /\ stdout_pipe # <<>>
    /\ stdout_pipe' = Tail(stdout_pipe)
    /\ answers' = answers \cup {Head(stdout_pipe)}
    /\ UNCHANGED <<fn, stdin_pipe, stdcmdout, stdcmdin, manager, queue, submitted>>

-------------------------------------------------------------------------------
(* The function.  It does not run while it is stopped. *)

Runs(at) == ~stopped /\ fn.at = at /\ UNCHANGED <<manager, platform>>

\* Write a command and wait for a line.
Ask(name, next) ==
    /\ stdcmdout' = Append(stdcmdout, [name |-> name, data |-> fn.mem])
    /\ fn' = [fn EXCEPT !.at = "asking", !.next = next]
    /\ UNCHANGED <<stdin_pipe, stdout_pipe, stdcmdin>>

checkpoint_me == Runs("boot") /\ Ask("checkpoint.me", "idle")
restore_me    == Runs("done") /\ Ask("restore.me", "return")

\* nop_me, dump_stats_me and the other commands, from the middle of a request.
FnAsk == \E name \in Calls \cap Asks :
    /\ Runs("work")
    /\ fn.left > 0
    /\ name = "give_back.me" => scratchmem # Unsaved \/ "blind" \in Calls
    /\ stdcmdout' = Append(stdcmdout, [name |-> name, data |-> fn.mem])
    /\ fn' = [fn EXCEPT !.at = "asking", !.next = "work", !.left = @ - 1]
    /\ UNCHANGED <<stdin_pipe, stdout_pipe, stdcmdin>>

\* A command that is not answered.
FnTell == \E name \in Calls \cap Tells :
    /\ Runs("work")
    /\ fn.left > 0
    /\ stdcmdout' = Append(stdcmdout, [name |-> name, data |-> {}])
    /\ fn' = [fn EXCEPT !.left = @ - 1]
    /\ UNCHANGED <<stdin_pipe, stdout_pipe, stdcmdin>>

\* The getline at the end of each call of c_lib_tracee.c.
FnReply ==
    /\ Runs("asking")
    /\ stdcmdin # <<>>
    /\ stdcmdin' = Tail(stdcmdin)
    /\ fn' = [fn EXCEPT !.at = fn.next, !.mem = @ \cup Head(stdcmdin)]
    /\ UNCHANGED <<stdin_pipe, stdout_pipe, stdcmdout>>

\* The function takes a request from its buffered stdin; a read from the pipe
\* takes all that is there.
FnRead ==
    /\ Runs("idle") \/ Runs("return")
    /\ LET input == IF fn.buf # <<>> THEN fn.buf ELSE stdin_pipe IN
       /\ input # <<>>
       /\ fn' = [fn EXCEPT !.at = "work", !.cur = Head(input), !.buf = Tail(input),
                           !.mem = @ \cup {Head(input)}, !.left = MaxCalls]
    /\ stdin_pipe' = IF fn.buf # <<>> THEN stdin_pipe ELSE <<>>
    /\ UNCHANGED <<stdout_pipe, stdcmdout, stdcmdin>>

\* The response depends on everything the function has used.
FnRespond ==
    /\ Runs("work")
    /\ stdout_pipe' = Append(stdout_pipe, [req |-> fn.cur, data |-> fn.mem])
    /\ fn' = [fn EXCEPT !.at = "done"]
    /\ UNCHANGED <<stdin_pipe, stdcmdout, stdcmdin>>

FnExit ==
    /\ "exit" \in Calls
    /\ Runs("work")
    /\ fn' = [fn EXCEPT !.at = "dead"]
    /\ UNCHANGED fnPipes

FnNext ==
    \/ checkpoint_me \/ restore_me \/ FnAsk \/ FnTell \/ FnReply \/ FnRead \/ FnRespond

-------------------------------------------------------------------------------
(* handle_stdcmd: one command at a time. *)

\* The manager takes a command of one of these names from the pipe.
GetCommand(names) ==
    /\ mpc = "read"
    /\ stdcmdout # <<>> /\ Head(stdcmdout).name \in names
    /\ stdcmdout' = Tail(stdcmdout)
    /\ UNCHANGED <<stdin_pipe, stdout_pipe, stdcmdin, platform>>

Step(from, to) ==
    /\ mpc = from
    /\ mpc' = to
    /\ UNCHANGED <<fnPipes, platform, scratchmem>>

\* checkpoint seizes the process the first time only; on a process that is not
\* traced PTRACE_INTERRUPT fails, and interrupt_process waits for a stop of it
\* all the same.
CmdCheckpoint ==
    /\ GetCommand({"checkpoint.me"})
    /\ num_checkpoints' = num_checkpoints + 1
    /\ IF num_checkpoints = 0
       THEN stopped' = TRUE /\ mpc' = "checkpoint"
       ELSE mpc' = "wait4" /\ UNCHANGED stopped
    /\ UNCHANGED <<fn, num_revived, snapshot, scratchmem>>

checkpoint_process ==
    /\ Step("checkpoint", "detach")
    /\ snapshot' = fn
    /\ UNCHANGED <<fn, stopped, num_checkpoints, num_revived>>

\* Mutants: the keepalive count is off by one, either way.
BugKilledLate ==
    /\ GetCommand({"restore.me"})
    /\ IF num_revived = Keepalive
       THEN fn' = [fn EXCEPT !.at = "dead"] /\ mpc' = "reap" /\ UNCHANGED stopped
       ELSE stopped' = TRUE /\ mpc' = "restore" /\ UNCHANGED fn
    /\ UNCHANGED <<num_checkpoints, num_revived, snapshot, scratchmem>>
BugKilledEarly ==
    /\ GetCommand({"restore.me"})
    /\ IF num_revived = Keepalive - 2
       THEN fn' = [fn EXCEPT !.at = "dead"] /\ mpc' = "reap" /\ UNCHANGED stopped
       ELSE stopped' = TRUE /\ mpc' = "restore" /\ UNCHANGED fn
    /\ UNCHANGED <<num_checkpoints, num_revived, snapshot, scratchmem>>

\* restore.me: the end of the function, or ptrace_attach.
CmdRestore ==
    /\ GetCommand({"restore.me"})
    /\ IF num_revived = Keepalive - 1
       THEN fn' = [fn EXCEPT !.at = "dead"] /\ mpc' = "reap" /\ UNCHANGED stopped
       ELSE stopped' = TRUE /\ mpc' = "restore" /\ UNCHANGED fn
    /\ UNCHANGED <<num_checkpoints, num_revived, snapshot, scratchmem>>

\* Mutants: the registers are restored and the memory is not; the restore
\* drains the function's stdin as well.
BugMemoryKept ==
    /\ Step("restore", "detach_revived")
    /\ fn' = [snapshot EXCEPT !.mem = fn.mem]
    /\ UNCHANGED <<stopped, num_checkpoints, num_revived, snapshot>>
BugStdinDrained ==
    /\ mpc = "restore" /\ mpc' = "detach_revived"
    /\ fn' = snapshot /\ stdin_pipe' = <<>>
    /\ UNCHANGED <<stdout_pipe, stdcmdout, stdcmdin, platform, scratchmem, stopped,
                   num_checkpoints, num_revived, snapshot>>

restore_process ==
    /\ Step("restore", "detach_revived")
    /\ fn' = snapshot
    /\ UNCHANGED <<stopped, num_checkpoints, num_revived, snapshot>>

\* diff.me stops the function and only looks at it.
CmdDiff ==
    /\ GetCommand({"diff.me"})
    /\ stopped' = TRUE /\ mpc' = "detach"
    /\ UNCHANGED <<fn, num_checkpoints, num_revived, snapshot, scratchmem>>

\* Mutant: the process is not detached from.
BugStaysStopped ==
    /\ Step("detach", "reply")
    /\ UNCHANGED <<fn, stopped, num_checkpoints, num_revived, snapshot>>

ptrace_detach ==
    /\ Step("detach", "reply")
    /\ stopped' = FALSE
    /\ UNCHANGED <<fn, num_checkpoints, num_revived, snapshot>>

\* Mutant: the same after a restore.
BugRevivedStopped ==
    /\ Step("detach_revived", "reply")
    /\ num_revived' = num_revived + 1
    /\ UNCHANGED <<fn, stopped, num_checkpoints, snapshot>>

DetachRevived ==
    /\ Step("detach_revived", "reply")
    /\ stopped' = FALSE
    /\ num_revived' = num_revived + 1
    /\ UNCHANGED <<fn, num_checkpoints, snapshot>>

CmdAckOnly ==
    /\ GetCommand({"dump_stats.me", "nop.me"})
    /\ mpc' = "reply"
    /\ UNCHANGED <<fn, stopped, num_checkpoints, num_revived, snapshot, scratchmem>>

CmdSaveFor ==
    /\ GetCommand({"save_for.me"})
    /\ scratchmem' = Head(stdcmdout).data
    /\ mpc' = "reply"
    /\ UNCHANGED <<fn, stopped, num_checkpoints, num_revived, snapshot>>

\* The reply to give_back.me is the saved line.  Nothing may be written, or
\* anything, if scratchmem was never set.
CmdGiveBack ==
    /\ mpc = "read"
    /\ stdcmdout # <<>> /\ Head(stdcmdout).name = "give_back.me"
    /\ stdcmdout' = Tail(stdcmdout)
    /\ stdcmdin' \in IF scratchmem # Unsaved THEN {Append(stdcmdin, scratchmem)}
                     ELSE {stdcmdin, Append(stdcmdin, {})}
    /\ UNCHANGED <<fn, stdin_pipe, stdout_pipe, manager, platform>>

\* Mutant: these are acknowledged too.
BugAlwaysReply ==
    /\ GetCommand(Tells)
    /\ mpc' = "reply"
    /\ UNCHANGED <<fn, stopped, num_checkpoints, num_revived, snapshot, scratchmem>>

\* detach.it and cont.it find no traced thread; other lines are ignored.
CmdNoReply == GetCommand(Tells) /\ UNCHANGED <<fn, manager>>

WriteACK ==
    /\ mpc = "reply"
    /\ mpc' = "read"
    /\ stdcmdin' = Append(stdcmdin, ACK)
    /\ UNCHANGED <<fn, stopped, stdin_pipe, stdout_pipe, stdcmdout, num_checkpoints,
                   num_revived, snapshot, scratchmem, platform>>

\* The end of handle_stdcmd: the function has closed its end of the pipe.
CmdEOF ==
    /\ fn.at = "dead" /\ stdcmdout = <<>>
    /\ Step("read", "reap")
    /\ UNCHANGED <<fn, stopped, num_checkpoints, num_revived, snapshot>>

\* controller reaps the function, asserts, and returns: the process ends, and
\* with it all its threads.
ControllerExit ==
    /\ fn.at = "dead"
    /\ Step("reap", IF num_revived >= Keepalive - 1 THEN "exited" ELSE "aborted")
    /\ UNCHANGED <<fn, stopped, num_checkpoints, num_revived, snapshot>>

ManagerNext ==
    \/ CmdCheckpoint \/ checkpoint_process \/ CmdRestore \/ restore_process \/ CmdDiff
    \/ ptrace_detach \/ DetachRevived \/ CmdAckOnly \/ CmdSaveFor \/ CmdGiveBack
    \/ CmdNoReply \/ WriteACK \/ CmdEOF \/ ControllerExit

Next == Submit \/ handle_stdin \/ handle_stdout \/ FnNext \/ FnExit \/ ManagerNext

\* The threads are scheduled, and the function answers what it reads; neither
\* the platform nor the function's exit is owed.
Fairness ==
    /\ WF_vars(handle_stdin) /\ WF_vars(handle_stdout)
    /\ WF_vars(FnNext) /\ WF_vars(ManagerNext)

Spec == Init /\ [][Next]_vars /\ Fairness

-------------------------------------------------------------------------------
\* The manager kills the function before num_revived reaches Keepalive, and
\* what travels through the pipes is well formed.
TypeOK ==
    /\ fn \in Function
    /\ snapshot \in Function \cup {Unset}
    /\ stopped \in BOOLEAN
    /\ stdin_pipe \in Seq(Request) /\ queue \in Seq(Request)
    /\ stdout_pipe \in Seq(Response)
    /\ stdcmdout \in Seq(Command)
    /\ stdcmdin \in Seq(SUBSET Request)
    /\ mpc \in {"read", "checkpoint", "restore", "detach", "detach_revived", "reply",
                "wait4", "reap", "exited", "aborted", "sigpipe"}
    /\ num_checkpoints \in Nat
    /\ num_revived \in Nat /\ (Keepalive > 0 => num_revived < Keepalive)
    /\ scratchmem \in (SUBSET Request) \cup {Unsaved}
    /\ submitted \in 0..MaxRequests
    /\ answers \subseteq Response

\* Request isolation: every response the platform gets was computed from the
\* data of its own request and of no other, across all the restores of the run
\* (handle_stdcmd, checkpoint, restore).
Isolated == \A a \in answers : a.data = {a.req}

\* As long as the function lives, a request that was sent and not answered is
\* somewhere on its way: no restore wipes it out of the function's buffers.
NoRequestLost ==
    fn.at # "dead" =>
        \A r \in 1..submitted :
            \/ \E a \in answers \cup Range(stdout_pipe) : a.req = r
            \/ r \in Range(queue) \cup Range(stdin_pipe) \cup Range(fn.buf)
            \/ r = fn.cur /\ (fn.at = "work" \/ (fn.at = "asking" /\ fn.next = "work"))

\* A function that waits for a line has exactly one answer coming: in the pipe,
\* in the manager's hands, or owed for the one question in the pipe.  One that
\* does not wait has none, although a restore makes the answer to restore.me
\* the answer to a checkpoint.me of long ago.
OneConversation ==
    fn.at # "dead" =>
        LET asked == {i \in 1..Len(stdcmdout) : stdcmdout[i].name \notin Tells}
            busy  == IF mpc = "read" THEN 0 ELSE 1
        IN  Cardinality(asked) + busy + Len(stdcmdin) = IF fn.at = "asking" THEN 1 ELSE 0

\* The assertion at the end of controller: the function ended because it was
\* kept alive for long enough.
KeptAliveLongEnough == mpc # "aborted"

\* The manager awaits the response and forwards it before it ends the function.
ResponsesForwarded == mpc = "exited" => stdout_pipe = <<>>

\* Every request is answered, unless the container reaches the end of its life.
EveryRequestAnswered ==
    \A r \in Request :
        r <= submitted ~> (Ended \/ \E a \in answers : a.req = r)

\* A checkpoint resumes the function: who waits for a reply gets one, or is
\* killed by the manager.
EveryAskAnswered == fn.at = "asking" ~> fn.at # "asking"

-------------------------------------------------------------------------------
(* The container that the platform sees. *)

Phase ==
    CASE fn.at = "dead" -> "retired"
      [] fn.at # "dead" /\ snapshot = Unset -> "starting"
      [] fn.at = "work" \/ (fn.at = "asking" /\ fn.next = "work") -> "serving"
      [] fn.at \in {"done", "return"} \/ (fn.at = "asking" /\ fn.next = "return") -> "dirty"
      [] OTHER -> "clean"

Promise == INSTANCE Container WITH
    phase     <- Phase,
    cur       <- IF Phase = "serving" THEN fn.cur ELSE None,
    responses <- answers \cup Range(stdout_pipe)

\* The manager, its threads and the function implement the container.
ImplementsContainer == Promise!Spec
==============================================================================
