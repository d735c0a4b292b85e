---------------------------- MODULE ThreadControl ----------------------------
(***************************************************************************)
(* How the manager stops the threads of the function, keeps their          *)
(* registers and lets them go: seize_process, interrupt_process and        *)
(* detach_or_cont_process (proc_control.c), store_threads_registers and    *)
(* restore_threads_registers (proc_cr.c), as checkpoint, restore and diff  *)
(* call them.                                                              *)
(*                                                                         *)
(* The threads run until each one of them has stopped, so they start other *)
(* threads, exit and receive signals in the middle of all this.  The       *)
(* registers are kept by position in tids[], not by thread.                *)
(***************************************************************************)
EXTENDS Integers, FiniteSets

CONSTANTS
    MaxTid,        \* bound: the threads are 1..MaxTid, by age; 1 is the leader
    MaxThreads,    \* MAX_THREADS: the length of tids[]
    Late,          \* what threads may do once the first checkpoint has begun
    Requests,      \* what the function asks for after its first checkpoint
    MaxMoves,      \* bound: distinct register values of a thread
    MaxRequests    \* bound: requests after the first checkpoint

ASSUME ThreadAssumption ==
    /\ MaxTid \in Nat \ {0} /\ MaxThreads \in Nat \ {0}
    /\ MaxMoves \in Nat /\ MaxRequests \in Nat
    /\ Late \subseteq {"clone", "exit", "signal"}
    /\ Requests \subseteq {"checkpoint", "restore", "diff"}

Thread == 1..MaxTid
Leader == 1
Index  == 1..MaxThreads

\* The registers of a thread at one of its instructions, and those of a slot
\* of tregs[] that was never filled (the structure is calloc'ed).  A thread that
\* is given the latter runs on from there.
Unset     == [of |-> 0, at |-> 0]
Registers == [of: Thread \cup {0}, at: 0..MaxMoves]

VARIABLES
    state,             \* what each thread does
    traced,            \* the threads that the manager traces
    regs,              \* the registers of each thread
    pc, op,            \* where the manager is, and in which operation
    ents,              \* the entries of /proc/PID/task that were not read yet
    nr_threads,        \* seize_process: entries read so far
    tids, tid_count,   \* the threads found by seize_process
    i,                 \* the loop index of interrupt_process and of the detach
    tregs,             \* the stored registers, by index
    num_checkpoints, requests,
    saved              \* the registers at the checkpoint (a history variable)

process == <<state, traced, regs>>
loops   == <<ents, nr_threads, i>>
vars    == <<process, pc, op, loops, tids, tid_count, tregs, num_checkpoints,
             requests, saved>>

Living == {t \in Thread : state[t] \in {"run", "stop", "sigstop"}}

Init ==
    /\ state = [t \in Thread |-> IF t = Leader THEN "run" ELSE "unborn"]
    /\ traced = {}
    /\ regs = [t \in Thread |-> [of |-> t, at |-> 0]]
    /\ pc = "idle" /\ op = "none"
    /\ ents = {} /\ nr_threads = 0 /\ i = 1
    /\ tids = [k \in Index |-> 0] /\ tid_count = 0
    /\ tregs = [k \in Index |-> Unset]
    /\ num_checkpoints = 0 /\ requests = 0
    /\ saved = regs

-------------------------------------------------------------------------------
(* The threads.  The leader waits for the manager's reply while it works. *)

manager == <<pc, op, loops, tids, tid_count, tregs, num_checkpoints, requests, saved>>

\* The manager waits for the stop of t.
Awaited(t) == pc = "wait" /\ tids[i] = t

MayStill(what) == what \in Late \/ (num_checkpoints = 0 /\ pc = "idle")

Run(t) ==
    /\ state[t] = "run" /\ regs[t].at < MaxMoves
    /\ t = Leader => pc = "idle"
    /\ regs' = [regs EXCEPT ![t].at = @ + 1]
    /\ UNCHANGED <<state, traced, manager>>

\* A new thread is not traced, even if its creator is: PTRACE_SEIZE was not
\* asked to follow clones.
Clone(t, new) ==
    /\ MayStill("clone")
    /\ state[t] = "run"
    /\ t = Leader => pc = "idle"
    /\ state[new] = "unborn" /\ \A u \in Thread : u < new => state[u] # "unborn"
    /\ state' = [state EXCEPT ![new] = "run"]
    /\ UNCHANGED <<traced, regs, manager>>

Exit(t) ==
    /\ MayStill("exit")
    /\ state[t] = "run" /\ t # Leader
    /\ state' = [state EXCEPT ![t] = "gone"]
    /\ UNCHANGED <<traced, regs, manager>>

\* A signal for a traced thread stops it until the tracer has seen it.  One
\* that has been interrupted stops for the interrupt first.
Signal(t) ==
    /\ MayStill("signal")
    /\ state[t] = "run" /\ t \in traced /\ ~Awaited(t)
    /\ state' = [state EXCEPT ![t] = "sigstop"]
    /\ UNCHANGED <<traced, regs, manager>>

\* An interrupted thread stops.
Stops(t) ==
    /\ Awaited(t) /\ t \in traced /\ state[t] = "run"
    /\ state' = [state EXCEPT ![t] = "stop"]
    /\ UNCHANGED <<traced, regs, manager>>

Threads == \E t \in Thread :
    Run(t) \/ Exit(t) \/ Signal(t) \/ Stops(t) \/ \E new \in Thread : Clone(t, new)

-------------------------------------------------------------------------------
(* The manager. *)

\* The next entry of /proc/PID/task: the oldest of those that are left.
IsNext(t) == t \in ents /\ \A u \in ents : t <= u

\* checkpoint, restore or diff begins.  checkpoint seizes the first time only.
Begin(name, first) ==
    /\ pc = "idle" /\ state[Leader] = "run"
    /\ op' = name
    /\ num_checkpoints' = IF name = "checkpoint" THEN num_checkpoints + 1
                                                 ELSE num_checkpoints
    /\ i' = 1 /\ nr_threads' = 0
    /\ IF name = "checkpoint" /\ ~first
       THEN pc' = "interrupt" /\ UNCHANGED <<ents, tids>>
       ELSE /\ pc' = "seize"
            /\ ents' = Living
            /\ tids' = [k \in Index |-> 0]
    /\ UNCHANGED <<process, tid_count, tregs, saved>>

checkpoint == num_checkpoints = 0 /\ Begin("checkpoint", TRUE) /\ UNCHANGED requests

Request == \E name \in Requests :
    /\ num_checkpoints > 0 /\ requests < MaxRequests
    /\ requests' = requests + 1
    /\ Begin(name, FALSE)

\* One turn of the loop of seize_process.  An entry that has exited cannot be
\* seized, and is listed all the same.
SeizeNext ==
    /\ pc = "seize" /\ ents # {} /\ nr_threads < MaxThreads
    /\ \E t \in Thread :
       /\ IsNext(t)
       /\ ents' = ents \ {t}
       /\ traced' = IF t \in Living THEN traced \cup {t} ELSE traced
       /\ tids' = [tids EXCEPT ![nr_threads + 1] = t]
    /\ nr_threads' = nr_threads + 1
    /\ UNCHANGED <<state, regs, pc, op, i, tid_count, tregs, num_checkpoints, requests, saved>>

\* More threads than slots: seize_process gives up, its callers do not notice,
\* and tid_count is the one of the last time.
TooManyThreads ==
    /\ pc = "seize" /\ ents # {} /\ nr_threads >= MaxThreads
    /\ pc' = "interrupt"
    /\ UNCHANGED <<process, op, loops, tids, tid_count, tregs, num_checkpoints, requests, saved>>

\* Mutant: the last thread of the list is forgotten.
BugLastForgotten ==
    /\ pc = "seize" /\ ents = {}
    /\ pc' = "interrupt"
    /\ tid_count' = IF nr_threads > 1 THEN nr_threads - 1 ELSE nr_threads
    /\ UNCHANGED <<process, op, loops, tids, tregs, num_checkpoints, requests, saved>>

AllSeized ==
    /\ pc = "seize" /\ ents = {}
    /\ pc' = "interrupt"
    /\ tid_count' = nr_threads
    /\ UNCHANGED <<process, op, loops, tids, tregs, num_checkpoints, requests, saved>>

\* The loops over tids[] pass an entry ...
Pass(from) == i' = i + 1 /\ pc' = from
\* ... and leave everything else alone.
Rest == <<op, ents, nr_threads, tid_count, tregs, num_checkpoints, requests, saved>>

\* interrupt_process: PTRACE_INTERRUPT, then wait4, for the entries that are
\* not crossed out.
Interrupt ==
    /\ pc = "interrupt" /\ i <= tid_count
    /\ IF tids[i] < 0 THEN Pass("interrupt") ELSE pc' = "wait" /\ UNCHANGED i
    /\ UNCHANGED <<process, tids, Rest>>

\* Mutant: a thread that has exited is waited for.
BugWaitsForStop ==
    /\ pc = "wait" /\ tids[i] \in Living
    /\ state[tids[i]] \in {"stop", "sigstop"}
    /\ i' = i + 1
    /\ pc' = IF state[tids[i]] = "stop" THEN "interrupt" ELSE "aborted"
    /\ UNCHANGED <<process, tids, Rest>>

\* wait4 returns the stop of the thread, and a stop for a signal fails the
\* assertion.  A thread that is gone, or is not traced, has no status to wait
\* for: wait4 fails and the entry is crossed out.  The leader is the manager's
\* child, so that waiting for it does not fail, and may last for ever.
wait4 ==
    /\ pc = "wait"
    /\ LET t     == tids[i]
           alive == t \in Living
           mine  == alive /\ (t \in traced \/ t = Leader)
       IN  \/ /\ mine /\ state[t] = "stop"
              /\ Pass("interrupt") /\ UNCHANGED tids
           \/ /\ mine /\ state[t] = "sigstop"
              /\ pc' = "aborted" /\ UNCHANGED <<i, tids>>
           \/ /\ ~mine
              /\ tids' = [tids EXCEPT ![i] = -1]
              /\ Pass("interrupt")
    /\ UNCHANGED <<process, Rest>>

\* The slots whose thread was stopped.
Slots == {k \in Index : k <= tid_count /\ tids[k] > 0}

Work(name) ==
    /\ pc = "interrupt" /\ i > tid_count /\ op = name
    /\ pc' = "detach" /\ i' = 1
    /\ UNCHANGED <<state, traced, op, ents, nr_threads, tids, tid_count,
                   num_checkpoints, requests>>

store_threads_registers ==
    /\ Work("checkpoint")
    /\ tregs' = [k \in Index |-> IF k \in Slots THEN regs[tids[k]] ELSE tregs[k]]
    /\ saved' = regs
    /\ UNCHANGED regs

\* Mutant: the registers are those of the next slot.
BugNextSlot ==
    /\ Work("restore")
    /\ regs' = [t \in Thread |->
                  IF \E k \in Slots : tids[k] = t
                  THEN tregs[IF tid_count > 1 THEN ((CHOOSE k \in Slots : tids[k] = t) % tid_count) + 1
                                              ELSE 1]
                  ELSE regs[t]]
    /\ UNCHANGED <<tregs, saved>>

restore_threads_registers ==
    /\ Work("restore")
    /\ regs' = [t \in Thread |-> IF \E k \in Slots : tids[k] = t
                                 THEN tregs[CHOOSE k \in Slots : tids[k] = t]
                                 ELSE regs[t]]
    /\ UNCHANGED <<tregs, saved>>

DiffOnly == Work("diff") /\ UNCHANGED <<regs, tregs, saved>>

\* Mutant: detaching ends one entry early.
BugDetachEarly ==
    /\ pc = "detach" /\ i >= tid_count
    /\ pc' = "idle" /\ op' = "none" /\ i' = 1
    /\ UNCHANGED <<process, ents, nr_threads, tids, tid_count, tregs, num_checkpoints,
                   requests, saved>>

\* detach_or_cont_process(.., 1): each stopped thread runs again.
Detach ==
    /\ pc = "detach" /\ i <= tid_count
    /\ Pass("detach")
    /\ IF tids[i] > 0 /\ state[tids[i]] \in {"stop", "sigstop"}
       THEN /\ state' = [state EXCEPT ![tids[i]] = "run"]
            /\ traced' = traced \ {tids[i]}
       ELSE UNCHANGED <<state, traced>>
    /\ UNCHANGED <<regs, tids, Rest>>

\* The end of the operation: the function gets its reply.
Reply ==
    /\ pc = "detach" /\ i > tid_count
    /\ pc' = "idle" /\ op' = "none" /\ i' = 1
    /\ UNCHANGED <<process, ents, nr_threads, tids, tid_count, tregs, num_checkpoints,
                   requests, saved>>

Attach == SeizeNext \/ TooManyThreads \/ AllSeized \/ Interrupt \/ wait4
Finish == store_threads_registers \/ restore_threads_registers \/ DiffOnly \/ Detach \/ Reply

Next == Threads \/ checkpoint \/ Request \/ Attach \/ Finish

\* The manager runs, and a thread that is interrupted stops.
Spec ==
    /\ Init /\ [][Next]_vars
    /\ WF_vars(Attach) /\ WF_vars(Finish)
    /\ \A t \in Thread : WF_vars(Stops(t))

-------------------------------------------------------------------------------
\* The manager's indexes stay within its arrays.
TypeOK ==
    /\ state \in [Thread -> {"unborn", "run", "stop", "sigstop", "gone"}]
    /\ traced \subseteq Thread
    /\ regs \in [Thread -> Registers] /\ saved \in [Thread -> Registers]
    /\ tregs \in [Index -> Registers]
    /\ pc \in {"idle", "seize", "interrupt", "wait", "detach", "aborted"}
    /\ op \in {"none", "checkpoint", "restore", "diff"}
    /\ ents \subseteq Thread /\ nr_threads \in 0..MaxThreads
    /\ tids \in [Index -> Thread \cup {0, -1}]
    /\ tid_count \in 0..MaxThreads
    /\ i \in 1..(MaxThreads + 1) /\ (pc = "wait" => i <= tid_count)
    /\ num_checkpoints \in Nat /\ requests \in 0..MaxRequests

\* While the manager copies or writes the memory of the function, none of its
\* threads runs (the work of an operation lies between the last wait4 and the
\* first detach).
AllStopped == pc = "interrupt" /\ i > tid_count => \A t \in Living : state[t] # "run"

\* A restore gives every thread the registers it had at the checkpoint itself,
\* although they are kept by position and the positions are found anew.
RegistersRestored ==
    [][pc = "interrupt" /\ pc' = "detach" /\ op = "restore"
         => \A t \in Living : regs'[t] = saved[t]]_vars

\* After an operation no thread is left in a stop that nobody will end.
NothingHeld == pc = "idle" => \A t \in Living : state[t] = "run"

\* Every operation comes to its end, whatever threads come and go: the manager
\* does not wait for a thread that will never stop (if an assertion fails it
\* ends, and PTRACE_O_EXITKILL ends the function).
OperationEnds == pc # "idle" ~> pc \in {"idle", "aborted"}
==============================================================================
