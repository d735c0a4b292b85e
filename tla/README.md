# A verification project for groundhog and faasafe

`src/groundhog_origin/` is groundhog, a manager that keeps a FaaS function in a
child process, takes a snapshot of it once, and puts the process back to that
snapshot after every request. `src/src/` is the beginning of faasafe, a
successor of its launcher. This directory models groundhog in TLA+: TLC checks
the models on small instances, TLAPS proves the most important properties for
every value of the constants.

## The system

| part | source | state | operations | module |
|---|---|---|---|---|
| map comparison | `mem_diff.c`, `diff_process_maps` in `proc_cr.c` | two arrays of map entries, two indexes, four result lists | one turn of the scan per verdict | `MapRegions`, `MapDiff` |
| checkpoint and restore of memory | `proc_cr.c`, `mem_helpers.c`, `proc_parsers.c` | the snapshot (maps, pages, `wmem`), the captured current state, the differences, the list of discards | `checkpoint_process_sd`, the stages of `restore_process_sd` | `CheckpointRestore` over `AddressSpace` |
| manager session | `communicator.c`, `groundhog-launcher.c`, `c_lib_tracee.c` | five pipes, the command loop, `num_checkpoints`, `num_revived`, `scratchmem` | one action per command and per step of a command, the forwarding threads, the end of the process | `Session`, with the abstract `Container` |
| thread control | `proc_control.c`, register functions of `proc_cr.c` | `tids[]`, `tid_count`, `tregs[]`, the ptrace state of each thread | seize, interrupt, wait, store and restore registers, detach | `ThreadControl` |
| system call injection | `syscall_injector.c` | `original_regs`, `peekdata`, the registers and one instruction of the leader | `do_clean_syscall` and the checks of its callers | `SyscallInjector`; the effect of the calls in `AddressSpace` |
| parsing of `/proc` | `proc_parsers.c`, `mem_helpers.c` | the read buffer, the list of regions, the page table and its capacity | `read_maps`, `add_to_maps`, `read_range_pagemap`, `add_page_to_map` | `ReadMaps` |
| launch | `launch`, `controller` in `groundhog-launcher.c` | five pipes, the descriptor tables of parent and child | pipe, fork, close, dup2, exec, the two waits | `Launch` |
| privileges | `libs/proc_privileges.c` | real, effective and saved ids, groups | `spc_drop_privileges(1)` | a step of the child in `Launch` |
| thread pool | `libs/thpool.c` | job queue, binary semaphore, counters, `threads_keepalive` | init, add, wait, destroy, `thread_do`; only with `CONCURRENCY > 1` | `ThreadPool` |
| JSON writer | `libs/jWrite.c` | buffer, node stack, error | open, insert, end, close | `JsonWriter` |
| statistics | `libs/xstats.c`, `stat_*.c` | counters | the dump, a client of the writer | `JsonWriter`; counters and histograms not modelled |
| faasafe launcher and library | `src/src/` | the same pipes | `launch`, `controller`, four questions of the function | the second program of `Launch` |
| printing, tables, debugging dumps, snapshot files | `print_helpers.c`, `libs/constants.c`, `libs/fpu.h`, `dump_sd_bits/`, end of `proc_cr.c` | none that a decision depends on | | not modelled |

How they interact: the platform writes requests to the manager's stdin and reads
responses from its stdout. Two threads of the manager copy lines between those
and the function's pipes. The function uses a second pair of pipes for commands:
`checkpoint_me` once, `restore_me` after every request. The command loop
(`handle_stdcmd`) answers each with one line, after it has attached to all threads
of the function with ptrace, read `/proc/PID/{maps,pagemap,mem}`, injected system
calls, written memory, put back registers and detached. After the restore the
function stands where it stood in `checkpoint_me`, so the acknowledgement of
`restore.me` is what `checkpoint_me` reads.

What is hard: the function may do anything to its address space between two
restores, and the manager sees only counts, bits and ranges; threads keep running
until the last one is stopped; the forwarding threads and the command loop run
concurrently with the function and with each other; the process goes back in time
while its pipes do not.

What makes each part correct:

* comparison: the lists name exactly the regions to unmap, map, protect and refill;
* restore: every page has its old protection, backing and content, no assertion fails;
* session: no response depends on another request, none is lost, each question has
  one answer, the container lives for exactly `keepalive` requests;
* threads: nothing runs while memory is handled, each thread gets its own registers,
  nothing stays stopped;
* injection: each call is made once, and the function goes on with its own text and
  registers or not at all;
* picture of memory: every region is listed once, every page is found in its slot;
* launch: each end of a pipe is held by one process, at the number it is expected at;
  a started function cannot take privileges back; the launcher ends with it;
* pool: no job is lost or repeated, wait means done, destroy ends;
* writer: for clean names and values, what it accepts as complete is JSON.

## Modules

**`MapRegions`** defines a map entry (`map_t`) as a record. Addresses are counted in
pages; `tag` stands for `p`, offset, device, inode and name. It also defines what
the comparison computes, as sets (`MissingFrom`, `ReprotectedMaps`, `ModifiedMaps`).

**`MapDiff`** is the scan: `Verdict` is `diff_process_maps_iterator`, the actions
`Identical`, `Modified`, ... are the cases of the loop. The lists are sets, because
the code only ever iterates over them.

**`AddressSpace`** is the kernel as groundhog uses it. A page has a protection and
backing, a content, perhaps a frame, perhaps the soft-dirty bit. Neighbouring areas
with equal attributes may or may not be merged, and the model takes both.

**`CheckpointRestore`** has an action for `checkpoint_process_sd`, one for each stage
of `restore_process_sd`, and one for each thing a function can do to its memory.
Both comparisons use the operators of `MapRegions` in one step; `MapDiff!ListsMatch`
(proved) is the reason why that is sound. Page contents are `OldVal(p)` at the
checkpoint, so that a page restored from the wrong offset of `wmem` shows. The
second `clear_soft_dirty_bits` of a checkpoint, and the one of every restore, zero the
counters in the snapshot's maps (`clear_counters`): a region is passed over only if
none of its pages is dirty and each of them has a frame, whatever it had at the
checkpoint. Frames that reads alone have brought stay then; `WrittenFramesDropped` is
therefore about frames that were written. The heap ends, as in
`get_map_index_by_name`, with its first map that another name follows. `Tame`
states what the restore takes for granted; the processes and functions of the run
are so (`TameProcess`), and those of the proofs. Left out: swap, shared mappings, registers, and the rlimit calls around `munmap` of the
stack.

**`Container`** is what the platform is promised: one request at a time, answered
from its own data, `Keepalive` requests and then retirement. **`Session`** is the
manager with its threads and the function; its snapshot is the whole function
record, because whether memory really comes back is the subject of
`CheckpointRestore`. The function's buffered stdin is part of its memory, its pipes
are not. `Session` is shown to implement `Container` (`ImplementsContainer`).

**`ThreadControl`** is the life of the function's threads against the loops over
`/proc/PID/task` and `tids[]`. The listing is read in one piece (one `getdents`).
A traced thread that gets a signal stops until the tracer acts; a new thread is
not traced.

**`SyscallInjector`** has one action per ptrace request of `do_clean_syscall`.
Between any two, a signal may arrive and either process may be killed. The local
variables are `Garbage` until they are written, because the code goes on after most
failures. A signal that stops the step is waited for and then dropped: the next
step is made with signal 0. Only the leader is in the model; that no other thread
executes the overwritten instruction is `ThreadControl!AllStopped`. The branch
where the call returns its own number only matters for `do_fork`, which has no
caller.

**`ReadMaps`** is how a picture of memory is put together: lines that are read in
any portions, cut at their ends, passed over when the region is the kernel's; then
one job per region that fills the page table. `Slot` is the arithmetic that
`CheckpointRestore` relies on when it finds the same page in two pictures.

**`Launch`** has both launchers. A descriptor table is a function from numbers to
ends of pipes; the launcher may be started with any of the first five numbers
closed. The ends a process closes are a set: where two variables name one number, the
code's second close fails and ends the child; the model has that end at the first
`dup2`, whose number is then below 3 and closed too. The closes of a process are one step, because nobody else sees its table.
The kernel's rules for `setregid`, `setegid` and `seteuid` are external.

**`ThreadPool`** has one step per critical section and one per access outside of
them; condition variables may wake up for nothing. A worker that was counted out but
still has to unlock `thcount_lock` is `"leaving"`.

**`JsonWriter`** keeps, next to the number of characters in the buffer, how a reader
of JSON stands after them (`ReadOpener`, `ReadKey`, ...: the specification). Its two
clients are one that makes any calls and the dump of the statistics. A name or value
is its length and whether it is `"plain"` or `"raw"`: raw is a string with a quote or
a backslash, which `jwPutstr` copies, or a number that `modp_dtoa2` writes as `nan`. A
client is `Careful` if it passes plain ones (`Texts`) and stops at `jwClose`
(`GoesOn = FALSE`). The statistics are plain: their names are literals, their points
counts and times. The client that makes any calls is one or the other by its constants.

The `MC*` modules give the constants their values.

## Runs

| run | shows | bounds |
|---|---|---|
| `map_diff` | the scan is exact, ends, stays in its arrays | every pair of layouts of four pages, the first one with cleared counters; a current region is untouched, written, given frames, read-only or re-backed: all seven verdicts, splits, merges, growth at either end |
| `restore` | `RestoredIdentical`, `NeverAborts`, `CleanMeansUnchanged`, `WrittenFramesDropped` | eight pages, thirty-six initial spaces, two operations per request, two restores: an operation on each side of a boundary, and the effects of one restore on the next |
| `session` | isolation, one answer per question, refinement, keepalive | five requests against a keepalive of four, three outstanding, two calls per request |
| `session_serial` | no request lost, every request answered | the same, one outstanding; the function saves and gets back data, and may exit |
| `threads` | all stopped, own registers | three threads, signals, two requests |
| `threads_busy` | operations end, nothing is held | three threads, two slots, threads come and go |
| `syscall_injector` | `CallsAreClean`, `NotHalfRestored`, `CallEnds` | two calls, three made, two signals: a signal in two steps of one call or in two calls, and the rest of one call meeting the next |
| `read_maps` | `Listed`, `PagesInPlace`, `TableStays` | four lines of one or two pages, read in one to four portions, two jobs at a time |
| `launch` | `Wired`, `HeldOnce`, `PrivilegesDropped`, `LauncherEnds` | both launchers, any of the descriptors 0 to 4 open, 14 numbers (ten ends and what may be open besides), ids 0 (root) to 2, so that a setuid and a setgid start differ |
| `thread_pool` | counters, jobs, wait, destroy | three workers, four jobs in any number of rounds: more jobs than workers and more workers than jobs |
| `json_writer` | `ClosedIsJson`, `StackIsText`, `StatsFit` | a `Careful` client, a stack of three, buffers of 0, 2, 7, 16 and 30; the 42 statistics in full size |

One run states what a document says and finds that the code does otherwise:
`session_pipelined` (`NoRequestLost`). Requests are forwarded at once, and one that
the function's stdio has read ahead is lost in the restore; the README of groundhog
says that they are held by "buffering them in Groundhog".

The passing runs stay away from this and from the following, which the same
models show when the constants let them:

* `mprotect` of a part of the heap stays (`remove_added_memory` and
  `restore_removed_memory` both skip `[heap]`): `HeapOps` for `FunctionOps`,
  `MaxOps = 1`, `MaxRestores = 1`, `RestoredIdentical`;
* strings are copied without escapes (`jWrite.c:289`), a number that is none becomes
  `nan` (`jWrite.c:425`), and `jwClose` accepts the text, although `jWrite.h:29` says
  that the writer "handles string quoting" and `jWrite.h:7` that its error trapping is
  "to ensure that the result is valid JSON": `Texts = {"plain", "raw"}`,
  `ClosedIsJson`;
* `jwClose` leaves the writer as it was: a second one appends another closer and
  returns `JWRITE_OK`, although `jWrite.h:30` says that its result tells an incorrect
  sequence of calls: `GoesOn = TRUE`, `Texts = {"plain"}`, `ClosedIsJson`;
* a second `checkpoint.me` blocks in `wait4`, because the process is no longer
  traced: `Calls = {"checkpoint.me"}`, `MaxCalls = 1`, `EveryAskAnswered`;
* the last response may still be in the pipe when the manager exits: `Calls = {}`,
  `Keepalive = 2`, `ResponsesForwarded`;
* registers move to other threads when one has exited: `Late = {"exit"}`,
  `RegistersRestored`;
* a region that was `PROT_NONE` at the checkpoint is not refilled
  (`restore_soft_dirty_memory` skips it): put such a region into `InitialSpaces`;
* a split or replaced file mapping comes back anonymous: `"remap_file"` in
  `FunctionOps`; and so do two neighbouring ones of one file that `mprotect` has made
  alike, because the kernel then shows one map: put a read-only and a writable one
  side by side into `InitialSpaces`;
* a page that is discarded and then read stays zero, because it has a clean frame
  again: `RereadOps`, `MaxOps = 2`, `MaxRestores = 1`;
* `scratchmem` crosses restores, so that `Isolated` needs a function without
  `save_for.me`: `"save_for.me"` and `"give_back.me"` in `Calls`;
* `give_back.me` before any `save_for.me` reads uninitialised memory and may write
  nothing, so that the function waits for ever: `"blind"` in `Calls`;
* the assertion at the end of `controller` fails when the function exits early:
  `"exit"` in `Calls`;
* a thread started during the attach is not stopped: `"clone"` in `Late`;
* a signal between seize and interrupt fails the assertion of `interrupt_process`
  (`proc_control.c:171`): `"signal"` in `Late`;
* beyond `MAX_THREADS` threads stay traced, and a signal stops one for good:
  `MaxThreads < MaxTid` and `"signal"` in `Late`; when it was the first checkpoint,
  no registers are stored, and a later restore may write unset ones;
* an ordinary line that follows one of the kernel's in the same read is lost. The
  kernel puts its own last: `SpecialsLast` in `Listed`.

Other behaviour that the models have and no property judges:

* a failed read of the page map ends the manager by an assertion, and a failed step
  of an injected call may; `PTRACE_O_EXITKILL` then ends the function
  (`NotHalfRestored`);
* in the branch for linux, `spc_drop_privileges` sets the group to the number of the
  user (`proc_privileges.c:54`) and never the user, so that a setuid start always
  aborts: the check that follows keeps `PrivilegesDropped`;
* a launcher that was started with 0, 1 or 2 closed ends before the function starts;
  a failed start ends groundhog's launcher by the assertion at its end when
  `keepalive` is at least two;
* faasafe's launcher does not read its command pipe: a function that asks waits until
  it is killed;
* a worker of the pool may unlock `thcount_lock` after the pool was freed;
  `thpool_init` spins for ever when a thread could not be made;
* an error in a call of the writer may be overwritten by a later one of the same call;
  a text that fills the buffer exactly has no terminating NUL, although `jWrite.h:132`
  says it always has; `end_json_stats` ignores the error, which `StatsFit` shows never
  to happen.

Fairness. `MapDiff`: the loop runs. `Session`: weak fairness of the two forwarding
threads, of the manager's command loop and of the function, which are threads and
processes the kernel schedules; nothing is assumed of the platform or of the
function's exit. `ThreadControl`: weak fairness of the manager's loops and of the
stop of an interrupted thread, which the kernel owes. `SyscallInjector`: weak
fairness of a call that was begun and of the kernel; nothing makes signals arrive.
`Launch`: weak fairness of both processes; the function need not ask or end.
`ThreadPool`: weak fairness of every thread, of the caller only inside a call; jobs
end. `ReadMaps` and `JsonWriter` state no liveness. No strong fairness is used.
Deadlock is not checked: a finished scan, an idle container and an ended manager
are proper ends.

## Proofs

`MapDiffProofs`, for all layouts (`LayoutAssumption`: sorted and disjoint, as
`/proc/PID/maps` is). The invariant `IInv` says that the lists hold exactly what
the passed regions deserve, and that no region ahead of one index has a
counterpart behind the other; the second part is what makes it inductive, since a
region filed as removed must not meet its counterpart later. From it follow
`RemapIsExact`, `MunmapRepaired`, `ChangesRestored`, `ShapeRestored`,
`ScanComputesDiff`; `TypeCorrect` and `ScanMoves` need only the indexes.

`SessionProofs`, for any number of requests, any platform, any keepalive, any
calls. The invariant `IInv` is about the conversation: a command that will be
answered is the last one in the pipe and its sender waits (`Questions`), the
manager only works for a function that waits (`Handling`), a reply finds nothing
else in flight (`Replies`), and the snapshot is the function in `checkpoint_me`
(`Stored`). Without it a late reply would let the function leave `restore_me`
before it was restored. From it follow the types, that `num_revived` stays below
`Keepalive`, `KeptAlive` (for functions that do not exit by themselves) and
`RequestIsolation` (for functions that do not use `save_for.me`, which carries data
across restores). Three more results rest on it:

* `OneAnswerComing`: `IInv` says that there is at most one answer; `Waited`, that a
  function that waits has not been forgotten, makes it exactly one. The hypothesis
  `"blind" \notin Calls` keeps it from asking for what was never saved, which the
  manager may answer with nothing (`SavedFirst`).
* `SessionImplementsContainer`: the refinement, without `save_for.me`. The abstract
  state is what is sent, pending, in work and answered; that the front of the queue
  is the oldest request wherever it lies needs `InOrder` over function, pipe and
  queue, that a restore takes no pending request with it needs `NothingBuffered`
  (what a read-ahead loses is lost in `Container` too), that `Container` retires when
  the manager ends needs `Tallied`: responses are the restores, plus one while a
  request is done and its restore is not.
* `SerialLosesNothing`: with `MaxOutstanding <= 1` the last request is on its way
  until it is answered, and the ones before it are answered (`OneAtATime`). The run
  `session_pipelined` is the same property with two outstanding requests: the
  hypothesis cannot go.

`CheckpointRestoreProofs`, for address spaces of any size, any initial spaces and any
number of operations and restores, assuming `Tame`. Each part of that assumption is a
limit of the code, and without it the model shows the restore fail (see Runs):

* no `split_heap`, `remap_file`, `load_freed`: the function protects the heap as a
  whole, replaces and splits no file mapping, and does not read again what it has
  discarded;
* neighbours of one file, and the pages of the stack, have one protection (`Fused`);
* heap and stack are in one piece, the heap is read-write, and both have room to grow
  that nothing is mapped into (`HeapMax`, `StackMin`, `MapArea`);
* a region that can neither be read nor written has no frame, and its protection is
  not changed;
* a page without a frame holds what backs it (`Backed`), as the kernel has it, and
  areas that differ in nothing are kept apart in anonymous memory only.

The manager compares maps, and the theorem is about pages. So the first part of the
module says of a picture (`IsPicture`) which pages the two comparisons name:
a page is `Paired` when both pictures have the same map around it, and what is
unmapped, mapped again or protected are the unpaired pages of one picture or the
other, and the paired ones whose protections differ. The invariant `IInv` then has
three parts. `Layout` is `Laid` while the function runs (files stay, the heap is moved
or protected but not both, the stack grows, everything else changes in `MapArea`
only), and one description of every page per stage of the restore, up to the layout of
the checkpoint; `c` in these is the space when the restore began, which the manager
only remembers as maps. `Contents` is `Content` until the contents are written: a
clean frame holds the old content. A region that the second comparison passes over
has the counters of the snapshot, which are 0, so that each of its pages has a clean
frame (`SameCountsCleanFrames`) and `Content` says what it holds. `Steady` is the snapshot itself. From `IInv` follow
`RestoreIsExact`, `RestoreNeverAborts`, `SoftDirtyBitsTell`, `RestoreDropsFrames` and
`TypeCorrect`.

`ThreadControlProofs`, for any number of threads, slots and requests. `HInv` says
that a stopped thread is in a slot that the loops have yet to leave; without signals
nothing is then left stopped (`NothingStaysHeld`). `AInv` says that for threads that
stay the same and fit `tids[]` (the assumptions of these theorems) each loop has
covered the slots behind it, and that the listing begins with the leader. From it
follows `AllAreStoppedAtWork`; with `SameListing`, that two listings of the same
threads are the same sequence, follows `OwnRegistersRestored`. That assumption is
what the code makes by storing registers by position.

The last section of `ThreadControlProofs` is about `SyscallInjector`, for any calls,
signals and bounds; the two modules share no names, so that one can extend both.
`Progress` says for each step what text and registers the
function has, what the manager has saved, and how many calls were made. It is
inductive because a signal stop leaves `rax` as it was.

`ReadMapsProofs`, for files of any length and any number of jobs at a time. The
slots of the regions are disjoint and below the capacity (`MapsOK`), so that no job
writes over the pages of another one or grows the table (`JobsOK`); what a line is
taken for is itself or a region of the kernel before it (`ScanOK`).

`LaunchProofs`, for any identities: user and group are untouched until the drop
(`Untouched`), and from there on real, effective and saved ids agree (`Dropped`),
which is what the check at the end of `spc_drop_privileges` comes to. From it follows
`StartedUnprivileged`. For `FunctionWired` and `EndsHeldOnce`, with any descriptors open
at the start and any limit on them, `WInv` follows both tables: the pipes get ascending
numbers, because the kernel gives the lowest free ones (`Ascending`, `Full`); each
process then holds its half and nothing else of them (`Parents`, `Childs`); and a
`dup2` of the child overwrites no end that it has still to move, because the targets
ascend too.

`ThreadPoolProofs`, for any finite set of workers: the counters are the numbers of
workers in parts of `thread_do` (`TypeOK`); every worker has reached its loop before
a job is added (`Ready`), without which a worker that starts late could enter a freed
pool; nothing is queued or run once the wait has returned (`NothingLeft`), and nobody
can come back to the queue when it is freed (`Deserted`).

`JsonWriterProofs`, for any buffer, stack depth and, but for `StatisticsFit`, any
`Careful` client: while there is no error,
the reader stands in the nodes of the stack, before a first element if the count of
the top is zero and after one otherwise (`Match`). Without `Careful` the reader may be
lost while the writer sees no error (`Texts` and `GoesOn`, see Runs). `StatisticsFit`
bounds the text of the dump before each of its calls (`Stage`): it never gets an error
if what it may write fits (`Fits`), which TLC evaluates for the real numbers
(`StatsAssumption` in `MCJsonWriter`): 42 statistics, names of up to 54 characters and
numbers of up to 18 come to 14263 of 16384.

Only model-checked: liveness (`Terminates`, `EveryRequestAnswered`,
`EveryAskAnswered`, `OperationEnds`, `NotHalfRestored`, `CallEnds`, `LauncherEnds`,
`WaitReturns`, `DestroyReturns`), which is out of the prover's reach. Every invariant
and every other property of a passing run is a theorem. The
types of `MapDiff`, `Session`, `CheckpointRestore`, `ThreadControl` and
`SyscallInjector` are proved and not repeated in the runs.

## Not modelled

Printing, the table of system call names and the external dump of soft-dirty bits
decide nothing. Snapshot files are a debugging aid whose read the session never
reaches. The histograms of `xstats` only count. `thpool_pause`, `thpool_resume`,
`get_tids`, `spc_restore_privileges`, `do_fork` and `do_dup2` have no caller.

## Plan

1. Proofs: that `MapDiff` and the comparison operators of `CheckpointRestore` compute
   the same from the same two pictures, as one theorem instead of two that meet at
   `MissingFrom`, `ReprotectedMaps` and `ModifiedMaps`; weaker forms of `Tame`, for
   instance a function that makes neighbouring file mappings alike and is not restored
   exactly, but loses no page of any other mapping.
2. The buckets of `xstats` (`add_point` with values at and beyond both ends); the
   width of the stack growth in `zero_stack`.
