------------------------------ MODULE ThreadPool ------------------------------
(***************************************************************************)
(* The thread pool of libs/thpool.c and the way groundhog uses it when     *)
(* CONCURRENCY > 1 (config.h): controller makes it, populate_page_info,    *)
(* populate_memory_copy_info and restore_soft_dirty_memory each add one    *)
(* job per region and then call thpool_wait, and controller destroys it    *)
(* between two such rounds.  thpool_pause, thpool_resume and               *)
(* thpool_num_threads_working have no caller.                              *)
(*                                                                         *)
(* One step of a thread is one critical section (thcount_lock, rwmutex and *)
(* the mutex of has_jobs) or one access outside of them.  thpool_wait      *)
(* reads the length of the queue without rwmutex; it may still be one step *)
(* with the read of num_threads_working, because thcount_lock is held: the *)
(* queue can only get shorter, and a worker is counted before it pulls.    *)
(* All condition variables may wake up spuriously.                         *)
(***************************************************************************)
EXTENDS Integers, Sequences, FiniteSets, Functions

CONSTANTS
    Workers,    \* the threads of the pool: num_threads of them
    MaxJobs     \* bound: jobs added in the life of the pool

ASSUME PoolAssumption == IsFiniteSet(Workers) /\ MaxJobs \in Nat

VARIABLES
    mpc,                    \* where the thread is that uses the pool
    wpc,                    \* where each worker is
    job,                    \* the job a worker has pulled
    jobqueue,               \* jobs in the order in which they were added
    has_jobs,               \* the binary semaphore
    num_threads_alive, num_threads_working,
    threads_keepalive,
    submitted,              \* jobs 1..submitted were added
    finished                \* jobs whose function has returned

counters == <<num_threads_alive, num_threads_working, threads_keepalive>>
queue    == <<jobqueue, has_jobs>>
client   == <<mpc, submitted>>
worker   == <<wpc, job, finished>>
vars     == <<client, worker, queue, counters>>

Job   == 1..MaxJobs
NoJob == 0

Init ==
    /\ mpc = "init"
    /\ wpc = [w \in Workers |-> "unborn"]
    /\ job = [w \in Workers |-> NoJob]
    /\ jobqueue = <<>> /\ has_jobs = FALSE
    /\ num_threads_alive = 0 /\ num_threads_working = 0
    /\ threads_keepalive = TRUE
    /\ submitted = 0 /\ finished = {}

Asleep == {w \in Workers : wpc[w] = "asleep"}

Goes(w, from, to) == wpc[w] = from /\ wpc' = [wpc EXCEPT ![w] = to]

-------------------------------------------------------------------------------
(* The semaphore: who sleeps in bsem_wait is woken up, and looks again. *)

\* bsem_post wakes one sleeper, if there is one.  workers is what wpc becomes
\* apart from that.
bsem_post(workers) ==
    /\ has_jobs' = TRUE
    /\ LET sleepers == {w \in Workers : workers[w] = "asleep"} IN
       IF sleepers = {} THEN wpc' = workers
       ELSE \E w \in sleepers : wpc' = [workers EXCEPT ![w] = "wait"]

\* Mutant: the condition is set, and nobody is told.
BugNoBroadcast == has_jobs' = TRUE /\ UNCHANGED wpc

bsem_post_all ==
    /\ has_jobs' = TRUE
    /\ wpc' = [w \in Workers |-> IF w \in Asleep THEN "wait" ELSE wpc[w]]

bsem_wait(w) ==
    /\ IF has_jobs THEN Goes(w, "wait", "got") ELSE Goes(w, "wait", "asleep")
    /\ has_jobs' = FALSE
    /\ UNCHANGED <<client, job, finished, jobqueue, counters>>

-------------------------------------------------------------------------------
(* The thread that uses the pool. *)

\* thpool_init makes the threads one after the other.  thread_init may fail,
\* and its result is not looked at.
thread_init(w) ==
    /\ mpc = "init"
    /\ \/ Goes(w, "unborn", "born")
       \/ Goes(w, "unborn", "failed")
    /\ UNCHANGED <<client, job, finished, queue, counters>>

ThreadsMade ==
    /\ mpc = "init"
    /\ \A w \in Workers : wpc[w] # "unborn"
    /\ mpc' = "spin"
    /\ UNCHANGED <<submitted, worker, queue, counters>>

\* The busy loop at the end of thpool_init.
PoolReady ==
    /\ mpc = "spin"
    /\ num_threads_alive = Cardinality(Workers)
    /\ mpc' = "adding"
    /\ UNCHANGED <<submitted, worker, queue, counters>>

\* thpool_add_work with jobqueue_push.
thpool_add_work ==
    /\ mpc = "adding"
    /\ submitted < MaxJobs
    /\ submitted' = submitted + 1
    /\ jobqueue' = Append(jobqueue, submitted')
    /\ bsem_post(wpc)
    /\ UNCHANGED <<mpc, job, finished, counters>>

thpool_wait ==
    /\ mpc = "adding"
    /\ mpc' = "waiting"
    /\ UNCHANGED <<submitted, worker, queue, counters>>

\* Mutant: the jobs that are being run are not waited for.
BugQueueOnly ==
    /\ mpc = "waiting"
    /\ mpc' = IF jobqueue # <<>> THEN "idle_wait" ELSE "captured"
    /\ UNCHANGED <<submitted, worker, queue, counters>>

\* The condition of the loop in thpool_wait.
AllIdle ==
    /\ mpc = "waiting"
    /\ mpc' = IF jobqueue # <<>> \/ num_threads_working # 0 THEN "idle_wait"
              ELSE "captured"
    /\ UNCHANGED <<submitted, worker, queue, counters>>

\* The caller uses what the jobs have read and goes on to the next round.
NextRound ==
    /\ mpc = "captured"
    /\ mpc' = "adding"
    /\ UNCHANGED <<submitted, worker, queue, counters>>

\* controller calls thpool_destroy once the function has ended.
thpool_destroy ==
    /\ mpc = "captured"
    /\ mpc' = "reaping"
    /\ threads_keepalive' = FALSE
    /\ UNCHANGED <<submitted, worker, queue, num_threads_alive, num_threads_working>>

\* Both loops of thpool_destroy: with and without the timeout.
Poll ==
    /\ mpc = "reaping"
    /\ num_threads_alive # 0
    /\ bsem_post_all
    /\ UNCHANGED <<client, job, finished, jobqueue, counters>>

\* Mutant: the pool is freed when no job is being run.
BugFreeIdle ==
    /\ mpc = "reaping"
    /\ num_threads_working = 0
    /\ mpc' = "freed"
    /\ jobqueue' = <<>> /\ has_jobs' = FALSE
    /\ UNCHANGED <<submitted, worker, counters>>

\* jobqueue_destroy and the calls of free.
Free ==
    /\ mpc = "reaping"
    /\ num_threads_alive = 0
    /\ mpc' = "freed"
    /\ jobqueue' = <<>> /\ has_jobs' = FALSE
    /\ UNCHANGED <<submitted, worker, counters>>

-------------------------------------------------------------------------------
(* thread_do. *)

Alive(w) ==
    /\ Goes(w, "born", "loop")
    /\ num_threads_alive' = num_threads_alive + 1
    /\ UNCHANGED <<client, job, finished, queue, num_threads_working, threads_keepalive>>

Loop(w) ==
    /\ IF threads_keepalive THEN Goes(w, "loop", "wait") ELSE Goes(w, "loop", "exiting")
    /\ UNCHANGED <<client, job, finished, queue, counters>>

\* threads_keepalive is looked at again after the wait.
Count(w) ==
    /\ IF threads_keepalive
       THEN /\ Goes(w, "got", "counted")
            /\ num_threads_working' = num_threads_working + 1
       ELSE /\ Goes(w, "got", "exiting")
            /\ UNCHANGED num_threads_working
    /\ UNCHANGED <<client, job, finished, queue, num_threads_alive, threads_keepalive>>

\* Mutants: who leaves jobs behind does not post; the front stays in the queue
\* when there are more jobs.
BugNoPost(w) ==
    /\ IF jobqueue = <<>>
       THEN Goes(w, "counted", "ran") /\ UNCHANGED <<job, queue>>
       ELSE /\ Goes(w, "counted", "running")
            /\ job' = [job EXCEPT ![w] = Head(jobqueue)]
            /\ jobqueue' = Tail(jobqueue)
            /\ UNCHANGED has_jobs
    /\ UNCHANGED <<client, finished, counters>>
BugFrontStays(w) ==
    /\ wpc[w] = "counted"
    /\ IF jobqueue = <<>>
       THEN Goes(w, "counted", "ran") /\ UNCHANGED <<job, queue>>
       ELSE /\ job' = [job EXCEPT ![w] = Head(jobqueue)]
            /\ IF Len(jobqueue) > 1
               THEN UNCHANGED jobqueue /\ bsem_post([wpc EXCEPT ![w] = "running"])
               ELSE /\ jobqueue' = <<>>
                    /\ Goes(w, "counted", "running") /\ UNCHANGED has_jobs
    /\ UNCHANGED <<client, finished, counters>>

\* Who leaves jobs behind posts the semaphore again: it is binary, and several
\* jobs may have been added since it was taken.
jobqueue_pull(w) ==
    /\ wpc[w] = "counted"
    /\ IF jobqueue = <<>>
       THEN Goes(w, "counted", "ran") /\ UNCHANGED <<job, queue>>
       ELSE /\ job' = [job EXCEPT ![w] = Head(jobqueue)]
            /\ jobqueue' = Tail(jobqueue)
            /\ IF Len(jobqueue) > 1
               THEN bsem_post([wpc EXCEPT ![w] = "running"])
               ELSE Goes(w, "counted", "running") /\ UNCHANGED has_jobs
    /\ UNCHANGED <<client, finished, counters>>

\* func_buff(arg_buff) returns.
RunJob(w) ==
    /\ Goes(w, "running", "ran")
    /\ finished' = finished \cup {job[w]}
    /\ job' = [job EXCEPT ![w] = NoJob]
    /\ UNCHANGED <<client, queue, counters>>

\* Mutant: a worker that found the queue empty stays counted.
BugStaysCounted(w) ==
    /\ Goes(w, "ran", "loop")
    /\ num_threads_working' = IF jobqueue = <<>> /\ Asleep # {} THEN num_threads_working
                              ELSE num_threads_working - 1
    /\ mpc' = IF num_threads_working' = 0 /\ mpc = "idle_wait" THEN "waiting" ELSE mpc
    /\ UNCHANGED <<submitted, job, finished, queue, num_threads_alive, threads_keepalive>>

\* The last one to become idle wakes up thpool_wait.
Uncount(w) ==
    /\ Goes(w, "ran", "loop")
    /\ num_threads_working' = num_threads_working - 1
    /\ mpc' = IF num_threads_working' = 0 /\ mpc = "idle_wait" THEN "waiting" ELSE mpc
    /\ UNCHANGED <<submitted, job, finished, queue, num_threads_alive, threads_keepalive>>

\* The thread is not alive from here on, but has yet to release thcount_lock.
NotAlive(w) ==
    /\ Goes(w, "exiting", "leaving")
    /\ num_threads_alive' = num_threads_alive - 1
    /\ UNCHANGED <<client, job, finished, queue, num_threads_working, threads_keepalive>>

Leave(w) ==
    /\ Goes(w, "leaving", "gone")
    /\ UNCHANGED <<client, job, finished, queue, counters>>

Spurious ==
    \/ /\ \E w \in Workers : Goes(w, "asleep", "wait")
       /\ UNCHANGED <<client, job, finished, queue, counters>>
    \/ /\ mpc = "idle_wait" /\ mpc' = "waiting"
       /\ UNCHANGED <<submitted, worker, queue, counters>>

thread_do(w) ==
    \/ Alive(w) \/ Loop(w) \/ bsem_wait(w) \/ Count(w) \/ jobqueue_pull(w)
    \/ RunJob(w) \/ Uncount(w) \/ NotAlive(w) \/ Leave(w)

\* What a call of the pool does until it returns.
PoolCall ==
    \/ \E w \in Workers : thread_init(w)
    \/ ThreadsMade \/ PoolReady \/ AllIdle \/ Poll \/ Free

Client == thpool_add_work \/ thpool_wait \/ NextRound \/ thpool_destroy

Next == PoolCall \/ Client \/ Spurious \/ \E w \in Workers : thread_do(w)

\* Every thread is scheduled, and every job ends; nobody need add jobs.
Fairness == WF_vars(PoolCall) /\ \A w \in Workers : WF_vars(thread_do(w))

Spec == Init /\ [][Next]_vars /\ Fairness

-------------------------------------------------------------------------------
Place == {"unborn", "failed", "born", "loop", "wait", "asleep", "got", "counted",
          "running", "ran", "exiting", "leaving", "gone"}

\* The workers that num_threads_working and num_threads_alive stand for.
Counted == {w \in Workers : wpc[w] \in {"counted", "running", "ran"}}
Living  == {w \in Workers :
               wpc[w] \in {"loop", "wait", "asleep", "got", "counted", "running",
                           "ran", "exiting"}}

\* The two counters say how many workers are in which part of thread_do,
\* and only a worker that runs one has a job.
TypeOK ==
    /\ mpc \in {"init", "spin", "adding", "waiting", "idle_wait", "captured",
                "reaping", "freed"}
    /\ wpc \in [Workers -> Place]
    /\ job \in [Workers -> Job \cup {NoJob}]
    /\ \A w \in Workers : job[w] # NoJob <=> wpc[w] = "running"
    /\ jobqueue \in Seq(Job)
    /\ has_jobs \in BOOLEAN /\ threads_keepalive \in BOOLEAN
    /\ num_threads_alive = Cardinality(Living)
    /\ num_threads_working = Cardinality(Counted)
    /\ submitted \in 0..MaxJobs
    /\ finished \subseteq Job

Running == {w \in Workers : wpc[w] = "running"}

\* Every job that was added is in one place: in the queue, with one worker, or
\* finished.  None is run twice, and none is lost between push and pull
\* (jobqueue_push, jobqueue_pull, thread_do).
JobsAccounted ==
    LET held == {job[w] : w \in Running} IN
    /\ 1..submitted = Range(jobqueue) \cup held \cup finished
    /\ Range(jobqueue) \cap held = {}
    /\ (Range(jobqueue) \cup held) \cap finished = {}
    /\ IsInjective(jobqueue)
    /\ \A w, x \in Running : job[w] = job[x] => w = x

\* When thpool_wait returns, every region that was handed out has been read or
\* restored: its caller goes on to use the result (populate_page_info,
\* restore_soft_dirty_memory).
ResultsComplete == mpc = "captured" => finished = 1..submitted

\* The pool is freed only when every worker has left its loop, and no job is
\* thrown away by jobqueue_clear.
FreedAfterLoops ==
    mpc = "freed" =>
        /\ \A w \in Workers : wpc[w] \in {"failed", "leaving", "gone"}
        /\ finished = 1..submitted

\* thpool_wait returns: the binary semaphore never leaves jobs behind while all
\* the workers sleep, and the one signal to threads_all_idle is not missed.
WaitReturns == mpc \in {"waiting", "idle_wait"} ~> mpc = "captured"

\* thpool_destroy returns, wherever the workers were when it cleared
\* threads_keepalive.
DestroyReturns == mpc = "reaping" ~> mpc = "freed"
==============================================================================
