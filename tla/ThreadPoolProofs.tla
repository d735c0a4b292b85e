--------------------------- MODULE ThreadPoolProofs ---------------------------
(***************************************************************************)
(* ThreadPool for any number of workers and of jobs: the two counters, the *)
(* place of every job, and what holds when thpool_wait and thpool_destroy  *)
(* return.                                                                 *)
(***************************************************************************)
EXTENDS ThreadPool, FiniteSetTheorems, TLAPS

\* thpool_init returns when all of the workers are in their loops.
Ready == mpc \notin {"init", "spin"} =>
             \A w \in Workers : wpc[w] \notin {"unborn", "born", "failed"}

\* Nothing is added after thpool_wait, so nothing is left to run.
NothingLeft == mpc \in {"captured", "reaping", "freed"} => jobqueue = <<>> /\ Running = {}

\* The pool is freed when nobody can come back to it.
Deserted == mpc = "freed" => \A w \in Workers : wpc[w] \in {"leaving", "gone"}

IInv == TypeOK /\ JobsAccounted /\ Ready /\ NothingLeft /\ Deserted

-------------------------------------------------------------------------------
(* Counting workers. *)

LEMMA CountFacts ==
    ASSUME NEW S \in SUBSET Workers, NEW w \in Workers
    PROVE  /\ IsFiniteSet(S) /\ Cardinality(S) \in Nat
           /\ w \notin S => Cardinality(S \cup {w}) = Cardinality(S) + 1
           /\ w \in S => Cardinality(S \ {w}) = Cardinality(S) - 1
  <1>1. IsFiniteSet(S)
    BY PoolAssumption, FS_Subset
  <1>2. Cardinality(S) \in Nat
    BY <1>1, FS_CardinalityType
  <1>3. w \notin S => Cardinality(S \cup {w}) = Cardinality(S) + 1
    BY <1>1, FS_AddElement
  <1>4. w \in S => Cardinality(S \ {w}) = Cardinality(S) - 1
    BY <1>1, FS_RemoveElement
  <1>5. QED
    BY <1>1, <1>2, <1>3, <1>4

LEMMA AllCounted ==
    ASSUME NEW S \in SUBSET Workers, Cardinality(S) = Cardinality(Workers)
    PROVE  S = Workers
  <1>1. IsFiniteSet(Workers)
    BY PoolAssumption
  <1>2. QED
    BY <1>1, FS_Subset

LEMMA NoneCounted ==
    ASSUME NEW S \in SUBSET Workers, Cardinality(S) = 0
    PROVE  S = {}
  <1>1. IsFiniteSet(S)
    BY PoolAssumption, FS_Subset
  <1>2. QED
    BY <1>1, FS_EmptySet

\* A worker that goes from one place to another leaves the others where they are.
LEMMA Moves ==
    ASSUME TypeOK, NEW w \in Workers, NEW from, NEW to \in Place, Goes(w, from, to)
    PROVE  /\ wpc' \in [Workers -> Place]
           /\ wpc[w] = from /\ wpc'[w] = to
           /\ \A x \in Workers \ {w} : wpc'[x] = wpc[x]
  BY DEF TypeOK, Goes

\* bsem_post moves at most one worker, from its sleep to another look at the
\* semaphore.
LEMMA Posts ==
    ASSUME NEW workers \in [Workers -> Place], bsem_post(workers)
    PROVE  /\ wpc' \in [Workers -> Place] /\ has_jobs'
           /\ \A x \in Workers : wpc'[x] # workers[x] =>
                 workers[x] = "asleep" /\ wpc'[x] = "wait"
  BY DEF bsem_post, Place

-------------------------------------------------------------------------------
(* The types, and what the two counters count. *)

\* The parts of TypeOK that do not count.
Shape ==
    /\ mpc \in {"init", "spin", "adding", "waiting", "idle_wait", "captured",
                "reaping", "freed"}
    /\ wpc \in [Workers -> Place]
    /\ job \in [Workers -> Job \cup {NoJob}]
    /\ \A w \in Workers : job[w] # NoJob <=> wpc[w] = "running"
    /\ jobqueue \in Seq(Job)
    /\ has_jobs \in BOOLEAN /\ threads_keepalive \in BOOLEAN
    /\ submitted \in 0..MaxJobs
    /\ finished \subseteq Job

Counts ==
    /\ num_threads_alive = Cardinality(Living)
    /\ num_threads_working = Cardinality(Counted)

LEMMA TypeParts == TypeOK <=> Shape /\ Counts
  BY DEF TypeOK, Shape, Counts

LEMMA InitType == Init => IInv
  <1> SUFFICES ASSUME Init PROVE IInv
    OBVIOUS
  <1>1. Shape
    <2>1. <<>> \in Seq(Job)
      OBVIOUS
    <2>2. wpc \in [Workers -> Place] /\ job \in [Workers -> Job \cup {NoJob}]
      BY DEF Init, Place
    <2>3. \A w \in Workers : job[w] = NoJob /\ wpc[w] = "unborn"
      BY DEF Init
    <2>4. submitted \in 0..MaxJobs
      BY PoolAssumption DEF Init
    <2>5. QED
      BY <2>1, <2>2, <2>3, <2>4 DEF Init, Shape
  <1>2. Living = {} /\ Counted = {} /\ Running = {}
    BY DEF Init, Living, Counted, Running
  <1>3. Counts
    BY <1>2, FS_EmptySet DEF Init, Counts
  <1>4. JobsAccounted
    BY <1>2 DEF Init, JobsAccounted, Range, IsInjective
  <1>5. Ready /\ NothingLeft /\ Deserted
    BY DEF Init, Ready, NothingLeft, Deserted
  <1>6. QED
    BY <1>1, <1>3, <1>4, <1>5, TypeParts DEF IInv

LEMMA QueueFacts ==
    ASSUME NEW S, NEW s \in Seq(S), s # <<>>
    PROVE  Head(s) \in S /\ Tail(s) \in Seq(S)
  OBVIOUS

LEMMA ShapeStep == TypeOK /\ [Next]_vars => Shape'
  <1> SUFFICES ASSUME TypeOK, [Next]_vars PROVE Shape'
    OBVIOUS
  <1> USE DEF Shape
  <1>0. Shape
    BY TypeParts
  <1>1. ASSUME NEW w \in Workers, thread_init(w) PROVE Shape'
    BY <1>0, <1>1 DEF thread_init, Goes, client, queue, counters, Place
  <1>2. CASE ThreadsMade
    BY <1>0, <1>2 DEF ThreadsMade, worker, queue, counters
  <1>3. CASE PoolReady
    BY <1>0, <1>3 DEF PoolReady, worker, queue, counters
  <1>4. CASE thpool_add_work
    <2>1. submitted' \in Job /\ submitted' \in 0..MaxJobs
      BY <1>0, <1>4, PoolAssumption DEF thpool_add_work, Job
    <2>2. jobqueue' \in Seq(Job)
      BY <1>0, <1>4, <2>1 DEF thpool_add_work
    <2>3. /\ wpc' \in [Workers -> Place] /\ has_jobs'
          /\ \A x \in Workers : wpc'[x] # wpc[x] => wpc[x] = "asleep" /\ wpc'[x] = "wait"
      <3>1. wpc \in [Workers -> Place] /\ bsem_post(wpc)
        BY <1>0, <1>4 DEF thpool_add_work
      <3>2. QED
        BY <3>1, Posts
    <2>4. \A x \in Workers : job'[x] # NoJob <=> wpc'[x] = "running"
      BY <1>0, <1>4, <2>3 DEF thpool_add_work
    <2>5. QED
      BY <1>0, <1>4, <2>1, <2>2, <2>3, <2>4 DEF thpool_add_work, counters
  <1>5. CASE thpool_wait
    BY <1>0, <1>5 DEF thpool_wait, worker, queue, counters
  <1>6. CASE AllIdle
    BY <1>0, <1>6 DEF AllIdle, worker, queue, counters
  <1>7. CASE NextRound
    BY <1>0, <1>7 DEF NextRound, worker, queue, counters
  <1>8. CASE thpool_destroy
    BY <1>0, <1>8 DEF thpool_destroy, worker, queue
  <1>9. CASE Poll
    BY <1>0, <1>9 DEF Poll, bsem_post_all, Asleep, client, counters, Place
  <1>10. CASE Free
    <2>1. <<>> \in Seq(Job)
      OBVIOUS
    <2>2. QED
      BY <1>0, <1>10, <2>1 DEF Free, worker, counters
  <1>11. ASSUME NEW w \in Workers, Alive(w) PROVE Shape'
    BY <1>0, <1>11 DEF Alive, Goes, client, queue, Place
  <1>12. ASSUME NEW w \in Workers, Loop(w) PROVE Shape'
    BY <1>0, <1>12 DEF Loop, Goes, client, queue, counters, Place
  <1>13. ASSUME NEW w \in Workers, bsem_wait(w) PROVE Shape'
    BY <1>0, <1>13 DEF bsem_wait, Goes, client, counters, Place
  <1>14. ASSUME NEW w \in Workers, Count(w) PROVE Shape'
    BY <1>0, <1>14 DEF Count, Goes, client, queue, Place
  <1>15. ASSUME NEW w \in Workers, jobqueue_pull(w) PROVE Shape'
    <2>1. CASE jobqueue = <<>>
      BY <1>0, <1>15, <2>1 DEF jobqueue_pull, Goes, client, queue, counters, Place
    <2>2. CASE jobqueue # <<>>
      <3>1. Head(jobqueue) \in Job /\ Tail(jobqueue) \in Seq(Job)
        BY <1>0, <2>2, QueueFacts
      <3>2. Head(jobqueue) # NoJob
        BY <3>1, PoolAssumption DEF Job, NoJob
      <3>3. [wpc EXCEPT ![w] = "running"] \in [Workers -> Place]
        BY <1>0 DEF Place
      <3>4. /\ wpc' \in [Workers -> Place] /\ has_jobs' \in BOOLEAN
            /\ wpc'[w] = "running"
            /\ \A x \in Workers \ {w} : wpc'[x] # wpc[x] =>
                  wpc[x] = "asleep" /\ wpc'[x] = "wait"
        <4>1. CASE Len(jobqueue) > 1
          <5>1. bsem_post([wpc EXCEPT ![w] = "running"])
            BY <1>15, <2>2, <4>1 DEF jobqueue_pull
          <5>2. QED
            BY <1>0, <3>3, <5>1, Posts
        <4>2. CASE ~(Len(jobqueue) > 1)
          BY <1>0, <1>15, <2>2, <3>3, <4>2 DEF jobqueue_pull, Goes
        <4>3. QED
          BY <4>1, <4>2
      <3>5. job' = [job EXCEPT ![w] = Head(jobqueue)] /\ jobqueue' = Tail(jobqueue)
        BY <1>15, <2>2 DEF jobqueue_pull
      <3>6. UNCHANGED <<client, finished, counters>>
        BY <1>15 DEF jobqueue_pull
      <3>7. \A x \in Workers : job'[x] # NoJob <=> wpc'[x] = "running"
        BY <1>0, <3>2, <3>4, <3>5
      <3>8. QED
        BY <1>0, <3>1, <3>4, <3>5, <3>6, <3>7 DEF client, counters
    <2>3. QED
      BY <2>1, <2>2
  <1>16. ASSUME NEW w \in Workers, RunJob(w) PROVE Shape'
    BY <1>0, <1>16 DEF RunJob, Goes, client, queue, counters, Place
  <1>17. ASSUME NEW w \in Workers, Uncount(w) PROVE Shape'
    BY <1>0, <1>17 DEF Uncount, Goes, queue, Place
  <1>18. ASSUME NEW w \in Workers, NotAlive(w) PROVE Shape'
    BY <1>0, <1>18 DEF NotAlive, Goes, client, queue, Place
  <1>19. ASSUME NEW w \in Workers, Leave(w) PROVE Shape'
    BY <1>0, <1>19 DEF Leave, Goes, client, queue, counters, Place
  <1>20. CASE Spurious
    BY <1>0, <1>20 DEF Spurious, Goes, client, worker, queue, counters, Place
  <1>21. CASE UNCHANGED vars
    BY <1>0, <1>21 DEF vars, client, worker, queue, counters
  <1>22. QED
    BY <1>1, <1>2, <1>3, <1>4, <1>5, <1>6, <1>7, <1>8, <1>9, <1>10, <1>11, <1>12, <1>13,
       <1>14, <1>15, <1>16, <1>17, <1>18, <1>19, <1>20, <1>21
       DEF Next, PoolCall, Client, thread_do

\* A step that moves no worker into or out of the counted places, and writes no
\* counter.
LEMMA NobodyMoves ==
    ASSUME TypeOK, UNCHANGED <<num_threads_alive, num_threads_working>>,
           NEW w \in Workers,
           \A x \in Workers \ {w} : wpc'[x] # wpc[x] => {wpc[x], wpc'[x]} \subseteq {"wait", "asleep"},
           wpc[w] \in {"loop", "wait", "asleep", "got", "exiting"} <=>
              wpc'[w] \in {"loop", "wait", "asleep", "got", "exiting"},
           wpc[w] \in {"counted", "running", "ran"} <=> wpc'[w] \in {"counted", "running", "ran"}
    PROVE  Counts'
  <1>1. Living' = Living
    BY DEF Living
  <1>2. Counted' = Counted
    BY DEF Counted
  <1>3. QED
    BY <1>1, <1>2, TypeParts DEF Counts

LEMMA CountsStep == TypeOK /\ [Next]_vars => Counts'
  <1> SUFFICES ASSUME TypeOK, [Next]_vars PROVE Counts'
    OBVIOUS
  <1>0. Shape /\ Counts
    BY TypeParts
  <1> DEFINE Resting(x) == wpc'[x] # wpc[x] => {wpc[x], wpc'[x]} \subseteq {"wait", "asleep"}
  <1>1. ASSUME \A x \in Workers : Resting(x),
               UNCHANGED <<num_threads_alive, num_threads_working>>
        PROVE  Counts'
    <2>1. Living' = Living /\ Counted' = Counted
      BY <1>1 DEF Living, Counted
    <2>2. QED
      BY <1>0, <1>1, <2>1 DEF Counts
  <1>2. ASSUME NEW w \in Workers, thread_init(w) PROVE Counts'
    <2>1. /\ wpc[w] = "unborn" /\ wpc'[w] \in {"born", "failed"}
          /\ \A x \in Workers \ {w} : wpc'[x] = wpc[x]
      BY <1>0, <1>2 DEF thread_init, Goes, Shape
    <2>2. QED
      BY <1>2, <2>1, NobodyMoves DEF thread_init, counters
  <1>3. CASE ThreadsMade \/ PoolReady \/ thpool_wait \/ AllIdle \/ NextRound
             \/ thpool_destroy \/ Free
    BY <1>1, <1>3 DEF ThreadsMade, PoolReady, thpool_wait, AllIdle, NextRound,
       thpool_destroy, Free, worker, counters
  <1>4. CASE thpool_add_work
    <2>1. \A x \in Workers : Resting(x)
      <3>1. wpc \in [Workers -> Place] /\ bsem_post(wpc)
        BY <1>0, <1>4 DEF thpool_add_work, Shape
      <3>2. QED
        BY <3>1, Posts
    <2>2. QED
      BY <1>1, <1>4, <2>1 DEF thpool_add_work, counters
  <1>5. CASE Poll
    BY <1>0, <1>1, <1>5 DEF Poll, bsem_post_all, Asleep, counters, Shape
  <1>6. ASSUME NEW w \in Workers, Alive(w) PROVE Counts'
    <2>1. /\ wpc[w] = "born" /\ wpc'[w] = "loop"
          /\ \A x \in Workers \ {w} : wpc'[x] = wpc[x]
      BY <1>0, <1>6 DEF Alive, Goes, Shape
    <2>2. w \notin Living /\ Living' = Living \cup {w} /\ Counted' = Counted
      BY <2>1 DEF Living, Counted
    <2>3. Cardinality(Living \cup {w}) = Cardinality(Living) + 1
      BY <2>2, CountFacts DEF Living
    <2>4. QED
      BY <1>0, <1>6, <2>2, <2>3 DEF Counts, Alive
  <1>7. ASSUME NEW w \in Workers, Loop(w) PROVE Counts'
    <2>1. /\ wpc[w] = "loop" /\ wpc'[w] \in {"wait", "exiting"}
          /\ \A x \in Workers \ {w} : wpc'[x] = wpc[x]
      BY <1>0, <1>7 DEF Loop, Goes, Shape
    <2>2. QED
      BY <1>7, <2>1, NobodyMoves DEF Loop, counters
  <1>8. ASSUME NEW w \in Workers, bsem_wait(w) PROVE Counts'
    <2>1. /\ wpc[w] = "wait" /\ wpc'[w] \in {"got", "asleep"}
          /\ \A x \in Workers \ {w} : wpc'[x] = wpc[x]
      BY <1>0, <1>8 DEF bsem_wait, Goes, Shape
    <2>2. QED
      BY <1>8, <2>1, NobodyMoves DEF bsem_wait, counters
  <1>9. ASSUME NEW w \in Workers, Count(w) PROVE Counts'
    <2>1. CASE threads_keepalive
      <3>1. /\ wpc[w] = "got" /\ wpc'[w] = "counted"
            /\ \A x \in Workers \ {w} : wpc'[x] = wpc[x]
        BY <1>0, <1>9, <2>1 DEF Count, Goes, Shape
      <3>2. w \notin Counted /\ Counted' = Counted \cup {w} /\ Living' = Living
        BY <3>1 DEF Living, Counted
      <3>3. Cardinality(Counted \cup {w}) = Cardinality(Counted) + 1
        BY <3>2, CountFacts DEF Counted
      <3>4. QED
        BY <1>0, <1>9, <2>1, <3>2, <3>3 DEF Counts, Count
    <2>2. CASE ~threads_keepalive
      <3>1. /\ wpc[w] = "got" /\ wpc'[w] = "exiting"
            /\ \A x \in Workers \ {w} : wpc'[x] = wpc[x]
        BY <1>0, <1>9, <2>2 DEF Count, Goes, Shape
      <3>2. QED
        BY <1>9, <2>2, <3>1, NobodyMoves DEF Count
    <2>3. QED
      BY <2>1, <2>2
  <1>10. ASSUME NEW w \in Workers, jobqueue_pull(w) PROVE Counts'
    <2>1. /\ wpc[w] = "counted" /\ wpc'[w] \in {"ran", "running"}
          /\ \A x \in Workers \ {w} : Resting(x)
      <3>1. CASE jobqueue = <<>> \/ ~(Len(jobqueue) > 1)
        BY <1>0, <1>10, <3>1 DEF jobqueue_pull, Goes, Shape
      <3>2. CASE jobqueue # <<>> /\ Len(jobqueue) > 1
        <4>1. bsem_post([wpc EXCEPT ![w] = "running"]) /\ wpc[w] = "counted"
          BY <1>10, <3>2 DEF jobqueue_pull
        <4>2. [wpc EXCEPT ![w] = "running"] \in [Workers -> Place]
          BY <1>0 DEF Shape, Place
        <4>3. QED
          BY <1>0, <4>1, <4>2, Posts DEF Shape
      <3>3. QED
        BY <3>1, <3>2
    <2>2. QED
      BY <1>10, <2>1, NobodyMoves DEF jobqueue_pull, counters
  <1>11. ASSUME NEW w \in Workers, RunJob(w) PROVE Counts'
    <2>1. /\ wpc[w] = "running" /\ wpc'[w] = "ran"
          /\ \A x \in Workers \ {w} : wpc'[x] = wpc[x]
      BY <1>0, <1>11 DEF RunJob, Goes, Shape
    <2>2. QED
      BY <1>11, <2>1, NobodyMoves DEF RunJob, counters
  <1>12. ASSUME NEW w \in Workers, Uncount(w) PROVE Counts'
    <2>1. /\ wpc[w] = "ran" /\ wpc'[w] = "loop"
          /\ \A x \in Workers \ {w} : wpc'[x] = wpc[x]
      BY <1>0, <1>12 DEF Uncount, Goes, Shape
    <2>2. w \in Counted /\ Counted' = Counted \ {w} /\ Living' = Living
      BY <2>1 DEF Living, Counted
    <2>3. Cardinality(Counted \ {w}) = Cardinality(Counted) - 1
      BY <2>2, CountFacts DEF Counted
    <2>4. QED
      BY <1>0, <1>12, <2>2, <2>3 DEF Counts, Uncount
  <1>13. ASSUME NEW w \in Workers, NotAlive(w) PROVE Counts'
    <2>1. /\ wpc[w] = "exiting" /\ wpc'[w] = "leaving"
          /\ \A x \in Workers \ {w} : wpc'[x] = wpc[x]
      BY <1>0, <1>13 DEF NotAlive, Goes, Shape
    <2>2. w \in Living /\ Living' = Living \ {w} /\ Counted' = Counted
      BY <2>1 DEF Living, Counted
    <2>3. Cardinality(Living \ {w}) = Cardinality(Living) - 1
      BY <2>2, CountFacts DEF Living
    <2>4. QED
      BY <1>0, <1>13, <2>2, <2>3 DEF Counts, NotAlive
  <1>14. ASSUME NEW w \in Workers, Leave(w) PROVE Counts'
    <2>1. /\ wpc[w] = "leaving" /\ wpc'[w] = "gone"
          /\ \A x \in Workers \ {w} : wpc'[x] = wpc[x]
      BY <1>0, <1>14 DEF Leave, Goes, Shape
    <2>2. QED
      BY <1>14, <2>1, NobodyMoves DEF Leave, counters
  <1>15. CASE Spurious
    BY <1>0, <1>1, <1>15 DEF Spurious, Goes, worker, counters, Shape
  <1>16. CASE UNCHANGED vars
    BY <1>1, <1>16 DEF vars, worker, counters
  <1>17. QED
    BY <1>2, <1>3, <1>4, <1>5, <1>6, <1>7, <1>8, <1>9, <1>10, <1>11, <1>12, <1>13,
       <1>14, <1>15, <1>16 DEF Next, PoolCall, Client, thread_do

LEMMA TypeStep == TypeOK /\ [Next]_vars => TypeOK'
  <1>1. TypeOK' <=> Shape' /\ Counts'
    BY DEF TypeOK, Shape, Counts
  <1>2. QED
    BY <1>1, ShapeStep, CountsStep

-------------------------------------------------------------------------------
(* Where the jobs are. *)

\* JobsAccounted with the sets spelled out.
Accounted(q, running, assigned, done, n) ==
    /\ \A j : j \in 1..n <=> \/ \E i \in 1..Len(q) : q[i] = j
                             \/ \E w \in running : assigned[w] = j
                             \/ j \in done
    /\ \A i \in 1..Len(q) : q[i] \notin done /\ \A w \in running : assigned[w] # q[i]
    /\ \A w \in running : assigned[w] \notin done
    /\ \A i, k \in 1..Len(q) : q[i] = q[k] => i = k
    /\ \A w, x \in running : assigned[w] = assigned[x] => w = x

LEMMA SameMembers ==
    ASSUME NEW S, NEW T
    PROVE  S = T <=> \A j : j \in S <=> j \in T
  OBVIOUS

LEMMA Apart ==
    ASSUME NEW S, NEW T
    PROVE  S \cap T = {} <=> \A j \in S : j \notin T
  OBVIOUS

LEMMA AccountedIsJobsAccounted ==
    ASSUME NEW q \in Seq(Job), NEW R, NEW f, NEW D, NEW n
    PROVE  Accounted(q, R, f, D, n) <=>
              /\ 1..n = Range(q) \cup {f[w] : w \in R} \cup D
              /\ Range(q) \cap {f[w] : w \in R} = {}
              /\ (Range(q) \cup {f[w] : w \in R}) \cap D = {}
              /\ IsInjective(q)
              /\ \A w, x \in R : f[w] = f[x] => w = x
  <1> DEFINE sets == /\ 1..n = Range(q) \cup {f[w] : w \in R} \cup D
                     /\ Range(q) \cap {f[w] : w \in R} = {}
                     /\ (Range(q) \cup {f[w] : w \in R}) \cap D = {}
                     /\ IsInjective(q)
                     /\ \A w, x \in R : f[w] = f[x] => w = x
             held == {f[w] : w \in R}
             queued == {q[i] : i \in 1..Len(q)}
  <1>1. DOMAIN q = 1..Len(q)
    OBVIOUS
  <1>2. Range(q) = queued
    BY <1>1 DEF Range
  <1>3. IsInjective(q) <=>
           \A i, k \in 1..Len(q) : q[i] = q[k] => i = k
    BY <1>1 DEF IsInjective
  <1>4. /\ \A j : j \in held <=> \E w \in R : f[w] = j
        /\ \A j : j \in queued <=> \E i \in 1..Len(q) : q[i] = j
    OBVIOUS
  <1>5. sets <=>
          /\ 1..n = queued \cup held \cup D
          /\ queued \cap held = {} /\ (queued \cup held) \cap D = {}
          /\ IsInjective(q)
          /\ \A w, x \in R : f[w] = f[x] => w = x
    BY <1>2 DEF sets
  <1> HIDE DEF held, queued, sets
  <1>6. sets <=>
          /\ \A j : j \in 1..n <=> j \in queued \/ j \in held \/ j \in D
          /\ \A j \in queued : j \notin D /\ j \notin held
          /\ \A j \in held : j \notin D
          /\ \A i, k \in 1..Len(q) : q[i] = q[k] => i = k
          /\ \A w, x \in R : f[w] = f[x] => w = x
    <2> DEFINE all == queued \cup held \cup D
               some == queued \cup held
    <2>1. 1..n = all <=> \A j : j \in 1..n <=> j \in all
      BY SameMembers
    <2>2. /\ \A j : j \in all <=> j \in queued \/ j \in held \/ j \in D
          /\ \A j : j \in some <=> j \in queued \/ j \in held
      OBVIOUS
    <2>3. queued \cap held = {} <=> \A j \in queued : j \notin held
      BY Apart
    <2>4. some \cap D = {} <=> \A j \in some : j \notin D
      BY Apart
    <2>5. sets <=>
            /\ 1..n = all
            /\ queued \cap held = {} /\ some \cap D = {}
            /\ IsInjective(q)
            /\ \A w, x \in R : f[w] = f[x] => w = x
      BY <1>5
    <2> HIDE DEF all, some
    <2>6. QED
      BY <1>3, <2>1, <2>2, <2>3, <2>4, <2>5
  <1>7. /\ (\A j \in queued : j \notin D /\ j \notin held) <=>
              \A i \in 1..Len(q) : /\ q[i] \notin D
                                    /\ \A w \in R : f[w] # q[i]
        /\ (\A j \in held : j \notin D) <=> \A w \in R : f[w] \notin D
    BY <1>4
  <1>8. sets <=> Accounted(q, R, f, D, n)
    BY <1>4, <1>6, <1>7 DEF Accounted
  <1>9. QED
    BY <1>8 DEF sets

LEMMA Accounts ==
    /\ TypeOK => (JobsAccounted <=> Accounted(jobqueue, Running, job, finished, submitted))
    /\ TypeOK' => (JobsAccounted' <=>
                      Accounted(jobqueue', Running', job', finished', submitted'))
  BY AccountedIsJobsAccounted DEF TypeOK, JobsAccounted

LEMMA AppendElements ==
    ASSUME NEW S, NEW s \in Seq(S), NEW e \in S
    PROVE  /\ Len(s) \in Nat /\ Len(Append(s, e)) = Len(s) + 1
           /\ \A i \in 1..Len(s) : Append(s, e)[i] = s[i]
           /\ Append(s, e)[Len(s) + 1] = e
  OBVIOUS

LEMMA TailElements ==
    ASSUME NEW S, NEW s \in Seq(S), s # <<>>
    PROVE  /\ Len(s) \in Nat /\ Len(s) > 0 /\ Len(Tail(s)) = Len(s) - 1
           /\ \A i \in 1..Len(Tail(s)) : Tail(s)[i] = s[i + 1]
           /\ Head(s) = s[1]
  OBVIOUS

\* A new job.
LEMMA JobAdded ==
    ASSUME NEW q \in Seq(Job), NEW R, NEW f, NEW D, NEW n \in Nat, n + 1 \in Job,
           Accounted(q, R, f, D, n)
    PROVE  Accounted(Append(q, n + 1), R, f, D, n + 1)
  <1> DEFINE a == Append(q, n + 1)
  <1>1. /\ Len(q) \in Nat /\ Len(a) = Len(q) + 1
        /\ \A i \in 1..Len(q) : a[i] = q[i]
        /\ a[Len(q) + 1] = n + 1
    BY AppendElements
  <1> HIDE DEF a
  <1>2. /\ \A i \in 1..Len(q) : q[i] \in 1..n
        /\ \A w \in R : f[w] \in 1..n
        /\ \A j \in D : j \in 1..n
    BY DEF Accounted
  <1>3. n + 1 \notin 1..n /\ \A j : j \in 1..(n + 1) <=> j \in 1..n \/ j = n + 1
    OBVIOUS
  <1>4. \A i \in 1..Len(a) : i \in 1..Len(q) \/ (i = Len(q) + 1 /\ a[i] = n + 1)
    BY <1>1
  <1>5. \A j : (\E i \in 1..Len(a) : a[i] = j) <=> j = n + 1 \/ \E i \in 1..Len(q) : q[i] = j
    BY <1>1, <1>4
  <1>6. \A j : j \in 1..(n + 1) <=> \/ \E i \in 1..Len(a) : a[i] = j
                                    \/ \E w \in R : f[w] = j
                                    \/ j \in D
    BY <1>3, <1>5 DEF Accounted
  <1>7. \A i \in 1..Len(a) : a[i] \notin D /\ \A w \in R : f[w] # a[i]
    BY <1>1, <1>2, <1>3, <1>4 DEF Accounted
  <1>8. \A i, k \in 1..Len(a) : a[i] = a[k] => i = k
    BY <1>1, <1>2, <1>3, <1>4 DEF Accounted
  <1>9. Accounted(a, R, f, D, n + 1)
    BY <1>6, <1>7, <1>8 DEF Accounted
  <1>10. QED
    BY <1>9 DEF a

\* The first job of the queue goes to worker w.
LEMMA JobPulled ==
    ASSUME NEW q \in Seq(Job), q # <<>>, NEW R, NEW f, NEW g, NEW D, NEW n, NEW w,
           w \notin R, g[w] = Head(q), \A x \in R : g[x] = f[x],
           Accounted(q, R, f, D, n)
    PROVE  Accounted(Tail(q), R \cup {w}, g, D, n)
  <1> DEFINE t == Tail(q)
  <1>1. /\ Len(q) \in Nat /\ Len(q) > 0 /\ Len(t) = Len(q) - 1
        /\ \A i \in 1..Len(t) : t[i] = q[i + 1]
        /\ g[w] = q[1]
    BY TailElements
  <1> HIDE DEF t
  <1>2. /\ 1 \in 1..Len(q)
        /\ \A i \in 1..Len(t) : i + 1 \in 1..Len(q) /\ i + 1 # 1
        /\ \A i \in 1..Len(q) : i = 1 \/ (i - 1 \in 1..Len(t) /\ t[i - 1] = q[i])
    BY <1>1
  <1>3. \A j : (\E i \in 1..Len(q) : q[i] = j) <=> j = q[1] \/ \E i \in 1..Len(t) : t[i] = j
    BY <1>1, <1>2
  <1>4. \A j : (\E x \in R \cup {w} : g[x] = j) <=> j = q[1] \/ \E x \in R : f[x] = j
    BY <1>1
  <1>5. \A j : j \in 1..n <=> \/ \E i \in 1..Len(t) : t[i] = j
                              \/ \E x \in R \cup {w} : g[x] = j
                              \/ j \in D
    BY <1>3, <1>4 DEF Accounted
  <1>6. \A i \in 1..Len(t) : t[i] \notin D /\ \A x \in R \cup {w} : g[x] # t[i]
    BY <1>1, <1>2 DEF Accounted
  <1>7. \A x \in R \cup {w} : g[x] \notin D
    BY <1>1, <1>2 DEF Accounted
  <1>8. \A i, k \in 1..Len(t) : t[i] = t[k] => i = k
    BY <1>1, <1>2 DEF Accounted
  <1>9. \A x, y \in R \cup {w} : g[x] = g[y] => x = y
    BY <1>1, <1>2 DEF Accounted
  <1>10. Accounted(t, R \cup {w}, g, D, n)
    BY <1>5, <1>6, <1>7, <1>8, <1>9 DEF Accounted
  <1>11. QED
    BY <1>10 DEF t

\* Worker w has run its job.
LEMMA JobRun ==
    ASSUME NEW q, NEW R, NEW f, NEW g, NEW D, NEW n, NEW w \in R,
           \A x \in R \ {w} : g[x] = f[x],
           Accounted(q, R, f, D, n)
    PROVE  Accounted(q, R \ {w}, g, D \cup {f[w]}, n)
  BY DEF Accounted

-------------------------------------------------------------------------------
(* The invariant. *)

\* When nothing is queued or run, everything has been run.
LEMMA AllFinished ==
    ASSUME JobsAccounted, jobqueue = <<>>, Running = {}
    PROVE  finished = 1..submitted
  <1>1. Range(jobqueue) = {}
    BY DEF Range
  <1>2. {job[w] : w \in Running} = {}
    OBVIOUS
  <1>3. 1..submitted = Range(jobqueue) \cup {job[w] : w \in Running} \cup finished
    BY DEF JobsAccounted
  <1>4. QED
    BY <1>1, <1>2, <1>3

LEMMA JobsStep == IInv /\ TypeOK' /\ [Next]_vars => JobsAccounted'
  <1> SUFFICES ASSUME IInv, TypeOK', [Next]_vars
               PROVE  Accounted(jobqueue', Running', job', finished', submitted')
    BY Accounts
  <1>0. /\ TypeOK /\ NothingLeft
        /\ Accounted(jobqueue, Running, job, finished, submitted)
    BY Accounts DEF IInv
  <1>1. ASSUME Running' = Running, UNCHANGED <<jobqueue, job, finished, submitted>>
        PROVE  Accounted(jobqueue', Running', job', finished', submitted')
    BY <1>0, <1>1
  <1>2. ASSUME NEW w \in Workers,
               \/ thread_init(w) \/ Alive(w) \/ Loop(w) \/ bsem_wait(w) \/ Count(w)
               \/ Uncount(w) \/ NotAlive(w) \/ Leave(w)
        PROVE  Accounted(jobqueue', Running', job', finished', submitted')
    <2>1. Running' = Running
      BY <1>0, <1>2 DEF thread_init, Alive, Loop, bsem_wait, Count, Uncount, NotAlive,
         Leave, Goes, Running, TypeOK
    <2>2. UNCHANGED <<jobqueue, job, finished, submitted>>
      BY <1>2 DEF thread_init, Alive, Loop, bsem_wait, Count, Uncount, NotAlive, Leave,
         client, queue
    <2>3. QED
      BY <1>1, <2>1, <2>2
  <1>3. CASE ThreadsMade \/ PoolReady \/ thpool_wait \/ AllIdle \/ NextRound
             \/ thpool_destroy
    BY <1>1, <1>3 DEF ThreadsMade, PoolReady, thpool_wait, AllIdle, NextRound,
       thpool_destroy, worker, queue, Running
  <1>4. CASE thpool_add_work
    <2>1. \A x \in Workers : wpc'[x] # wpc[x] => wpc[x] = "asleep" /\ wpc'[x] = "wait"
      <3>1. wpc \in [Workers -> Place] /\ bsem_post(wpc)
        BY <1>0, <1>4 DEF thpool_add_work, TypeOK
      <3>2. QED
        BY <3>1, Posts
    <2>2. Running' = Running
      BY <2>1 DEF Running
    <2>3. submitted \in Nat /\ submitted + 1 \in Job
      BY <1>0, <1>4, PoolAssumption DEF thpool_add_work, TypeOK, Job
    <2>4. jobqueue \in Seq(Job)
      BY <1>0 DEF TypeOK
    <2>5. Accounted(Append(jobqueue, submitted + 1), Running, job, finished, submitted + 1)
      BY <1>0, <2>3, <2>4, JobAdded
    <2>6. QED
      BY <1>4, <2>2, <2>5 DEF thpool_add_work
  <1>5. CASE Poll
    <2>1. Running' = Running
      BY <1>0, <1>5 DEF Poll, bsem_post_all, Asleep, Running, TypeOK
    <2>2. QED
      BY <1>1, <1>5, <2>1 DEF Poll, client
  <1>6. CASE Free
    BY <1>0, <1>1, <1>6 DEF Free, NothingLeft, worker, Running
  <1>7. ASSUME NEW w \in Workers, jobqueue_pull(w)
        PROVE  Accounted(jobqueue', Running', job', finished', submitted')
    <2>1. CASE jobqueue = <<>>
      <3>1. Running' = Running
        BY <1>0, <1>7, <2>1 DEF jobqueue_pull, Goes, Running, TypeOK
      <3>2. QED
        BY <1>1, <1>7, <2>1, <3>1 DEF jobqueue_pull, client, queue
    <2>2. CASE jobqueue # <<>>
      <3>1. /\ wpc[w] = "counted" /\ wpc'[w] = "running"
            /\ \A x \in Workers \ {w} : wpc'[x] # wpc[x] =>
                  wpc[x] = "asleep" /\ wpc'[x] = "wait"
        <4>1. CASE ~(Len(jobqueue) > 1)
          BY <1>0, <1>7, <2>2, <4>1 DEF jobqueue_pull, Goes, TypeOK
        <4>2. CASE Len(jobqueue) > 1
          <5>1. bsem_post([wpc EXCEPT ![w] = "running"]) /\ wpc[w] = "counted"
            BY <1>7, <2>2, <4>2 DEF jobqueue_pull
          <5>2. [wpc EXCEPT ![w] = "running"] \in [Workers -> Place]
            BY <1>0 DEF TypeOK, Place
          <5>3. QED
            BY <1>0, <5>1, <5>2, Posts DEF TypeOK
        <4>3. QED
          BY <4>1, <4>2
      <3>2. w \notin Running /\ Running' = Running \cup {w}
        BY <3>1 DEF Running
      <3>3. /\ job' = [job EXCEPT ![w] = Head(jobqueue)]
            /\ jobqueue' = Tail(jobqueue)
            /\ UNCHANGED <<finished, submitted>>
        BY <1>7, <2>2 DEF jobqueue_pull, client
      <3>4. job'[w] = Head(jobqueue) /\ \A x \in Running : job'[x] = job[x]
        BY <1>0, <3>2, <3>3 DEF TypeOK, Running
      <3>5. jobqueue \in Seq(Job)
        BY <1>0 DEF TypeOK
      <3>6. Accounted(Tail(jobqueue), Running \cup {w}, job', finished, submitted)
        BY <1>0, <2>2, <3>2, <3>4, <3>5, JobPulled
      <3>7. QED
        BY <3>2, <3>3, <3>6
    <2>3. QED
      BY <2>1, <2>2
  <1>8. ASSUME NEW w \in Workers, RunJob(w)
        PROVE  Accounted(jobqueue', Running', job', finished', submitted')
    <2>1. w \in Running /\ Running' = Running \ {w}
      BY <1>0, <1>8 DEF RunJob, Goes, Running, TypeOK
    <2>2. \A x \in Running \ {w} : job'[x] = job[x]
      BY <1>0, <1>8 DEF RunJob, TypeOK, Running
    <2>3. Accounted(jobqueue, Running \ {w}, job', finished \cup {job[w]}, submitted)
      BY <1>0, <2>1, <2>2, JobRun
    <2>4. QED
      BY <1>8, <2>1, <2>3 DEF RunJob, client, queue
  <1>9. CASE Spurious
    <2>1. Running' = Running
      BY <1>0, <1>9 DEF Spurious, Goes, Running, TypeOK, worker
    <2>2. QED
      BY <1>1, <1>9, <2>1 DEF Spurious, client, worker, queue
  <1>10. CASE UNCHANGED vars
    BY <1>1, <1>10 DEF vars, client, worker, queue, Running
  <1>11. QED
    BY <1>2, <1>3, <1>4, <1>5, <1>6, <1>7, <1>8, <1>9, <1>10
       DEF Next, PoolCall, Client, thread_do

\* How a step can move a worker.
LEMMA WorkerMoves ==
    ASSUME TypeOK, [Next]_vars, NEW x \in Workers, wpc'[x] # wpc[x]
    PROVE  \/ mpc = "init" /\ wpc[x] = "unborn" /\ wpc'[x] \in {"born", "failed"}
           \/ wpc[x] = "born" /\ wpc'[x] = "loop"
           \/ wpc[x] = "counted" /\ wpc'[x] = "running" /\ jobqueue # <<>>
           \/ wpc[x] = "exiting" /\ wpc'[x] = "leaving"
           \/ wpc[x] = "leaving" /\ wpc'[x] = "gone"
           \/ /\ wpc[x] \in {"loop", "wait", "asleep", "got", "counted", "running", "ran"}
              /\ wpc'[x] \in {"loop", "wait", "asleep", "got", "counted", "ran", "exiting"}
  <1>0. wpc \in [Workers -> Place]
    BY DEF TypeOK
  <1> DEFINE Moved ==
               \/ mpc = "init" /\ wpc[x] = "unborn" /\ wpc'[x] \in {"born", "failed"}
               \/ wpc[x] = "born" /\ wpc'[x] = "loop"
               \/ wpc[x] = "counted" /\ wpc'[x] = "running" /\ jobqueue # <<>>
               \/ wpc[x] = "exiting" /\ wpc'[x] = "leaving"
               \/ wpc[x] = "leaving" /\ wpc'[x] = "gone"
               \/ /\ wpc[x] \in {"loop", "wait", "asleep", "got", "counted", "running", "ran"}
                  /\ wpc'[x] \in {"loop", "wait", "asleep", "got", "counted", "ran", "exiting"}
  <1>1. ASSUME NEW w \in Workers,
               \/ thread_init(w) \/ Alive(w) \/ Loop(w) \/ bsem_wait(w) \/ Count(w)
               \/ RunJob(w) \/ Uncount(w) \/ NotAlive(w) \/ Leave(w)
        PROVE  Moved
    BY <1>0, <1>1 DEF thread_init, Alive, Loop, bsem_wait, Count, RunJob, Uncount,
       NotAlive, Leave, Goes
  <1>2. ASSUME NEW w \in Workers, jobqueue_pull(w) PROVE Moved
    <2>1. CASE jobqueue = <<>> \/ ~(Len(jobqueue) > 1)
      BY <1>0, <1>2, <2>1 DEF jobqueue_pull, Goes
    <2>2. CASE jobqueue # <<>> /\ Len(jobqueue) > 1
      <3>1. bsem_post([wpc EXCEPT ![w] = "running"]) /\ wpc[w] = "counted"
        BY <1>2, <2>2 DEF jobqueue_pull
      <3>2. [wpc EXCEPT ![w] = "running"] \in [Workers -> Place]
        BY <1>0 DEF Place
      <3>3. QED
        BY <1>0, <2>2, <3>1, <3>2, Posts
    <2>3. QED
      BY <2>1, <2>2
  <1>3. CASE thpool_add_work
    <2>1. bsem_post(wpc)
      BY <1>3 DEF thpool_add_work
    <2>2. QED
      BY <1>0, <2>1, Posts
  <1>4. CASE Poll
    BY <1>0, <1>4 DEF Poll, bsem_post_all, Asleep
  <1>5. CASE Spurious
    BY <1>0, <1>5 DEF Spurious, Goes, worker
  <1>6. CASE ThreadsMade \/ PoolReady \/ thpool_wait \/ AllIdle \/ NextRound
             \/ thpool_destroy \/ Free \/ UNCHANGED vars
    BY <1>6 DEF ThreadsMade, PoolReady, thpool_wait, AllIdle, NextRound, thpool_destroy,
       Free, vars, worker
  <1>7. QED
    BY <1>1, <1>2, <1>3, <1>4, <1>5, <1>6 DEF Next, PoolCall, Client, thread_do

\* How a step can move the thread that uses the pool.
LEMMA ClientMoves ==
    ASSUME TypeOK, [Next]_vars
    PROVE  \/ UNCHANGED <<mpc, jobqueue>>
           \/ mpc' = mpc /\ jobqueue # <<>> /\ jobqueue' = Tail(jobqueue)
           \/ mpc' = mpc /\ mpc = "adding"
           \/ mpc = "init" /\ mpc' = "spin"
           \/ /\ mpc = "spin" /\ mpc' = "adding"
              /\ num_threads_alive = Cardinality(Workers) /\ wpc' = wpc
           \/ mpc \in {"adding", "waiting", "idle_wait"} /\ mpc' \in {"waiting", "idle_wait"}
           \/ /\ mpc = "waiting" /\ mpc' = "captured" /\ wpc' = wpc
              /\ jobqueue = <<>> /\ jobqueue' = <<>> /\ num_threads_working = 0
           \/ mpc = "captured" /\ mpc' \in {"adding", "reaping"} /\ UNCHANGED <<wpc, jobqueue>>
           \/ /\ mpc = "reaping" /\ mpc' = "freed" /\ wpc' = wpc
              /\ jobqueue' = <<>> /\ num_threads_alive = 0
  <1>1. ASSUME NEW w \in Workers,
               \/ thread_init(w) \/ Alive(w) \/ Loop(w) \/ bsem_wait(w) \/ Count(w)
               \/ RunJob(w) \/ NotAlive(w) \/ Leave(w)
        PROVE  UNCHANGED <<mpc, jobqueue>>
    BY <1>1 DEF thread_init, Alive, Loop, bsem_wait, Count, RunJob, NotAlive, Leave,
       client, queue
  <1>2. ASSUME NEW w \in Workers, jobqueue_pull(w)
        PROVE  \/ UNCHANGED <<mpc, jobqueue>>
               \/ mpc' = mpc /\ jobqueue # <<>> /\ jobqueue' = Tail(jobqueue)
    BY <1>2 DEF jobqueue_pull, client, queue
  <1>3. ASSUME NEW w \in Workers, Uncount(w)
        PROVE  \/ UNCHANGED <<mpc, jobqueue>>
               \/ mpc = "idle_wait" /\ mpc' = "waiting"
    BY <1>3 DEF Uncount, queue
  <1>4. CASE Poll \/ UNCHANGED vars
    BY <1>4 DEF Poll, vars, client, queue
  <1>5. CASE Spurious
    BY <1>5 DEF Spurious, client, queue
  <1>6. CASE thpool_add_work \/ thpool_wait \/ AllIdle
    BY <1>6 DEF thpool_add_work, thpool_wait, AllIdle, worker, queue
  <1>7. CASE ThreadsMade \/ PoolReady
    BY <1>7 DEF ThreadsMade, PoolReady, worker, queue
  <1>8. CASE NextRound \/ thpool_destroy \/ Free
    BY <1>8 DEF NextRound, thpool_destroy, Free, worker, queue
  <1>9. QED
    BY <1>1, <1>2, <1>3, <1>4, <1>5, <1>6, <1>7, <1>8
       DEF Next, PoolCall, Client, thread_do

LEMMA RestStep == IInv /\ TypeOK' /\ [Next]_vars => Ready' /\ NothingLeft' /\ Deserted'
  <1> SUFFICES ASSUME IInv, TypeOK', [Next]_vars
               PROVE  Ready' /\ NothingLeft' /\ Deserted'
    OBVIOUS
  <1>0. TypeOK /\ Ready /\ NothingLeft /\ Deserted
    BY DEF IInv
  <1>1. Ready'
    <2>1. CASE mpc \notin {"init", "spin"}
      BY <1>0, <2>1, WorkerMoves DEF Ready
    <2>2. CASE mpc' \in {"init", "spin"}
      BY <2>2 DEF Ready
    <2>3. CASE mpc \in {"init", "spin"} /\ mpc' \notin {"init", "spin"}
      <3>1. num_threads_alive = Cardinality(Workers) /\ wpc' = wpc
        BY <1>0, <2>3, ClientMoves
      <3>2. Living = Workers
        <4>1. Living \in SUBSET Workers
          BY DEF Living
        <4>2. Cardinality(Living) = Cardinality(Workers)
          BY <1>0, <3>1 DEF TypeOK
        <4>3. QED
          BY <4>1, <4>2, AllCounted
      <3>3. QED
        BY <3>1, <3>2 DEF Ready, Living
    <2>4. QED
      BY <2>1, <2>2, <2>3
  <1>2. NothingLeft'
    <2>1. CASE mpc \in {"captured", "reaping", "freed"}
      <3>1. \A x \in Workers : wpc'[x] # "running"
        BY <1>0, <2>1, WorkerMoves DEF NothingLeft, Running
      <3>2. jobqueue = <<>>
        BY <1>0, <2>1 DEF NothingLeft
      <3>3. mpc' \in {"captured", "reaping", "freed"} => jobqueue' = <<>>
        BY <1>0, <2>1, <3>2, ClientMoves
      <3>4. QED
        BY <3>1, <3>3 DEF NothingLeft, Running
    <2>2. CASE mpc \notin {"captured", "reaping", "freed"}
               /\ mpc' \in {"captured", "reaping", "freed"}
      <3>1. wpc' = wpc /\ jobqueue' = <<>> /\ num_threads_working = 0
        BY <1>0, <2>2, ClientMoves
      <3>2. Counted = {}
        BY <1>0, <3>1, NoneCounted DEF TypeOK, Counted
      <3>3. QED
        BY <3>1, <3>2 DEF NothingLeft, Running, Counted
    <2>3. QED
      BY <2>1, <2>2 DEF NothingLeft
  <1>3. Deserted'
    <2>1. CASE mpc = "freed"
      BY <1>0, <2>1, WorkerMoves DEF Deserted
    <2>2. CASE mpc # "freed" /\ mpc' = "freed"
      <3>1. mpc = "reaping" /\ wpc' = wpc /\ num_threads_alive = 0
        BY <1>0, <2>2, ClientMoves
      <3>2. Living = {}
        BY <1>0, <3>1, NoneCounted DEF TypeOK, Living
      <3>3. \A x \in Workers : wpc[x] \in Place /\ wpc[x] \notin {"unborn", "born", "failed"}
        BY <1>0, <3>1 DEF TypeOK, Ready
      <3>4. QED
        BY <3>1, <3>2, <3>3 DEF Deserted, Living, Place
    <2>3. QED
      BY <2>1, <2>2 DEF Deserted
  <1>4. QED
    BY <1>1, <1>2, <1>3

\* The inductive invariant: TypeOK and JobsAccounted, that nobody is left
\* outside of the loop once thpool_init has returned, that nothing is queued or
\* run after thpool_wait, and that nobody is in the loop of a freed pool.
THEOREM PoolInvariant == Spec => []IInv
  <1>1. Init => IInv
    BY InitType
  <1>2. IInv /\ [Next]_vars => IInv'
    <2>1. IInv /\ [Next]_vars => TypeOK'
      BY TypeStep DEF IInv
    <2>2. QED
      BY <2>1, JobsStep, RestStep DEF IInv
  <1>3. QED
    BY <1>1, <1>2, PTL DEF Spec

\* num_threads_alive and num_threads_working count the workers in the two parts
\* of thread_do, for any number of workers.
THEOREM TypeCorrect == Spec => []TypeOK
  <1>1. IInv => TypeOK
    BY DEF IInv
  <1>2. QED
    BY <1>1, PoolInvariant, PTL

\* Every job that was pushed is queued, run by one worker, or finished, once.
THEOREM NoJobLostOrRepeated == Spec => []JobsAccounted
  <1>1. IInv => JobsAccounted
    BY DEF IInv
  <1>2. QED
    BY <1>1, PoolInvariant, PTL

\* When thpool_wait has returned, every job has run.
THEOREM WaitMeansFinished == Spec => []ResultsComplete
  <1>1. IInv => ResultsComplete
    <2> SUFFICES ASSUME IInv, mpc = "captured" PROVE finished = 1..submitted
      BY DEF ResultsComplete
    <2>1. jobqueue = <<>> /\ Running = {}
      BY DEF IInv, NothingLeft
    <2>2. QED
      BY <2>1, AllFinished DEF IInv
  <1>2. QED
    BY <1>1, PoolInvariant, PTL

\* thpool_destroy frees the pool when every worker has left its loop, and
\* throws no job away.
THEOREM DestroyIsClean == Spec => []FreedAfterLoops
  <1>1. IInv => FreedAfterLoops
    <2> SUFFICES ASSUME IInv, mpc = "freed"
                 PROVE  /\ \A w \in Workers : wpc[w] \in {"failed", "leaving", "gone"}
                        /\ finished = 1..submitted
      BY DEF FreedAfterLoops
    <2>1. jobqueue = <<>> /\ Running = {}
      BY DEF IInv, NothingLeft
    <2>2. finished = 1..submitted
      BY <2>1, AllFinished DEF IInv
    <2>3. \A w \in Workers : wpc[w] \in {"leaving", "gone"}
      BY DEF IInv, Deserted
    <2>4. QED
      BY <2>2, <2>3
  <1>2. QED
    BY <1>1, PoolInvariant, PTL
===============================================================================
