------------------------- MODULE ThreadControlProofs -------------------------
(***************************************************************************)
(* What ThreadControl promises, for any number of threads and slots.       *)
(*                                                                         *)
(* NothingHeld rests on one fact: a thread that is stopped stands in a     *)
(* slot that the loop of the detach has yet to come to.  It needs no       *)
(* listing to be complete, and holds even when seize_process gives up.     *)
(*                                                                         *)
(* AllStopped and RegistersRestored rest on the listings: while threads    *)
(* neither come nor go, each one names every thread, in the same order.    *)
(*                                                                         *)
(* The last section is about the other use of ptrace, SyscallInjector:     *)
(* between the stop of the threads and their release restore_process_sd    *)
(* injects its calls into the leader.                                      *)
(***************************************************************************)
EXTENDS ThreadControl, SyscallInjector, TLAPS

-------------------------------------------------------------------------------
(* What the listings are worth. *)

\* The loops over tids[] have passed, or have to pass, slot k with its thread
\* stopped.
Held(k) ==
    \/ pc = "interrupt" /\ k < i
    \/ pc = "wait" /\ k <= i
    \/ pc = "detach" /\ i <= k

NotYet == num_checkpoints = 0 => pc = "idle" /\ traced = {}

\* Without signals every stopped thread will be met by the detach.
HeldInSlot ==
    \A t \in Thread :
        /\ state[t] # "sigstop"
        /\ state[t] = "stop" => /\ t \in traced
                                /\ \E k \in 1..tid_count : tids[k] = t /\ Held(k)

HInv == NotYet /\ HeldInSlot

-------------------------------------------------------------------------------
(* The listings are complete while threads neither come nor go. *)

\* seize_process has n entries in tids[], and the rest is in ents.
Partial ==
    /\ i = 1
    /\ Living = ents \cup {tids[k] : k \in 1..nr_threads}
    /\ traced = {tids[k] : k \in 1..nr_threads}
    /\ \A t \in ents : nr_threads < t
    /\ \A t \in ents : \A k \in 1..nr_threads : tids[k] < t
    /\ \A k, l \in 1..nr_threads : k < l => tids[k] < tids[l]

\* tids[1..n] names every living thread, by age.
Complete(n) ==
    /\ Living = {tids[k] : k \in 1..n}
    /\ \A k, l \in 1..n : k < l => tids[k] < tids[l]

\* The first of a listing is the leader.
LeaderFirst == tid_count > 0 /\ tids[1] = Leader

\* All are traced, and those before the loop index have stopped.
Stopping ==
    /\ traced = Living
    /\ \A k \in 1..tid_count : k < i => state[tids[k]] = "stop"
    /\ op = "checkpoint" => num_checkpoints = 1

\* A second checkpoint: it interrupts a leader that it does not trace, and waits
\* for it.
Stuck ==
    /\ traced = {} /\ i = 1 /\ state[Leader] = "run"
    /\ op = "checkpoint" /\ num_checkpoints > 1

\* Those that are still traced are stopped, and come in the rest of the loop.
Detaching ==
    \A t \in traced : /\ state[t] = "stop"
                      /\ \E k \in i..tid_count : tids[k] = t

AInv ==
    /\ NotYet
    /\ Leader \in Living
    /\ pc = "seize" => Partial /\ (op = "checkpoint" => num_checkpoints = 1)
    /\ pc \in {"interrupt", "wait", "detach"} => Complete(tid_count) /\ LeaderFirst
    /\ pc \in {"interrupt", "wait"} => Stopping \/ Stuck
    /\ pc = "detach" => Detaching
    /\ pc = "idle" /\ num_checkpoints > 0 => traced = {} /\ Complete(tid_count) /\ LeaderFirst

\* The first checkpoint has stored the registers.
Stored ==
    /\ num_checkpoints > 0 /\ pc # "aborted"
    /\ ~(num_checkpoints = 1 /\ op = "checkpoint" /\ pc \in {"seize", "interrupt", "wait"})

\* f is the listing at the time when the registers were stored.
ListedAs(f, n) ==
    /\ Living = {f[k] : k \in 1..n}
    /\ \A k, l \in 1..n : k < l => f[k] < f[l]
    /\ \A k \in 1..n : tregs[k] = saved[f[k]]
    /\ IF pc = "seize"
       THEN /\ nr_threads <= n
            /\ \A k \in 1..nr_threads : tids[k] = f[k]
            /\ ents = {f[k] : k \in (nr_threads + 1)..n}
       ELSE /\ tid_count = n
            /\ \A k \in 1..n : tids[k] = f[k]

SameListing ==
    Stored => \E n \in 1..MaxThreads : \E f \in [1..n -> Thread] : ListedAs(f, n)

-------------------------------------------------------------------------------
(* Types. *)

LEMMA InitType == Init => TypeOK
<1> SUFFICES ASSUME Init PROVE TypeOK
  OBVIOUS
<1> USE ThreadAssumption DEF Init
<1>1. Leader \in Thread BY DEF Leader, Thread
<1>2. regs \in [Thread -> Registers] /\ saved \in [Thread -> Registers]
  BY DEF Registers
<1>3. tregs \in [Index -> Registers] BY DEF Registers, Unset
<1>4. tids \in [Index -> Thread \cup {0, -1}] OBVIOUS
<1>5. state \in [Thread -> {"unborn", "run", "stop", "sigstop", "gone"}] OBVIOUS
<1>6. i \in 1..(MaxThreads + 1) /\ tid_count \in 0..MaxThreads /\ nr_threads \in 0..MaxThreads
  OBVIOUS
<1> QED BY <1>2, <1>3, <1>4, <1>5, <1>6 DEF TypeOK

LEMMA ThreadsType == TypeOK /\ Threads => TypeOK'
<1> SUFFICES ASSUME TypeOK, NEW t \in Thread,
                    Run(t) \/ Exit(t) \/ Signal(t) \/ Stops(t)
                           \/ \E new \in Thread : Clone(t, new)
             PROVE  TypeOK'
  BY DEF Threads
<1> USE ThreadAssumption DEF TypeOK, manager, loops
<1>1. CASE Run(t)
  <2>1. regs[t] \in Registers BY <1>1
  <2>2. regs[t].at + 1 \in 0..MaxMoves BY <1>1, <2>1 DEF Run, Registers
  <2>3. [regs[t] EXCEPT !.at = @ + 1] \in Registers BY <2>1, <2>2 DEF Registers
  <2>4. regs' \in [Thread -> Registers] BY <1>1, <2>3 DEF Run
  <2> QED BY <1>1, <2>4 DEF Run
<1>2. CASE Exit(t) BY <1>2 DEF Exit
<1>3. CASE Signal(t) BY <1>3 DEF Signal
<1>4. CASE Stops(t) BY <1>4 DEF Stops
<1>5. CASE \E new \in Thread : Clone(t, new) BY <1>5 DEF Clone
<1> QED BY <1>1, <1>2, <1>3, <1>4, <1>5

LEMMA BeginsType == TypeOK /\ (checkpoint \/ Request) => TypeOK'
<1> SUFFICES ASSUME TypeOK, checkpoint \/ Request PROVE TypeOK'
  OBVIOUS
<1>1. PICK name \in {"checkpoint", "restore", "diff"}, first \in BOOLEAN :
         Begin(name, first) /\ requests' \in 0..MaxRequests
  <2>1. CASE checkpoint
    <3>1. Begin("checkpoint", TRUE) BY <2>1 DEF checkpoint
    <3>2. requests' \in 0..MaxRequests BY <2>1 DEF checkpoint, TypeOK
    <3> QED BY <3>1, <3>2
  <2>2. CASE Request
    <3>1. PICK name \in Requests : Begin(name, FALSE) /\ requests' = requests + 1
      BY <2>2 DEF Request
    <3>2. name \in {"checkpoint", "restore", "diff"} BY ThreadAssumption
    <3>3. requests' \in 0..MaxRequests BY <2>2, ThreadAssumption DEF Request, TypeOK
    <3> QED BY <3>1, <3>2, <3>3
  <2> QED BY <2>1, <2>2
<1>2. num_checkpoints' \in Nat BY <1>1 DEF Begin, TypeOK
<1>3. i' \in 1..(MaxThreads + 1) /\ nr_threads' \in 0..MaxThreads
  BY <1>1, ThreadAssumption DEF Begin
<1>4. tids' \in [Index -> Thread \cup {0, -1}] BY <1>1 DEF Begin, TypeOK
<1>5. ents' \subseteq Thread BY <1>1 DEF Begin, TypeOK, Living
<1>6. pc' \in {"seize", "interrupt"} BY <1>1 DEF Begin
<1> QED BY <1>1, <1>2, <1>3, <1>4, <1>5, <1>6 DEF Begin, TypeOK, process

LEMMA AttachType == TypeOK /\ Attach => TypeOK'
<1> SUFFICES ASSUME TypeOK, Attach PROVE TypeOK'
  OBVIOUS
<1> USE ThreadAssumption DEF TypeOK, process, loops, Rest, Index
<1>1. CASE SeizeNext
  <2>1. PICK t \in Thread : /\ ents' = ents \ {t}
                            /\ traced' = IF t \in Living THEN traced \cup {t} ELSE traced
                            /\ tids' = [tids EXCEPT ![nr_threads + 1] = t]
    BY <1>1 DEF SeizeNext
  <2>2. nr_threads' \in 0..MaxThreads /\ i' = i BY <1>1 DEF SeizeNext
  <2> QED BY <1>1, <2>1, <2>2 DEF SeizeNext
<1>2. CASE TooManyThreads BY <1>2 DEF TooManyThreads
<1>3. CASE AllSeized BY <1>3 DEF AllSeized
<1>4. CASE Interrupt
  <2>1. i' \in 1..(MaxThreads + 1) /\ pc' \in {"interrupt", "wait"}
        /\ (pc' = "wait" => i' <= tid_count)
    BY <1>4 DEF Interrupt, Pass
  <2> QED BY <1>4, <2>1 DEF Interrupt
<1>5. CASE wait4
  <2>1. i' \in 1..(MaxThreads + 1) /\ pc' \in {"interrupt", "aborted"}
    BY <1>5 DEF wait4, Pass
  <2>2. tids' \in [Index -> Thread \cup {0, -1}] BY <1>5 DEF wait4
  <2> QED BY <1>5, <2>1, <2>2 DEF wait4
<1> QED BY <1>1, <1>2, <1>3, <1>4, <1>5 DEF Attach

LEMMA FinishType == TypeOK /\ Finish => TypeOK'
<1> SUFFICES ASSUME TypeOK, Finish PROVE TypeOK'
  OBVIOUS
<1> USE ThreadAssumption DEF TypeOK
<1>1. i' \in 1..(MaxThreads + 1) /\ pc' \in {"idle", "detach"} /\ op' \in {op, "none"}
  BY DEF Finish, store_threads_registers, restore_threads_registers, DiffOnly, Detach,
         Reply, Work, Pass, Rest
<1>2. UNCHANGED <<ents, nr_threads, tids, tid_count, num_checkpoints, requests>>
  BY DEF Finish, store_threads_registers, restore_threads_registers, DiffOnly, Detach,
         Reply, Work, Rest
<1>3. state' \in [Thread -> {"unborn", "run", "stop", "sigstop", "gone"}] /\ traced' \subseteq Thread
  BY DEF Finish, store_threads_registers, restore_threads_registers, DiffOnly, Detach,
         Reply, Work, process
<1>4. regs' \in [Thread -> Registers] /\ saved' \in [Thread -> Registers]
      /\ tregs' \in [Index -> Registers]
  <2>1. CASE store_threads_registers
    BY <2>1 DEF store_threads_registers, Slots
  <2>2. CASE restore_threads_registers
    <3>1. ASSUME NEW t \in Thread, \E k \in Slots : tids[k] = t
          PROVE  tregs[CHOOSE k \in Slots : tids[k] = t] \in Registers
      BY <3>1 DEF Slots
    <3> QED BY <2>2, <3>1 DEF restore_threads_registers
  <2>3. CASE DiffOnly \/ Detach \/ Reply
    BY <2>3 DEF DiffOnly, Detach, Reply, process, Rest
  <2> QED BY <2>1, <2>2, <2>3 DEF Finish
<1> QED BY <1>1, <1>2, <1>3, <1>4

LEMMA NextType == TypeOK /\ [Next]_vars => TypeOK'
<1>1. TypeOK /\ UNCHANGED vars => TypeOK' BY DEF TypeOK, vars, process, loops
<1> QED BY <1>1, ThreadsType, BeginsType, AttachType, FinishType DEF Next

\* The indexes of seize_process and of the loops over tids[] stay within
\* tids[], for any number of threads, whatever they do.
THEOREM TypeCorrect == Spec => []TypeOK
BY InitType, NextType, PTL DEF Spec

-------------------------------------------------------------------------------
(* Without signals: nothing is held. *)

\* The steps that leave the manager's variables and the threads' stops alone.
LEMMA ThreadsHold ==
    ASSUME TypeOK, HInv, Threads, "signal" \notin Late
    PROVE  HInv'
<1> USE ThreadAssumption
<1>1. UNCHANGED manager /\ UNCHANGED traced
  BY DEF Threads, Run, Clone, Exit, Signal, Stops
<1>2. NotYet' BY <1>1 DEF HInv, NotYet, manager
<1>3. ASSUME NEW t \in Thread, Signal(t) PROVE FALSE
  BY <1>3 DEF Signal, MayStill, HInv, NotYet
<1>4. ASSUME NEW t \in Thread, state'[t] # state[t], state'[t] \in {"stop", "sigstop"}
      PROVE  state'[t] = "stop" /\ t \in traced /\ Awaited(t)
  <2>1. CASE \E u \in Thread : Run(u) BY <2>1, <1>4 DEF Run
  <2>2. CASE \E u \in Thread : Exit(u) BY <2>2, <1>4 DEF Exit, TypeOK
  <2>3. CASE \E u, new \in Thread : Clone(u, new) BY <2>3, <1>4 DEF Clone, TypeOK
  <2>4. CASE \E u \in Thread : Stops(u) BY <2>4, <1>4 DEF Stops, TypeOK
  <2> QED BY <1>3, <2>1, <2>2, <2>3, <2>4 DEF Threads
<1>5. ASSUME NEW t \in Thread PROVE state'[t] # "sigstop"
  BY <1>4, <1>5 DEF HInv, HeldInSlot
<1>6. ASSUME NEW t \in Thread, state'[t] = "stop"
      PROVE  t \in traced /\ \E k \in 1..tid_count : tids[k] = t /\ Held(k)
  <2>1. CASE state[t] = "stop" BY <2>1 DEF HInv, HeldInSlot
  <2>2. CASE state[t] # "stop"
    <3>1. t \in traced /\ Awaited(t) BY <1>4, <1>6, <2>2
    <3>2. i \in 1..tid_count /\ tids[i] = t /\ Held(i)
      BY <3>1 DEF Awaited, TypeOK, Held
    <3> QED BY <3>1, <3>2
  <2> QED BY <2>1, <2>2
<1>7. HeldInSlot' BY <1>1, <1>5, <1>6 DEF HeldInSlot, Held, manager, loops
<1> QED BY <1>2, <1>7 DEF HInv

LEMMA BeginsHold ==
    ASSUME TypeOK, HInv, checkpoint \/ Request
    PROVE  HInv'
<1>1. num_checkpoints' > 0
  BY DEF checkpoint, Request, Begin, TypeOK
<1>2. pc = "idle" /\ UNCHANGED state
  BY DEF checkpoint, Request, Begin, process
<1>3. \A t \in Thread : state[t] # "stop" BY <1>2 DEF HInv, HeldInSlot, Held
<1> QED BY <1>1, <1>2, <1>3 DEF HInv, NotYet, HeldInSlot

LEMMA AttachHolds ==
    ASSUME TypeOK, HInv, Attach
    PROVE  HInv'
<1> USE ThreadAssumption
<1>1. UNCHANGED state /\ UNCHANGED num_checkpoints /\ pc # "idle" /\ traced \subseteq traced'
  BY DEF Attach, SeizeNext, TooManyThreads, AllSeized, Interrupt, wait4, process, Rest
<1>2. NotYet' BY <1>1 DEF HInv, NotYet, TypeOK
<1>3. ASSUME NEW t \in Thread, state[t] = "stop"
      PROVE  \E k \in 1..tid_count' : tids'[k] = t /\ Held(k)'
  <2>1. PICK k \in 1..tid_count : tids[k] = t /\ Held(k)
    BY <1>3 DEF HInv, HeldInSlot
  <2>2. t \in traced BY <1>3 DEF HInv, HeldInSlot
  <2>3. pc \in {"interrupt", "wait"} BY <2>1, <1>1 DEF Held, Attach, SeizeNext, TooManyThreads, AllSeized, Interrupt, wait4
  <2>4. CASE Interrupt
    BY <2>4, <2>1 DEF Interrupt, Held, Pass, Rest, TypeOK
  <2>5. CASE wait4
    <3>1. state[t] = "stop" => t \in Living BY DEF Living
    <3>2. pc' # "aborted" \/ state[tids[i]] = "sigstop" BY <2>5 DEF wait4, Pass
    <3>3. tids[i] \in Living => tids[i] \in Thread BY DEF Living
    <3>4. pc' = "interrupt" /\ i' = i + 1
      BY <2>5, <3>2, <3>3 DEF wait4, Pass, HInv, HeldInSlot
    <3>5. tids'[k] = t
      <4>1. CASE k = i BY <4>1, <2>1, <2>2, <1>3, <3>1, <2>5, <3>4 DEF wait4
      <4>2. CASE k # i BY <4>2, <2>1, <2>5 DEF wait4, TypeOK, Index
      <4> QED BY <4>1, <4>2
    <3>6. k < i' BY <2>1, <2>5, <3>4 DEF wait4, Held, TypeOK
    <3> QED BY <2>5, <3>4, <3>5, <3>6 DEF wait4, Rest, Held
  <2> QED BY <2>3, <2>4, <2>5 DEF Attach, SeizeNext, TooManyThreads, AllSeized
<1> QED BY <1>1, <1>2, <1>3 DEF HInv, HeldInSlot

LEMMA FinishHolds ==
    ASSUME TypeOK, HInv, Finish
    PROVE  HInv'
<1> USE ThreadAssumption
<1>1. UNCHANGED <<num_checkpoints, tids, tid_count>> /\ pc # "idle"
  BY DEF Finish, store_threads_registers, restore_threads_registers, DiffOnly, Detach,
         Reply, Work, Rest
<1>2. NotYet' BY <1>1 DEF HInv, NotYet
<1>3. CASE store_threads_registers \/ restore_threads_registers \/ DiffOnly
  <2>1. /\ pc = "interrupt" /\ i > tid_count /\ pc' = "detach" /\ i' = 1
        /\ UNCHANGED <<state, traced>>
    BY <1>3 DEF store_threads_registers, restore_threads_registers, DiffOnly, Work
  <2>2. \A k \in 1..tid_count : Held(k)' BY <2>1 DEF Held
  <2> QED BY <1>1, <1>2, <2>1, <2>2 DEF HInv, HeldInSlot
<1>4. CASE Detach
  <2>1. i \in Index /\ pc = "detach" /\ pc' = "detach" /\ i' = i + 1 /\ i <= tid_count
    BY <1>4 DEF Detach, Pass, TypeOK, Index
  <2>2. ASSUME NEW t \in Thread, state'[t] = "stop"
        PROVE  /\ state[t] = "stop" /\ t # tids[i]
               /\ t \in traced => t \in traced'
    <3>1. t > 0 BY DEF Thread
    <3>2. tids[i] \in Thread \cup {0, -1} BY <2>1 DEF TypeOK
    <3>3. CASE tids[i] > 0 /\ state[tids[i]] \in {"stop", "sigstop"}
      <4>1. /\ state' = [state EXCEPT ![tids[i]] = "run"]
            /\ traced' = traced \ {tids[i]}
        BY <1>4, <3>3 DEF Detach
      <4>2. tids[i] \in Thread BY <3>2, <3>3
      <4>3. state'[tids[i]] = "run" BY <4>1, <4>2 DEF TypeOK
      <4> QED BY <2>2, <4>1, <4>2, <4>3 DEF TypeOK
    <3>4. CASE ~(tids[i] > 0 /\ state[tids[i]] \in {"stop", "sigstop"})
      <4>1. state' = state /\ traced' = traced BY <1>4, <3>4 DEF Detach
      <4> QED BY <2>2, <3>1, <3>4, <4>1
    <3> QED BY <3>3, <3>4
  <2>3. ASSUME NEW t \in Thread PROVE state'[t] # "sigstop"
    BY <1>4, <2>1 DEF Detach, TypeOK, HInv, HeldInSlot
  <2>4. ASSUME NEW t \in Thread, state'[t] = "stop"
        PROVE  t \in traced' /\ \E k \in 1..tid_count : tids[k] = t /\ Held(k)'
    <3>1. PICK k \in 1..tid_count : tids[k] = t /\ Held(k)
      BY <2>2, <2>4 DEF HInv, HeldInSlot
    <3>2. k # i BY <2>2, <2>4, <3>1
    <3>3. Held(k)' BY <2>1, <3>1, <3>2 DEF Held, TypeOK
    <3> QED BY <2>2, <2>4, <3>1, <3>3 DEF HInv, HeldInSlot
  <2> QED BY <1>1, <1>2, <2>3, <2>4 DEF HInv, HeldInSlot
<1>5. CASE Reply
  <2>1. \A t \in Thread : state[t] # "stop"
    BY <1>5 DEF Reply, HInv, HeldInSlot, Held, TypeOK
  <2> QED BY <1>2, <1>5, <2>1 DEF Reply, process, HInv, HeldInSlot
<1> QED BY <1>3, <1>4, <1>5 DEF Finish

\* Between operations no thread is left stopped, for any number of threads that
\* come and go, and also when there are more of them than tids[] has slots for:
\* what interrupt_process has stopped, detach_or_cont_process lets go.  With
\* signals that does not hold (proc_control.c:122).
THEOREM NothingStaysHeld ==
    ASSUME "signal" \notin Late
    PROVE  Spec => []NothingHeld
<1>1. Init => HInv
  BY ThreadAssumption DEF Init, HInv, NotYet, HeldInSlot
<1>2. TypeOK /\ HInv /\ [Next]_vars => HInv'
  <2>1. HInv /\ UNCHANGED vars => HInv'
    BY DEF HInv, NotYet, HeldInSlot, Held, vars, process, loops
  <2> QED BY <2>1, ThreadsHold, BeginsHold, AttachHolds, FinishHolds DEF Next
<1>3. HInv => NothingHeld
  BY DEF HInv, HeldInSlot, Held, NothingHeld, Living
<1> QED BY <1>1, <1>2, <1>3, TypeCorrect, PTL DEF Spec

-------------------------------------------------------------------------------
(* A fixed set of threads that fit into tids[]: all are stopped, and each has *)
(* its own registers.                                                         *)

LEMMA LeaderIsThread == Leader \in Thread
BY ThreadAssumption DEF Leader, Thread

\* What one of the threads may do in the middle of an operation.
LEMMA ThreadsQuiet ==
    ASSUME TypeOK, AInv, Threads, Late \subseteq {"signal"}
    PROVE  /\ UNCHANGED <<manager, traced>>
           /\ Leader \in Living'
           /\ num_checkpoints > 0 => Living' = Living
           /\ \A t \in Thread : state[t] = "stop" => state'[t] = "stop"
           /\ traced = {} => state'[Leader] = state[Leader]
<1> USE ThreadAssumption, LeaderIsThread DEF TypeOK, Living
<1> PICK t \in Thread : Run(t) \/ Exit(t) \/ Signal(t) \/ Stops(t)
                               \/ \E new \in Thread : Clone(t, new)
  BY DEF Threads
<1>1. Leader \in Living BY DEF AInv
<1>2. CASE Run(t) BY <1>1, <1>2 DEF Run
<1>3. CASE Exit(t) BY <1>1, <1>3 DEF Exit, MayStill
<1>4. CASE Signal(t) BY <1>1, <1>4 DEF Signal
<1>5. CASE Stops(t) BY <1>1, <1>5 DEF Stops
<1>6. CASE \E new \in Thread : Clone(t, new) BY <1>1, <1>6 DEF Clone, MayStill
<1> QED BY <1>2, <1>3, <1>4, <1>5, <1>6

LEMMA ThreadsListed ==
    ASSUME TypeOK, AInv, Threads, Late \subseteq {"signal"}
    PROVE  AInv'
<1>1. /\ UNCHANGED <<pc, op, ents, nr_threads, i, tids, tid_count, num_checkpoints, traced>>
      /\ Leader \in Living'
      /\ num_checkpoints > 0 => Living' = Living
      /\ \A t \in Thread : state[t] = "stop" => state'[t] = "stop"
      /\ traced = {} => state'[Leader] = state[Leader]
  BY ThreadsQuiet DEF manager, loops
<1>2. NotYet' BY <1>1 DEF AInv, NotYet
<1>3. CASE num_checkpoints = 0
  BY <1>1, <1>2, <1>3 DEF AInv, NotYet
<1>4. CASE num_checkpoints > 0
  <2>1. Living' = Living BY <1>1, <1>4
  <2>2. Partial => Partial' BY <1>1, <2>1 DEF Partial
  <2>3. ASSUME Complete(tid_count) PROVE Complete(tid_count)'
    BY <1>1, <2>1, <2>3 DEF Complete
  <2>4. LeaderFirst => LeaderFirst' BY <1>1 DEF LeaderFirst
  <2>5. ASSUME Stopping, Complete(tid_count) PROVE Stopping'
    <3>1. \A k \in 1..tid_count : tids[k] \in Thread
      BY <2>5 DEF Complete, Living
    <3> QED BY <1>1, <2>1, <2>5, <3>1 DEF Stopping
  <2>6. Stuck => Stuck' BY <1>1 DEF Stuck
  <2>7. Detaching => Detaching' BY <1>1 DEF Detaching, TypeOK
  <2> QED BY <1>1, <1>2, <1>4, <2>2, <2>3, <2>4, <2>5, <2>6, <2>7 DEF AInv
<1> QED BY <1>3, <1>4 DEF TypeOK

LEMMA BeginsListed ==
    ASSUME TypeOK, AInv, checkpoint \/ Request
    PROVE  AInv'
<1> USE ThreadAssumption
<1>1. CASE checkpoint
  <2>1. /\ pc = "idle" /\ pc' = "seize" /\ op' = "checkpoint" /\ num_checkpoints' = 1
        /\ ents' = Living /\ nr_threads' = 0 /\ UNCHANGED <<state, traced>>
        /\ num_checkpoints = 0 /\ i' = 1
    BY <1>1 DEF checkpoint, Begin, process, TypeOK
  <2>2. Living' = Living BY <2>1 DEF Living
  <2>3. traced = {} BY <2>1 DEF AInv, NotYet
  <2>4. Partial' BY <2>1, <2>2, <2>3 DEF Partial, Living, Thread
  <2> QED BY <2>1, <2>2, <2>4 DEF AInv, NotYet
<1>2. CASE Request
  <2>1. PICK name \in Requests : Begin(name, FALSE) /\ num_checkpoints > 0
    BY <1>2 DEF Request
  <2>2. /\ pc = "idle" /\ op' = name /\ UNCHANGED <<state, traced, tid_count>>
        /\ i' = 1 /\ nr_threads' = 0 /\ state[Leader] = "run"
    BY <2>1 DEF Begin, process
  <2>3. Living' = Living BY <2>2 DEF Living
  <2>4. traced = {} /\ Complete(tid_count) /\ LeaderFirst BY <2>1, <2>2 DEF AInv
  <2>5. CASE name = "checkpoint"
    <3>1. pc' = "interrupt" /\ tids' = tids /\ num_checkpoints' = num_checkpoints + 1
      BY <2>1, <2>5 DEF Begin
    <3>2. Complete(tid_count)' /\ LeaderFirst'
      BY <2>2, <2>3, <2>4, <3>1 DEF Complete, LeaderFirst
    <3>3. Stuck' BY <2>1, <2>2, <2>4, <2>5, <3>1 DEF Stuck, TypeOK
    <3> QED BY <2>1, <2>3, <3>1, <3>2, <3>3 DEF AInv, NotYet, TypeOK
  <2>6. CASE name # "checkpoint"
    <3>1. pc' = "seize" /\ ents' = Living /\ num_checkpoints' = num_checkpoints
      BY <2>1, <2>6 DEF Begin
    <3>2. Partial' BY <2>2, <2>3, <2>4, <3>1 DEF Partial, Living, Thread
    <3> QED BY <2>1, <2>2, <2>3, <2>6, <3>1, <3>2 DEF AInv, NotYet
  <2> QED BY <2>5, <2>6
<1> QED BY <1>1, <1>2

\* One more entry is seized: the oldest of those that are left.
LEMMA SeizeListed ==
    ASSUME TypeOK, AInv, SeizeNext
    PROVE  AInv'
<1> USE ThreadAssumption
<1>1. PICK t \in Thread :
        /\ IsNext(t) /\ ents' = ents \ {t}
        /\ traced' = IF t \in Living THEN traced \cup {t} ELSE traced
        /\ tids' = [tids EXCEPT ![nr_threads + 1] = t]
  BY DEF SeizeNext
<1>2. /\ pc = "seize" /\ pc' = "seize" /\ nr_threads < MaxThreads
      /\ nr_threads' = nr_threads + 1 /\ UNCHANGED <<state, op, i, num_checkpoints>>
  BY DEF SeizeNext
<1>3. Partial BY <1>2 DEF AInv
<1>4. Living' = Living BY <1>2 DEF Living
<1>5. t \in ents /\ t \in Living /\ nr_threads < t
      /\ \A u \in ents : t <= u
  BY <1>1, <1>3 DEF IsNext, Partial
<1>6. nr_threads + 1 \in Index /\ nr_threads \in Nat
  BY <1>2 DEF Index, TypeOK
<1>7. \A k \in 1..nr_threads : tids'[k] = tids[k]
  BY <1>1, <1>6 DEF TypeOK, Index
<1>8. tids'[nr_threads + 1] = t BY <1>1, <1>6 DEF TypeOK
<1>9. {tids'[k] : k \in 1..(nr_threads + 1)} = {tids[k] : k \in 1..nr_threads} \cup {t}
  <2>1. 1..(nr_threads + 1) = 1..nr_threads \cup {nr_threads + 1} BY <1>6
  <2> QED BY <2>1, <1>7, <1>8
<1>10. Partial'
  <2>1. Living' = ents' \cup {tids'[k] : k \in 1..nr_threads'}
    BY <1>1, <1>2, <1>3, <1>4, <1>5, <1>9 DEF Partial
  <2>2. traced' = {tids'[k] : k \in 1..nr_threads'}
    BY <1>1, <1>2, <1>3, <1>5, <1>9 DEF Partial
  <2>3. ASSUME NEW u \in ents' PROVE nr_threads' < u
    <3>1. u \in Nat /\ t \in Nat BY <2>3, <1>1 DEF TypeOK, Thread
    <3>2. t < u BY <2>3, <1>1, <1>5, <3>1
    <3> QED BY <3>1, <3>2, <1>2, <1>5, <1>6
  <2>4. ASSUME NEW u \in ents', NEW k \in 1..nr_threads' PROVE tids'[k] < u
    <3>1. u \in Nat /\ t \in Nat BY <1>1 DEF TypeOK, Thread
    <3>2. t < u BY <1>1, <1>5, <3>1
    <3>3. CASE k = nr_threads + 1 BY <3>2, <3>3, <1>8
    <3>4. CASE k \in 1..nr_threads
      BY <3>4, <1>1, <1>3, <1>7 DEF Partial
    <3> QED BY <3>3, <3>4, <1>2, <1>6
  <2>5. ASSUME NEW k \in 1..nr_threads', NEW l \in 1..nr_threads', k < l
        PROVE  tids'[k] < tids'[l]
    <3>1. k \in 1..nr_threads BY <2>5, <1>2, <1>6
    <3>2. CASE l = nr_threads + 1 BY <3>1, <3>2, <1>3, <1>5, <1>7, <1>8 DEF Partial
    <3>3. CASE l \in 1..nr_threads BY <2>5, <3>1, <3>3, <1>3, <1>7 DEF Partial
    <3> QED BY <3>2, <3>3, <1>2, <1>6
  <2> QED BY <1>2, <1>3, <2>1, <2>2, <2>3, <2>4, <2>5 DEF Partial
<1>11. num_checkpoints # 0 BY <1>2 DEF AInv, NotYet
<1> QED BY <1>2, <1>4, <1>10, <1>11 DEF AInv, NotYet

LEMMA AttachListed ==
    ASSUME TypeOK, AInv, Attach, MaxTid <= MaxThreads
    PROVE  AInv'
<1> USE ThreadAssumption
<1>1. CASE SeizeNext BY <1>1, SeizeListed
<1>2. CASE TooManyThreads
  <2>1. pc = "seize" /\ ents # {} /\ nr_threads >= MaxThreads BY <1>2 DEF TooManyThreads
  <2>2. PICK t \in ents : nr_threads < t BY <2>1 DEF AInv, Partial
  <2>3. t \in Thread BY <2>2 DEF TypeOK
  <2> QED BY <2>1, <2>2, <2>3 DEF Thread, TypeOK
<1>3. CASE AllSeized
  <2>1. /\ pc = "seize" /\ ents = {} /\ pc' = "interrupt" /\ tid_count' = nr_threads
        /\ UNCHANGED <<state, traced, op, i, tids, num_checkpoints>>
    BY <1>3 DEF AllSeized, process, loops
  <2>2. Living' = Living BY <2>1 DEF Living
  <2>3. Partial /\ (op = "checkpoint" => num_checkpoints = 1) /\ Leader \in Living
    BY <2>1 DEF AInv
  <2>4. Complete(tid_count)' BY <2>1, <2>2, <2>3 DEF Complete, Partial
  <2>5. PICK k \in 1..nr_threads : tids[k] = Leader BY <2>1, <2>3 DEF Partial
  <2>6. \A l \in 1..nr_threads : tids[l] \in Thread
    BY <2>3 DEF Partial, Living
  <2>7. k = 1
    <3>1. SUFFICES ASSUME 1 < k PROVE FALSE BY <2>5 DEF TypeOK
    <3>2. 1 \in 1..nr_threads BY <2>5 DEF TypeOK
    <3>3. tids[1] < tids[k] BY <3>1, <3>2, <2>3 DEF Partial
    <3> QED BY <3>2, <3>3, <2>5, <2>6 DEF Leader, Thread
  <2>8. LeaderFirst' BY <2>1, <2>5, <2>7 DEF LeaderFirst, TypeOK
  <2>9. Stopping'
    <3>1. traced' = Living' BY <2>1, <2>2, <2>3 DEF Partial
    <3> QED BY <2>1, <2>3, <3>1 DEF Stopping, Partial
  <2>10. num_checkpoints # 0 BY <2>1 DEF AInv, NotYet
  <2> QED BY <2>1, <2>2, <2>3, <2>4, <2>8, <2>9, <2>10 DEF AInv, NotYet
<1>4. CASE Interrupt
  <2>1. /\ pc = "interrupt" /\ i <= tid_count
        /\ UNCHANGED <<state, traced, op, tids, tid_count, num_checkpoints>>
    BY <1>4 DEF Interrupt, process, Rest
  <2>2. Living' = Living BY <2>1 DEF Living
  <2>3. Complete(tid_count) /\ LeaderFirst /\ (Stopping \/ Stuck) BY <2>1 DEF AInv
  <2>4. i \in 1..tid_count BY <2>1 DEF TypeOK
  <2>5. tids[i] \in Thread BY <2>3, <2>4 DEF Complete, Living
  <2>6. pc' = "wait" /\ i' = i BY <1>4, <2>5 DEF Interrupt, Thread
  <2>7. Complete(tid_count)' /\ LeaderFirst' /\ (Stopping' \/ Stuck')
    BY <2>1, <2>2, <2>3, <2>6 DEF Complete, LeaderFirst, Stopping, Stuck
  <2> QED BY <2>1, <2>2, <2>6, <2>7 DEF AInv, NotYet
<1>5. CASE wait4
  <2>1. /\ pc = "wait" /\ pc' \in {"interrupt", "aborted"}
        /\ UNCHANGED <<state, traced, op, tid_count, num_checkpoints>>
    BY <1>5 DEF wait4, process, Rest, Pass
  <2>2. Living' = Living BY <2>1 DEF Living
  <2>3. Complete(tid_count) /\ LeaderFirst /\ (Stopping \/ Stuck) BY <2>1 DEF AInv
  <2>4. i \in 1..tid_count BY <2>1 DEF TypeOK
  <2>5. tids[i] \in Living BY <2>3, <2>4 DEF Complete
  <2>6. tids[i] = Leader \/ Stopping BY <2>3 DEF Stuck, LeaderFirst
  <2>7. tids' = tids /\ (pc' = "interrupt" => i' = i + 1 /\ state[tids[i]] = "stop")
    BY <1>5, <2>5, <2>6 DEF wait4, Pass, Stopping
  <2>8. CASE pc' = "aborted" BY <2>1, <2>2, <2>8 DEF AInv, NotYet
  <2>9. CASE pc' = "interrupt"
    <3>1. Stopping BY <2>3, <2>7, <2>9 DEF Stuck, LeaderFirst
    <3>2. Complete(tid_count)' /\ LeaderFirst'
      BY <2>1, <2>2, <2>3, <2>7 DEF Complete, LeaderFirst
    <3>3. ASSUME NEW k \in 1..tid_count, k < i' PROVE state[tids[k]] = "stop"
      <4>1. k < i \/ k = i BY <3>3, <2>4, <2>7, <2>9 DEF TypeOK
      <4> QED BY <4>1, <3>1, <2>7, <2>9 DEF Stopping
    <3>4. Stopping' BY <2>1, <2>2, <2>7, <3>1, <3>3 DEF Stopping
    <3> QED BY <2>1, <2>2, <2>9, <3>2, <3>4 DEF AInv, NotYet
  <2> QED BY <2>1, <2>8, <2>9
<1> QED BY <1>1, <1>2, <1>3, <1>4, <1>5 DEF Attach

\* Between the last wait4 and the first detach all threads have stopped.
LEMMA AllAreStopped ==
    ASSUME TypeOK, AInv, pc = "interrupt", i > tid_count
    PROVE  Stopping /\ \A t \in Living : state[t] = "stop"
<1>1. Complete(tid_count) /\ LeaderFirst /\ (Stopping \/ Stuck) BY DEF AInv
<1>2. Stopping BY <1>1 DEF Stuck, LeaderFirst, TypeOK
<1>3. \A k \in 1..tid_count : k < i BY DEF TypeOK
<1> QED BY <1>1, <1>2, <1>3 DEF Complete, Stopping

LEMMA FinishListed ==
    ASSUME TypeOK, AInv, Finish
    PROVE  AInv'
<1> USE ThreadAssumption
<1>1. UNCHANGED <<num_checkpoints, tids, tid_count>> /\ pc \in {"interrupt", "detach"}
  BY DEF Finish, store_threads_registers, restore_threads_registers, DiffOnly, Detach,
         Reply, Work, Rest
<1>2. Complete(tid_count) /\ LeaderFirst /\ Leader \in Living /\ num_checkpoints # 0
  BY <1>1 DEF AInv, NotYet
<1>3. CASE store_threads_registers \/ restore_threads_registers \/ DiffOnly
  <2>1. /\ pc = "interrupt" /\ i > tid_count /\ pc' = "detach" /\ i' = 1
        /\ UNCHANGED <<state, traced>>
    BY <1>3 DEF store_threads_registers, restore_threads_registers, DiffOnly, Work
  <2>2. Living' = Living BY <2>1 DEF Living
  <2>3. traced = Living /\ \A t \in Living : state[t] = "stop"
    BY <2>1, AllAreStopped DEF Stopping
  <2>4. Complete(tid_count)' /\ LeaderFirst' BY <1>1, <1>2, <2>2 DEF Complete, LeaderFirst
  <2>5. Detaching' BY <1>1, <1>2, <2>1, <2>3 DEF Detaching, Complete
  <2> QED BY <1>1, <1>2, <2>1, <2>2, <2>4, <2>5 DEF AInv, NotYet
<1>4. CASE Detach
  <2>1. i \in Index /\ pc = "detach" /\ pc' = "detach" /\ i' = i + 1 /\ i \in 1..tid_count
    BY <1>4 DEF Detach, Pass, TypeOK, Index
  <2>2. tids[i] \in Living /\ tids[i] \in Thread BY <1>2, <2>1 DEF Complete, Living
  <2>3. Detaching BY <2>1 DEF AInv
  <2>4. tids[i] \notin traced' /\ traced' \subseteq traced
        /\ \A t \in Thread : t # tids[i] => state'[t] = state[t]
    <3>1. tids[i] > 0 BY <2>2 DEF Thread
    <3>2. CASE state[tids[i]] \in {"stop", "sigstop"}
      BY <1>4, <2>2, <3>1, <3>2 DEF Detach, TypeOK
    <3>3. CASE state[tids[i]] \notin {"stop", "sigstop"}
      <4>1. UNCHANGED <<state, traced>> BY <1>4, <3>3 DEF Detach
      <4> QED BY <4>1, <3>3, <2>3 DEF Detaching
    <3> QED BY <3>2, <3>3
  <2>5. Living' = Living
    <3>1. \/ UNCHANGED state
          \/ state' = [state EXCEPT ![tids[i]] = "run"]
      BY <1>4 DEF Detach
    <3> QED BY <3>1, <2>2 DEF Living, TypeOK
  <2>6. Complete(tid_count)' /\ LeaderFirst' BY <1>1, <1>2, <2>5 DEF Complete, LeaderFirst
  <2>7. ASSUME NEW t \in traced'
        PROVE  state'[t] = "stop" /\ \E k \in i'..tid_count : tids[k] = t
    <3>1. t \in Thread /\ t # tids[i] /\ t \in traced BY <2>4, <2>7 DEF TypeOK
    <3>2. PICK k \in i..tid_count : tids[k] = t BY <3>1, <2>3 DEF Detaching
    <3>3. k \in i'..tid_count BY <3>1, <3>2, <2>1 DEF TypeOK
    <3> QED BY <3>1, <3>2, <3>3, <2>3, <2>4 DEF Detaching
  <2>8. Detaching' BY <1>1, <2>7 DEF Detaching
  <2> QED BY <1>1, <1>2, <2>1, <2>5, <2>6, <2>8 DEF AInv, NotYet
<1>5. CASE Reply
  <2>1. pc = "detach" /\ i > tid_count /\ pc' = "idle" /\ UNCHANGED <<state, traced>>
    BY <1>5 DEF Reply, process
  <2>2. Living' = Living BY <2>1 DEF Living
  <2>3. traced = {}
    <3>1. i..tid_count = {} BY <2>1 DEF TypeOK
    <3> QED BY <3>1, <2>1 DEF AInv, Detaching
  <2>4. Complete(tid_count)' /\ LeaderFirst' BY <1>1, <1>2, <2>2 DEF Complete, LeaderFirst
  <2> QED BY <1>1, <1>2, <2>1, <2>2, <2>3, <2>4 DEF AInv, NotYet
<1> QED BY <1>3, <1>4, <1>5 DEF Finish

LEMMA InitListed == Init => AInv
<1> SUFFICES ASSUME Init PROVE AInv OBVIOUS
<1>1. Leader \in Living BY LeaderIsThread DEF Init, Living
<1> QED BY <1>1 DEF Init, AInv, NotYet

LEMMA NextListed ==
    ASSUME TypeOK, AInv, [Next]_vars, Late \subseteq {"signal"}, MaxTid <= MaxThreads
    PROVE  AInv'
<1>1. CASE UNCHANGED vars
  <2>1. UNCHANGED <<state, traced, pc, op, ents, nr_threads, i, tids, tid_count, num_checkpoints>>
    BY <1>1 DEF vars, process, loops
  <2>2. Living' = Living BY <2>1 DEF Living
  <2> QED BY <2>1, <2>2 DEF AInv, NotYet, Partial, Complete, LeaderFirst, Stopping, Stuck,
                            Detaching
<1> QED BY <1>1, ThreadsListed, BeginsListed, AttachListed, FinishListed DEF Next

\* Nothing runs while memory is captured or restored: if tids[] has a slot for
\* every thread, and threads neither start nor exit once the first checkpoint
\* has begun, signals stop none of the manager's loops too early.  A second
\* checkpoint never gets that far (it waits for ever).
THEOREM AllAreStoppedAtWork ==
    ASSUME Late \subseteq {"signal"}, MaxTid <= MaxThreads
    PROVE  Spec => []AllStopped
<1>1. TypeOK /\ AInv => AllStopped BY AllAreStopped DEF AllStopped
<1> QED BY <1>1, InitListed, NextListed, TypeCorrect, PTL DEF Spec

-------------------------------------------------------------------------------
(* Registers are kept by position, and the positions are always the same.     *)

\* A new listing has the next thread in the next slot.
LEMMA SeizeSame ==
    ASSUME TypeOK, SameListing, SeizeNext
    PROVE  SameListing'
<1> USE ThreadAssumption
<1>1. PICK t \in Thread : /\ IsNext(t) /\ ents' = ents \ {t}
                          /\ tids' = [tids EXCEPT ![nr_threads + 1] = t]
  BY DEF SeizeNext
<1>2. /\ pc = "seize" /\ pc' = "seize" /\ nr_threads' = nr_threads + 1
      /\ nr_threads + 1 \in Index /\ nr_threads \in Nat
      /\ UNCHANGED <<state, op, num_checkpoints, tregs, saved>>
  BY DEF SeizeNext, TypeOK, Index
<1>3. SUFFICES ASSUME Stored PROVE \E n \in 1..MaxThreads : \E f \in [1..n -> Thread] : ListedAs(f, n)'
  BY <1>2 DEF SameListing, Stored
<1>4. PICK n \in 1..MaxThreads : \E f \in [1..n -> Thread] : ListedAs(f, n)
  BY <1>3 DEF SameListing
<1>5. PICK f \in [1..n -> Thread] : ListedAs(f, n) BY <1>4
<1>6. ents = {f[k] : k \in (nr_threads + 1)..n} BY <1>2, <1>5 DEF ListedAs
<1>7. PICK j \in (nr_threads + 1)..n : t = f[j] BY <1>1, <1>6 DEF IsNext
<1>8. nr_threads + 1 \in 1..n /\ j \in 1..n BY <1>2, <1>7
<1>9. j = nr_threads + 1
  <2>1. f[nr_threads + 1] \in ents BY <1>6, <1>8
  <2>2. t <= f[nr_threads + 1] BY <1>1, <2>1 DEF IsNext
  <2>3. f[nr_threads + 1] \in Nat /\ t \in Nat BY <1>8 DEF Thread
  <2>4. j > nr_threads + 1 => f[nr_threads + 1] < t BY <1>5, <1>7, <1>8 DEF ListedAs
  <2> QED BY <2>2, <2>3, <2>4, <1>2, <1>7
<1>10. \A k \in 1..nr_threads' : tids'[k] = f[k]
  BY <1>1, <1>2, <1>5, <1>7, <1>9 DEF ListedAs, TypeOK, Index
<1>11. ents' = {f[k] : k \in (nr_threads' + 1)..n}
  <2>1. \A k \in (nr_threads' + 1)..n : f[k] # t
    <3> TAKE k \in (nr_threads' + 1)..n
    <3>1. k \in 1..n /\ j < k BY <1>2, <1>9
    <3>2. f[j] < f[k] BY <1>5, <1>8, <3>1 DEF ListedAs
    <3>3. f[j] \in Nat /\ f[k] \in Nat BY <1>8, <3>1 DEF Thread
    <3> QED BY <1>7, <3>2, <3>3
  <2>2. \A k \in (nr_threads + 1)..n : k = j \/ k \in (nr_threads' + 1)..n
    BY <1>2, <1>9
  <2>3. \A k \in (nr_threads' + 1)..n : k \in (nr_threads + 1)..n BY <1>2
  <2> QED BY <1>1, <1>6, <1>7, <2>1, <2>2, <2>3
<1>12. Living' = Living BY <1>2 DEF Living
<1>13. ListedAs(f, n)' BY <1>2, <1>5, <1>8, <1>10, <1>11, <1>12 DEF ListedAs
<1> QED BY <1>13

\* wait4 crosses out no entry.
LEMMA NoneCrossedOut ==
    ASSUME TypeOK, AInv, wait4
    PROVE  tids' = tids
<1>1. pc = "wait" BY DEF wait4
<1>2. Complete(tid_count) /\ LeaderFirst /\ (Stopping \/ Stuck) BY <1>1 DEF AInv
<1>3. i \in 1..tid_count BY <1>1, ThreadAssumption DEF TypeOK
<1>4. tids[i] \in Living BY <1>2, <1>3 DEF Complete
<1>5. tids[i] = Leader \/ Stopping BY <1>2 DEF Stuck, LeaderFirst
<1> QED BY <1>4, <1>5 DEF wait4, Stopping

LEMMA AttachSame ==
    ASSUME TypeOK, AInv, SameListing, Attach, MaxTid <= MaxThreads
    PROVE  SameListing'
<1> USE ThreadAssumption
<1>1. CASE SeizeNext BY <1>1, SeizeSame
<1>2. CASE TooManyThreads
  <2>1. pc = "seize" /\ ents # {} /\ nr_threads >= MaxThreads BY <1>2 DEF TooManyThreads
  <2>2. PICK t \in ents : nr_threads < t BY <2>1 DEF AInv, Partial
  <2>3. t \in Thread BY <2>2 DEF TypeOK
  <2> QED BY <2>1, <2>2, <2>3 DEF Thread, TypeOK
<1>3. CASE AllSeized
  <2>1. /\ pc = "seize" /\ ents = {} /\ pc' = "interrupt" /\ tid_count' = nr_threads
        /\ UNCHANGED <<state, op, tids, tregs, saved, num_checkpoints>>
    BY <1>3 DEF AllSeized, process, loops
  <2>2. Living' = Living BY <2>1 DEF Living
  <2>3. SUFFICES ASSUME Stored
                 PROVE  \E n \in 1..MaxThreads : \E f \in [1..n -> Thread] : ListedAs(f, n)'
    BY <2>1 DEF SameListing, Stored
  <2>4. PICK n \in 1..MaxThreads : \E f \in [1..n -> Thread] : ListedAs(f, n)
    BY <2>3 DEF SameListing
  <2>5. PICK f \in [1..n -> Thread] : ListedAs(f, n) BY <2>4
  <2>6. nr_threads = n
    <3>1. nr_threads <= n /\ ents = {f[k] : k \in (nr_threads + 1)..n}
      BY <2>1, <2>5 DEF ListedAs
    <3>2. ASSUME nr_threads < n PROVE FALSE
      <4>1. nr_threads + 1 \in (nr_threads + 1)..n BY <3>2 DEF TypeOK
      <4>2. f[nr_threads + 1] \in ents BY <3>1, <4>1
      <4> QED BY <2>1, <4>2
    <3> QED BY <3>1, <3>2 DEF TypeOK
  <2>7. ListedAs(f, n)' BY <2>1, <2>2, <2>5, <2>6 DEF ListedAs
  <2> QED BY <2>7
<1>4. CASE Interrupt \/ wait4
  <2>1. /\ pc \in {"interrupt", "wait"} /\ pc' \in {"interrupt", "wait", "aborted"}
        /\ UNCHANGED <<state, op, tid_count, tregs, saved, num_checkpoints>>
    BY <1>4 DEF Interrupt, wait4, process, Rest, Pass
  <2>2. tids' = tids BY <1>4, NoneCrossedOut DEF Interrupt
  <2>3. Living' = Living BY <2>1 DEF Living
  <2>4. Stored' => Stored BY <2>1 DEF Stored
  <2>5. \A n \in 1..MaxThreads : \A f \in [1..n -> Thread] : ListedAs(f, n) => ListedAs(f, n)'
    BY <2>1, <2>2, <2>3 DEF ListedAs
  <2> QED BY <2>4, <2>5 DEF SameListing
<1> QED BY <1>1, <1>2, <1>3, <1>4 DEF Attach

\* The registers that are stored are those of the threads of the listing.
LEMMA StoreSame ==
    ASSUME TypeOK, AInv, store_threads_registers
    PROVE  SameListing'
<1> USE ThreadAssumption
<1>1. /\ pc = "interrupt" /\ i > tid_count /\ pc' = "detach"
      /\ saved' = regs /\ UNCHANGED <<state, tids, tid_count>>
      /\ tregs' = [k \in Index |-> IF k \in Slots THEN regs[tids[k]] ELSE tregs[k]]
  BY DEF store_threads_registers, Work
<1>2. Living' = Living BY <1>1 DEF Living
<1>3. Complete(tid_count) /\ LeaderFirst BY <1>1 DEF AInv
<1>4. tid_count \in 1..MaxThreads BY <1>3 DEF LeaderFirst, TypeOK
<1>5. \A k \in 1..tid_count : tids[k] \in Thread BY <1>3 DEF Complete, Living
<1>6. \A k \in 1..tid_count : k \in Slots BY <1>4, <1>5 DEF Slots, Index, Thread
<1>7. PICK n \in 1..MaxThreads : n = tid_count BY <1>4
<1>8. PICK f \in [1..n -> Thread] : \A k \in 1..n : f[k] = tids[k]
  <2>1. [k \in 1..n |-> tids[k]] \in [1..n -> Thread] BY <1>5, <1>7
  <2> QED BY <2>1
<1>9. \A k \in 1..n : tregs'[k] = regs[f[k]]
  BY <1>1, <1>6, <1>7, <1>8 DEF Slots
<1>10. Living' = {f[k] : k \in 1..n} BY <1>2, <1>3, <1>7, <1>8 DEF Complete
<1>11. \A k, l \in 1..n : k < l => f[k] < f[l] BY <1>3, <1>7, <1>8 DEF Complete
<1>12. ListedAs(f, n)' BY <1>1, <1>7, <1>8, <1>9, <1>10, <1>11 DEF ListedAs
<1> QED BY <1>12 DEF SameListing

LEMMA FinishSame ==
    ASSUME TypeOK, AInv, SameListing, Finish
    PROVE  SameListing'
<1> USE ThreadAssumption
<1>1. CASE store_threads_registers BY <1>1, StoreSame
<1>2. CASE restore_threads_registers \/ DiffOnly \/ Detach \/ Reply
  <2>1. /\ pc \in {"interrupt", "detach"} /\ pc' \in {"idle", "detach"}
        /\ pc = "interrupt" => op # "checkpoint"
        /\ UNCHANGED <<num_checkpoints, tids, tid_count, tregs, saved>>
    BY <1>2 DEF restore_threads_registers, DiffOnly, Detach, Reply, Work, Pass, Rest
  <2>2. Living' = Living
    <3>1. \/ UNCHANGED state
          \/ /\ state' = [state EXCEPT ![tids[i]] = "run"]
             /\ state[tids[i]] \in {"stop", "sigstop"}
      BY <1>2 DEF restore_threads_registers, DiffOnly, Detach, Reply, Work, process
    <3> QED BY <3>1 DEF Living, TypeOK
  <2>3. Stored' => Stored BY <2>1 DEF Stored
  <2>4. \A n \in 1..MaxThreads : \A f \in [1..n -> Thread] : ListedAs(f, n) => ListedAs(f, n)'
    BY <2>1, <2>2 DEF ListedAs
  <2> QED BY <2>3, <2>4 DEF SameListing
<1> QED BY <1>1, <1>2 DEF Finish

LEMMA ThreadsSame ==
    ASSUME TypeOK, AInv, SameListing, Threads, Late \subseteq {"signal"}
    PROVE  SameListing'
<1>1. /\ UNCHANGED <<pc, op, ents, nr_threads, tids, tid_count, tregs, saved, num_checkpoints>>
      /\ num_checkpoints > 0 => Living' = Living
  BY ThreadsQuiet DEF manager, loops
<1>2. Stored' => Stored /\ Living' = Living BY <1>1 DEF Stored
<1>3. ASSUME Living' = Living
      PROVE  \A n \in 1..MaxThreads : \A f \in [1..n -> Thread] : ListedAs(f, n) => ListedAs(f, n)'
  BY <1>1, <1>3 DEF ListedAs
<1> QED BY <1>2, <1>3 DEF SameListing

LEMMA BeginsSame ==
    ASSUME TypeOK, AInv, SameListing, checkpoint \/ Request
    PROVE  SameListing'
<1>1. CASE checkpoint
  <2>1. num_checkpoints' = 1 /\ op' = "checkpoint" /\ pc' = "seize"
    BY <1>1 DEF checkpoint, Begin, TypeOK
  <2> QED BY <2>1 DEF SameListing, Stored
<1>2. CASE Request
  <2>1. PICK name \in Requests : Begin(name, FALSE) /\ num_checkpoints > 0
    BY <1>2 DEF Request
  <2>2. pc = "idle" /\ nr_threads' = 0 /\ UNCHANGED <<state, tid_count, tregs, saved>>
    BY <2>1 DEF Begin, process
  <2>3. Living' = Living BY <2>2 DEF Living
  <2>4. Stored BY <2>1, <2>2 DEF Stored
  <2>5. \/ pc' = "seize" /\ ents' = Living
        \/ pc' = "interrupt" /\ tids' = tids
    BY <2>1 DEF Begin
  <2>6. ASSUME NEW n \in 1..MaxThreads, NEW f \in [1..n -> Thread], ListedAs(f, n)
        PROVE  ListedAs(f, n)'
    BY <2>2, <2>3, <2>5, <2>6 DEF ListedAs
  <2> QED BY <2>4, <2>6 DEF SameListing
<1> QED BY <1>1, <1>2

LEMMA NextSame ==
    ASSUME TypeOK, AInv, SameListing, [Next]_vars,
           Late \subseteq {"signal"}, MaxTid <= MaxThreads
    PROVE  SameListing'
<1>1. CASE UNCHANGED vars
  <2>1. UNCHANGED <<state, pc, op, ents, nr_threads, tids, tid_count, tregs, saved, num_checkpoints>>
    BY <1>1 DEF vars, process, loops
  <2>2. Living' = Living BY <2>1 DEF Living
  <2>3. \A n \in 1..MaxThreads : \A f \in [1..n -> Thread] : ListedAs(f, n) => ListedAs(f, n)'
    BY <2>1, <2>2 DEF ListedAs
  <2> QED BY <2>1, <2>3 DEF SameListing, Stored
<1> QED BY <1>1, ThreadsSame, BeginsSame, AttachSame, FinishSame DEF Next

\* The step that writes the registers.
LEMMA OwnRegisters ==
    ASSUME TypeOK, AInv, SameListing, [Next]_vars,
           pc = "interrupt", pc' = "detach", op = "restore"
    PROVE  \A t \in Living : regs'[t] = saved[t]
<1> USE ThreadAssumption
<1>1. restore_threads_registers
  BY DEF Next, Threads, Run, Clone, Exit, Signal, Stops, manager, checkpoint, Request, Begin,
         Attach, SeizeNext, TooManyThreads, AllSeized, Interrupt, wait4, Pass, Finish,
         store_threads_registers, DiffOnly, Work, Detach, Reply, vars
<1>2. num_checkpoints > 0 BY DEF AInv, NotYet, TypeOK
<1>3. PICK n \in 1..MaxThreads : \E f \in [1..n -> Thread] : ListedAs(f, n)
  BY <1>2 DEF SameListing, Stored
<1>4. PICK f \in [1..n -> Thread] : ListedAs(f, n) BY <1>3
<1> TAKE t \in Living
<1>5. PICK k \in 1..n : f[k] = t BY <1>4 DEF ListedAs
<1>6. tid_count = n /\ \A l \in 1..n : tids[l] = f[l] BY <1>4 DEF ListedAs
<1>7. t \in Thread /\ k \in Slots /\ tids[k] = t
  BY <1>5, <1>6 DEF Living, Slots, Index, Thread
<1>8. ASSUME NEW l \in Slots, tids[l] = t PROVE l = k
  <2>1. l \in 1..n BY <1>6 DEF Slots, Index
  <2>2. f[l] = f[k] BY <1>5, <1>6, <1>8, <2>1
  <2>3. f[k] \in Nat BY <1>5, <1>7 DEF Thread
  <2>4. ~(l < k) /\ ~(k < l) BY <1>4, <1>5, <2>1, <2>2, <2>3 DEF ListedAs
  <2> QED BY <1>5, <2>1, <2>4
<1>9. (CHOOSE l \in Slots : tids[l] = t) = k BY <1>7, <1>8
<1>10. regs'[t] = tregs[k] BY <1>1, <1>7, <1>9 DEF restore_threads_registers
<1> QED BY <1>4, <1>5, <1>10 DEF ListedAs

\* A restore gives every thread its own registers, although they are found by
\* position in another listing than the one they were stored by, for any number
\* of threads that tids[] has slots for, as long as none starts or exits
\* (store_threads_registers, restore_threads_registers).
THEOREM OwnRegistersRestored ==
    ASSUME Late \subseteq {"signal"}, MaxTid <= MaxThreads
    PROVE  Spec => RegistersRestored
<1>1. Init => SameListing BY DEF Init, SameListing, Stored
<1>2. TypeOK /\ AInv /\ SameListing /\ [Next]_vars
        => [pc = "interrupt" /\ pc' = "detach" /\ op = "restore"
              => \A t \in Living : regs'[t] = saved[t]]_vars
  BY OwnRegisters
<1> QED BY <1>1, <1>2, InitListed, NextListed, NextSame, TypeCorrect, PTL
        DEF Spec, RegistersRestored

-------------------------------------------------------------------------------
(* The injected calls: for any set of calls, and any number of calls and of    *)
(* signals, a call leaves no trace in a function that lives on.                *)

\* All the calls but the last one.
Earlier ==
    /\ Len(issued) > 0
    /\ \A k \in 1..(Len(issued) - 1) :
          executed[k] = [call |-> issued[k], result |-> "expected"]

\* The last call has yet to be executed, or it has been, with result r.
NotExecuted  == Earlier /\ Len(executed) = Len(issued) - 1
Once(r) == /\ Earlier /\ Len(executed) = Len(issued)
           /\ executed[Len(issued)] = [call |-> Current, result |-> r]
AllDone == /\ Len(executed) = Len(issued)
           /\ \A k \in 1..Len(issued) :
                 executed[k] = [call |-> issued[k], result |-> "expected"]

\* The registers say whether the kernel has executed the call.
InCall ==
    /\ fn_regs \in CallRegs /\ fn_regs.call = Current
    /\ IF fn_regs.rax = "number" THEN NotExecuted ELSE Once(fn_regs.rax)

\* What the state of a live function is at each place of do_clean_syscall.
Progress == fn # "dead" =>
    /\ mpc \in {"between", "resumed"} => text = "own" /\ fn_regs = Own /\ AllDone
    /\ mpc \in {"getregs", "peek", "poke"} => text = "own" /\ fn_regs = Own /\ NotExecuted
    /\ mpc \in {"peek", "poke", "setregs", "step", "wait", "look", "untext", "unregs"} =>
          original_regs = Own
    /\ mpc \in {"poke", "setregs", "step", "wait", "look", "untext", "unregs"} =>
          peekdata = "own"
    /\ mpc \in {"setregs", "step", "wait", "look", "untext"} => text = "syscall"
    /\ mpc = "setregs" =>
          /\ fn_regs = Own /\ NotExecuted
          /\ syscall_regs = [call |-> Current, rax |-> "number"]
    /\ mpc \in {"step", "wait", "look", "untext", "unregs"} => InCall
    /\ mpc = "step" \/ (mpc = "wait" /\ fn = "stepping") => fn_regs.rax = "number"
    /\ mpc \in {"untext", "unregs"} => fn_regs.rax # "number" /\ syscall_regs = fn_regs
    /\ mpc \in {"unregs", "returned"} => text = "own"
    /\ mpc = "returned" => fn_regs = Own /\ Once(syscall_regs.rax)
    /\ fn = "stepping" => mpc \in {"wait"} \cup Ended
    /\ fn = "runs" <=> mpc = "resumed"
    /\ report # "none" => mpc \in {"wait"} \cup Ended /\ fn = "stopped"

\* Of a dead function too.
Begun == mpc \in {"getregs", "peek", "poke"} => issued # <<>>

CleanInv == InjectorTypeOK /\ Progress /\ Begun

LEMMA InjectorFacts ==
    /\ Own \notin CallRegs /\ Garbage \notin CallRegs
    /\ Strayed \notin CallRegs
    /\ Own # Strayed /\ Own # Garbage
    /\ \A r \in CallRegs :
          /\ r = [call |-> r.call, rax |-> r.rax]
          /\ r.call \in Call /\ r.rax \in Result \cup {"number"}
    /\ \A c \in Call, a \in Result \cup {"number"} :
          [call |-> c, rax |-> a] \in CallRegs
  BY DEF Own, Garbage, Strayed, CallRegs, Result

LEMMA CleanAtFirst == ASSUME InjectorInit PROVE CleanInv
  <1>1. issued \in Seq(Call) /\ executed \in Seq([call : Call, result : Result])
    BY DEF InjectorInit
  <1>2. InjectorTypeOK
    BY <1>1, InjectorAssumption DEF InjectorInit, InjectorTypeOK
  <1>3. AllDone
    BY DEF InjectorInit, AllDone
  <1>4. Progress
    BY <1>3 DEF InjectorInit, Progress, Ended
  <1>5. QED
    BY <1>2, <1>4 DEF CleanInv, Begun, InjectorInit

LEMMA InjectorTypes ==
    ASSUME CleanInv, [InjectorNext]_injector PROVE InjectorTypeOK'
  <1> USE DEF InjectorTypeOK, Goes, Ended
  <1>0. InjectorTypeOK /\ Progress /\ Begun
    BY DEF CleanInv
  <1>1. ASSUME NEW c \in Call, BeginCall(c) PROVE InjectorTypeOK'
    <2>1. issued' \in Seq(Call)
      BY <1>0, <1>1 DEF BeginCall
    <2>2. QED
      BY <1>0, <1>1, <2>1 DEF BeginCall, image, kernel
  <1>2. CASE GetRegs
    BY <1>0, <1>2 DEF GetRegs, image, kernel
  <1>3. CASE PeekText
    BY <1>0, <1>3 DEF PeekText, image, kernel
  <1>4. CASE PokeText
    <2>1. Current \in Call
      BY <1>0, <1>4 DEF PokeText, Begun, Current
    <2>2. QED
      BY <1>0, <1>4, <2>1, InjectorFacts DEF PokeText, kernel
  <1>5. CASE SetRegs
    <2>1. fn_regs' \in CallRegs \cup {Own, Strayed}
      <3>1. CASE Stopped
        <4>1. syscall_regs = [call |-> Current, rax |-> "number"] /\ NotExecuted
          BY <1>0, <1>5, <3>1 DEF SetRegs, Progress, Stopped
        <4>2. Current \in Call
          BY <1>0, <4>1 DEF NotExecuted, Earlier, Current
        <4>3. QED
          BY <1>5, <3>1, <4>1, <4>2, InjectorFacts DEF SetRegs
      <3>2. CASE ~Stopped
        BY <1>0, <1>5, <3>2 DEF SetRegs
      <3>3. QED
        BY <3>1, <3>2
    <2>2. QED
      BY <1>0, <1>5, <2>1 DEF SetRegs, locals, kernel
  <1>6. CASE SingleStep
    BY <1>0, <1>6 DEF SingleStep, locals, image
  <1>7. CASE WaitPid
    BY <1>0, <1>7 DEF WaitPid, locals, image
  <1>8. CASE LookAtResult
    <2>1. Stopped => fn_regs \in CallRegs
      BY <1>0, <1>8 DEF LookAtResult, Progress, Stopped, InCall
    <2>2. QED
      BY <1>0, <1>8, <2>1 DEF LookAtResult, image, kernel
  <1>9. CASE RestoreText
    BY <1>0, <1>9 DEF RestoreText, locals, kernel, Progress,
       Stopped
  <1>10. CASE RestoreRegs
    BY <1>0, <1>10 DEF RestoreRegs, locals, kernel, Progress,
       Stopped
  <1>11. CASE CheckResult
    BY <1>0, <1>11 DEF CheckResult, locals, image, kernel
  <1>12. CASE Fail
    BY <1>0, <1>12 DEF Fail, locals, image
  <1>13. CASE Resume \/ StopAgain
    BY <1>0, <1>13 DEF Resume, StopAgain, locals, image
  <1>14. CASE SignalStop \/ ExitKill
    BY <1>0, <1>14, InjectorAssumption DEF SignalStop, ExitKill, caller,
       image, locals
  <1>15. CASE Execute
    <2>1. CASE fn_regs' = Strayed /\ UNCHANGED executed
      BY <1>0, <1>15, <2>1 DEF Execute, caller, locals
    <2>2. ASSUME NEW r \in Result, fn_regs \in CallRegs,
                 fn_regs' = [fn_regs EXCEPT !.rax = r],
                 executed' = Append(executed, [call |-> fn_regs.call, result |-> r])
          PROVE  InjectorTypeOK'
      <3>1. fn_regs' \in CallRegs
        BY <2>2 DEF CallRegs
      <3>2. [call |-> fn_regs.call, result |-> r] \in [call : Call, result : Result]
        BY <2>2 DEF CallRegs
      <3>3. executed' \in Seq([call : Call, result : Result])
        BY <1>0, <2>2, <3>2
      <3>4. QED
        BY <1>0, <1>15, <3>1, <3>3 DEF Execute, caller, locals
    <2>3. QED
      BY <1>15, <2>1, <2>2 DEF Execute
  <1>16. CASE SendSignal
    BY <1>0, <1>16, InjectorAssumption DEF SendSignal, caller, locals,
       image
  <1>17. CASE FnKilled \/ ManagerKilled
    BY <1>0, <1>17 DEF FnKilled, ManagerKilled, caller,
       locals, image, kernel
  <1>18. CASE UNCHANGED injector
    BY <1>0, <1>18 DEF injector, caller, locals, image,
       kernel
  <1>19. QED
    BY <1>1, <1>2, <1>3, <1>4, <1>5, <1>6, <1>7, <1>8, <1>9, <1>10, <1>11, <1>12, <1>13,
       <1>14, <1>15, <1>16, <1>17, <1>18 DEF InjectorNext, do_clean_syscall,
       Kernel

\* A step that leaves the two histories alone leaves alone what was said of them.
LEMMA CallHistories ==
    UNCHANGED <<issued, executed>> =>
        /\ Earlier' = Earlier /\ NotExecuted' = NotExecuted /\ AllDone' = AllDone
        /\ Current' = Current
        /\ \A r : Once(r)' = Once(r)
  BY DEF Earlier, NotExecuted, AllDone, Current, Once

LEMMA CallGoesOn == UNCHANGED <<issued, executed, fn_regs>> => InCall' = InCall
  BY CallHistories DEF InCall

LEMMA InjectorProgress ==
    ASSUME CleanInv, [InjectorNext]_injector PROVE Progress' /\ Begun'
  <1>0. InjectorTypeOK /\ Progress /\ Begun
    BY DEF CleanInv
  <1>a. fn \notin {"dead", "stepping"} /\ mpc # "resumed" => Stopped
    BY <1>0 DEF InjectorTypeOK, Progress, Stopped
  <1>1. ASSUME NEW c \in Call, BeginCall(c) PROVE Progress' /\ Begun'
    <2>1. /\ issued' = Append(issued, c) /\ executed' = executed /\ fn' = fn
          /\ mpc = "between" /\ mpc' = "getregs" /\ UNCHANGED <<image, report>>
      BY <1>1 DEF BeginCall, Goes, kernel
    <2>2. /\ issued \in Seq(Call) /\ Len(issued) \in Nat /\ Len(issued') = Len(issued) + 1
          /\ \A k \in 1..Len(issued) : issued'[k] = issued[k]
          /\ issued' # <<>>
      BY <1>0, <2>1 DEF InjectorTypeOK
    <2>3. AllDone => NotExecuted'
      BY <2>1, <2>2 DEF AllDone, NotExecuted, Earlier
    <2>4. QED
      BY <1>0, <2>1, <2>2, <2>3 DEF Progress, Begun, image, Ended
  <1>2. CASE GetRegs
    BY <1>0, <1>a, <1>2, CallHistories, CallGoesOn DEF GetRegs, Goes,
       image, kernel, Progress, Begun, Stopped, Ended
  <1>3. CASE PeekText
    BY <1>0, <1>a, <1>3, CallHistories, CallGoesOn DEF PeekText, Goes,
       image, kernel, Progress, Begun, Stopped, Ended
  <1>4. CASE PokeText
    BY <1>0, <1>a, <1>4, CallHistories, CallGoesOn DEF PokeText, Goes,
       kernel, Progress, Begun, Stopped, Ended
  <1>5. CASE SetRegs
    <2>1. UNCHANGED <<issued, executed, fn, report, text, original_regs, peekdata>>
      BY <1>5 DEF SetRegs, locals, kernel
    <2>2. fn # "dead" => InCall' /\ fn_regs'.rax = "number"
      <3> SUFFICES ASSUME fn # "dead" PROVE InCall' /\ fn_regs'.rax = "number"
        OBVIOUS
      <3>1. fn_regs' = [call |-> Current, rax |-> "number"] /\ NotExecuted
        BY <1>0, <1>a, <1>5 DEF SetRegs, Goes, Progress, Stopped,
           Ended, InjectorTypeOK
      <3>2. Current \in Call
        BY <1>0, <3>1 DEF NotExecuted, Earlier, Current, InjectorTypeOK
      <3>3. QED
        BY <2>1, <3>1, <3>2, InjectorFacts, CallHistories DEF InCall
    <2>3. QED
      BY <1>0, <1>a, <1>5, <2>1, <2>2, CallHistories DEF SetRegs, Goes,
         Progress, Begun, Stopped, Ended
  <1>6. CASE SingleStep
    BY <1>0, <1>a, <1>6, CallHistories, CallGoesOn DEF SingleStep, Goes,
       locals, image, Progress, Begun, Stopped, Ended
  <1>7. CASE WaitPid
    BY <1>0, <1>a, <1>7, CallHistories, CallGoesOn DEF WaitPid, Goes,
       locals, image, Progress, Begun, Stopped, Ended
  <1>8. CASE LookAtResult
    BY <1>0, <1>a, <1>8, CallHistories, CallGoesOn DEF LookAtResult, image,
       kernel, Progress, Begun, Stopped, Ended
  <1>9. CASE RestoreText
    BY <1>0, <1>a, <1>9, CallHistories, CallGoesOn DEF RestoreText, Goes,
       locals, kernel, Progress, Begun, Stopped, Ended
  <1>10. CASE RestoreRegs
    BY <1>0, <1>a, <1>10, CallHistories DEF InCall, RestoreRegs, Goes,
       locals, kernel, Progress, Begun, Stopped, Ended
  <1>11. CASE CheckResult
    <2>1. Len(issued) \in Nat
      BY <1>0 DEF InjectorTypeOK
    <2>2. Once("expected") => AllDone
      BY <2>1 DEF Once, Earlier, AllDone, Current
    <2>3. QED
      BY <1>0, <1>a, <1>11, <2>2, CallHistories, CallGoesOn DEF CheckResult,
         Goes, locals, image, kernel, Progress, Begun,
         Stopped, Ended
  <1>12. CASE Fail
    BY <1>0, <1>a, <1>12 DEF Fail, Goes, Progress, Begun
  <1>13. CASE Resume \/ StopAgain
    BY <1>0, <1>a, <1>13, CallHistories, CallGoesOn DEF Resume, StopAgain,
       Goes, locals, image, Progress, Begun, Stopped,
       Ended
  <1>14. CASE SignalStop \/ ExitKill
    BY <1>0, <1>a, <1>14, CallHistories, CallGoesOn DEF SignalStop,
       ExitKill, caller, locals, image, Progress, Begun,
       Stopped, Ended
  <1>15. CASE Execute
    <2>1. /\ fn = "stepping" /\ fn' = "stopped"
          /\ UNCHANGED <<mpc, issued, original_regs, peekdata, syscall_regs, text>>
      BY <1>15 DEF Execute, caller, locals
    <2>2. CASE mpc \in Ended
      BY <1>0, <2>1, <2>2 DEF Progress, Begun, Ended
    <2>3. CASE mpc = "wait"
      <3>1. /\ text = "syscall" /\ InCall /\ NotExecuted
            /\ fn_regs.rax = "number" /\ fn_regs \in CallRegs
        BY <1>0, <2>1, <2>3 DEF Progress, InCall, Ended
      <3>2. PICK r \in Result :
               /\ fn_regs' = [fn_regs EXCEPT !.rax = r]
               /\ executed' = Append(executed, [call |-> fn_regs.call, result |-> r])
        BY <1>15, <3>1 DEF Execute
      <3>3. /\ fn_regs' \in CallRegs /\ fn_regs'.call = Current' /\ fn_regs'.rax = r
            /\ r # "number"
        BY <2>1, <3>1, <3>2 DEF CallRegs, InCall, Current, Result
      <3>4. Once(r)'
        <4>1. [call |-> fn_regs.call, result |-> r] \in [call : Call, result : Result]
          BY <3>1 DEF CallRegs
        <4>2. /\ Len(executed) \in Nat /\ Len(executed') = Len(executed) + 1
              /\ \A k \in 1..Len(executed) : executed'[k] = executed[k]
              /\ executed'[Len(executed) + 1] = [call |-> fn_regs.call, result |-> r]
          BY <1>0, <3>2, <4>1 DEF InjectorTypeOK
        <4>3. Len(issued) \in Nat /\ Len(issued) = Len(executed) + 1
          BY <1>0, <3>1, <4>2 DEF InjectorTypeOK, NotExecuted
        <4>4. executed'[Len(issued')] = [call |-> Current', result |-> r]
          BY <2>1, <3>1, <4>2, <4>3 DEF InCall, Current
        <4>5. QED
          BY <2>1, <3>1, <4>2, <4>3, <4>4 DEF Once, NotExecuted, Earlier
      <3>5. InCall'
        BY <3>3, <3>4 DEF InCall
      <3>6. QED
        BY <1>0, <2>1, <2>3, <3>5 DEF Progress, Begun, Ended
    <2>4. QED
      BY <1>0, <2>1, <2>2, <2>3 DEF Progress
  <1>16. CASE SendSignal
    BY <1>0, <1>a, <1>16, CallHistories, CallGoesOn DEF SendSignal,
       caller, locals, image, Progress, Begun, Stopped,
       Ended
  <1>17. CASE FnKilled
    BY <1>0, <1>a, <1>17 DEF FnKilled, caller, Progress, Begun
  <1>18. CASE ManagerKilled
    BY <1>0, <1>a, <1>18 DEF ManagerKilled, locals, kernel,
       Progress, Begun, Ended
  <1>19. CASE UNCHANGED injector
    BY <1>0, <1>a, <1>19, CallHistories, CallGoesOn DEF injector, caller,
       locals, image, kernel, Progress, Begun, Stopped,
       Ended
  <1>20. QED
    BY <1>1, <1>2, <1>3, <1>4, <1>5, <1>6, <1>7, <1>8, <1>9, <1>10, <1>11, <1>12, <1>13,
       <1>14, <1>15, <1>16, <1>17, <1>18, <1>19 DEF InjectorNext, do_clean_syscall,
       Kernel

\* The inductive invariant: where do_clean_syscall is says what it has saved,
\* what it has overwritten, and whether the kernel has executed the call.
THEOREM InjectionInvariant == InjectorSpec => []CleanInv
  <1>1. CleanInv /\ [InjectorNext]_injector => CleanInv'
    BY InjectorTypes, InjectorProgress DEF CleanInv
  <1>2. QED
    BY <1>1, CleanAtFirst, PTL DEF InjectorSpec

\* What the ptrace requests write is always a register set or an instruction.
THEOREM InjectorTypeCorrect == InjectorSpec => []InjectorTypeOK
  <1>1. CleanInv => InjectorTypeOK
    BY DEF CleanInv
  <1>2. QED
    BY <1>1, InjectionInvariant, PTL

\* A function that lives on after a call has its own code and registers, and
\* every call was executed once, in order, with the wanted result, for any
\* number of calls, signals and deaths in between.
THEOREM InjectionIsClean == InjectorSpec => []CallsAreClean
  <1>1. CleanInv => CallsAreClean
    BY DEF CleanInv, Progress, CallsAreClean, AllDone
  <1>2. QED
    BY <1>1, InjectionInvariant, PTL

===============================================================================
