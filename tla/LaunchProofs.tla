----------------------------- MODULE LaunchProofs -----------------------------
(***************************************************************************)
(* Two arguments about launch.  spc_drop_privileges, for any set of        *)
(* identities: what groundhog starts has the identity of its invoker.  The *)
(* user is never changed by it; the check at its end makes up for that.    *)
(*                                                                         *)
(* The descriptors, for any limit and any descriptors that are open when   *)
(* the launcher starts: the function has its five pipes where it looks for *)
(* them, and every end of a pipe is open once.  mk_pipe takes the lowest   *)
(* numbers, so the numbers of the pipes ascend; the closes split every     *)
(* pipe between the two tables; a move never lands on a number that is     *)
(* still to be moved, because the first pipe is above 2 (or the child has  *)
(* closed it, and fails at its first move) and the others above 5.         *)
(***************************************************************************)
EXTENDS Launch, FiniteSetTheorems, TLAPS

\* Nothing is set before spc_drop_privileges; the saved identity of a program
\* that was just executed is its effective one.
Untouched ==
    cpc \in {"unborn", "close", "move", "drop"} => uid \in Identity /\ gid \in Identity

Dropped ==
    program = "groundhog" /\ cpc \in {"exec", "trapped", "runs", "asks"} =>
        uid = Same(uid.real) /\ gid = Same(gid.real) /\ (Privileged => groups = "own")

\* The parent forks once, and what it waits for is the trap it names.
Places ==
    /\ cpc \in {"unborn", "close", "move", "drop", "exec", "trapped", "runs", "asks", "dead"}
    /\ ppc = "pipes" => cpc = "unborn"
    /\ status = "trap" => cpc = "trapped"

IInv == Untouched /\ Dropped /\ Places

LEMMA Step == IInv /\ [Next]_vars => IInv'
  <1> SUFFICES ASSUME IInv, [Next]_vars PROVE IInv'
    OBVIOUS
  <1> USE DEF Untouched, Dropped, Places, IInv, Privileged
  <1>1. CASE mk_pipe
    BY <1>1 DEF mk_pipe
  <1>2. CASE Fork
    BY <1>2 DEF Fork
  <1>3. CASE ChildClose
    BY <1>3 DEF ChildClose, ChildEnds
  <1>4. CASE ChildMove
    BY <1>4 DEF ChildMove, ChildEnds
  <1>5. CASE spc_drop_privileges
    <2>0. cpc = "drop" /\ UNCHANGED ppc /\ (status' = status \/ status' = "aborted")
      BY <1>5 DEF spc_drop_privileges, ChildEnds
    <2>1. CASE cpc' = "dead"
      <3>1. status' = "aborted"
        BY <1>5, <2>1 DEF spc_drop_privileges, ChildEnds
      <3>2. QED
        BY <2>0, <2>1, <3>1
    <2>2. CASE cpc' # "dead"
      <3> DEFINE g1 == IF gid.real # gid.effective THEN Same(gid.real) ELSE gid
                 g2 == IF uid.real # uid.effective THEN Same(uid.real) ELSE g1
      <3>1. /\ Verified(g2) /\ cpc' = "exec" /\ gid' = g2
            /\ groups' = IF Privileged THEN "own" ELSE groups
            /\ UNCHANGED <<uid, program>>
        BY <1>5, <2>2 DEF spc_drop_privileges, ChildEnds
      <3>2. uid \in Identity /\ gid \in Identity
        BY <1>5 DEF spc_drop_privileges
      <3>3. PICK r \in Id, e \in Id : uid = [real |-> r, effective |-> e, saved |-> e]
        BY <3>2 DEF Identity
      <3>4. PICK q \in Id, f \in Id : gid = [real |-> q, effective |-> f, saved |-> f]
        BY <3>2 DEF Identity
      <3>5. uid.real = uid.effective
        BY <3>1 DEF Verified, CanSetEuid
      <3>6. uid = Same(uid.real)
        BY <3>3, <3>5 DEF Same
      <3>7. g2 = Same(gid.real)
        BY <3>4, <3>5 DEF Same
      <3>8. gid' = Same(gid'.real)
        BY <3>1, <3>7 DEF Same
      <3>9. Untouched' /\ Dropped'
        BY <3>1, <3>6, <3>8
      <3>10. status' = status
        BY <1>5, <2>2 DEF spc_drop_privileges, ChildEnds
      <3>11. Places'
        BY <2>0, <3>1, <3>10
      <3>12. QED
        BY <3>9, <3>11
    <2>3. QED
      BY <2>1, <2>2
  <1>6. CASE Exec
    BY <1>6 DEF Exec, ChildEnds
  <1>7. CASE FnAsks
    BY <1>7 DEF FnAsks
  <1>8. CASE FnEnds
    BY <1>8 DEF FnEnds, ChildEnds
  <1>9. CASE ParentClose
    BY <1>9 DEF ParentClose
  <1>10. CASE FirstWait
    BY <1>10 DEF FirstWait
  <1>11. CASE Answer \/ EndOfCommands \/ LoopWait
    BY <1>11 DEF Answer, EndOfCommands, LoopWait
  <1>12. CASE UNCHANGED vars
    BY <1>12 DEF vars
  <1>13. QED
    BY <1>1, <1>2, <1>3, <1>4, <1>5, <1>6, <1>7, <1>8, <1>9, <1>10, <1>11, <1>12
       DEF Next, Child, Parent

\* For every invoker and every setuid or setgid launcher, a function that is
\* started by groundhog has the invoker's identity for good.
THEOREM StartedUnprivileged == Spec => []PrivilegesDropped
  <1>1. Init => IInv
    BY DEF Init, IInv, Untouched, Dropped, Places
  <1>2. IInv => PrivilegesDropped
    BY DEF IInv, Dropped, PrivilegesDropped, Started
  <1>3. QED
    BY <1>1, <1>2, Step, PTL DEF Spec

-------------------------------------------------------------------------------
(* The descriptors.  Pipe p is the p-th of Pipes; end k of it is number k of  *)
(* its pair.                                                                  *)

EndOf(p, k) == [pipe |-> Pipes[p], end |-> k - 1]

\* The end of pipe p that the parent keeps, the one that is the child's, and
\* the number the child moves it to.
Kept(p) == IF p \in {1, 4} THEN 2 ELSE 1
Given(p) == IF p \in {1, 4} THEN 1 ELSE 2
Target(p) == IF p < 4 THEN p - 1 ELSE p

Fd == 0..(MaxFd - 1)

\* The pipes were made one after the other, each at the lowest numbers.
Ascending(es) ==
    /\ es \in Seq(Fd \X Fd) /\ Len(es) <= 5
    /\ \A p \in 1..Len(es) : es[p][1] < es[p][2]
    /\ \A p, q \in 1..Len(es) : p < q => es[p][2] < es[q][1]

\* A table with every end of every pipe at its number, and nothing else of them.
Whole(t, es) ==
    /\ \A p \in 1..Len(es), k \in {1, 2} : es[p][k] \in DOMAIN t /\ t[es[p][k]] = EndOf(p, k)
    /\ \A f \in DOMAIN t : t[f] = Other \/ \E p \in 1..Len(es), k \in {1, 2} : f = es[p][k]

\* While nothing is closed, all numbers up to the last pipe are used.
Full(t, es) == \A p \in 1..Len(es) : 0..es[p][2] \subseteq DOMAIN t

\* The parent's table once it closed the ends that are the child's.
HalfParent(t, es) ==
    /\ \A p \in 1..5 : es[p][Kept(p)] \in DOMAIN t /\ t[es[p][Kept(p)]] = EndOf(p, Kept(p))
    /\ \A f \in DOMAIN t : t[f] = Other \/ \E p \in 1..5 : f = es[p][Kept(p)]

\* The child's table with m descriptors moved.  If 0, 1 and 2 were not all open
\* when the launcher started, the first pipe has one of them, which the child
\* has closed: it then fails at its first move.
HalfChild(t, es, m) ==
    /\ \A p \in 1..m : Target(p) \in DOMAIN t /\ t[Target(p)] = EndOf(p, Given(p))
    /\ \A p \in (m + 1)..5 :
          es[p][Given(p)] \in DOMAIN t => t[es[p][Given(p)]] = EndOf(p, Given(p))
    /\ \A f \in DOMAIN t : \/ t[f] = Other
                           \/ \E p \in 1..m : f = Target(p)
                           \/ \E p \in (m + 1)..5 : f = es[p][Given(p)]
    /\ es[1][1] \in DOMAIN t \/ m > 0 => es[1][1] >= 3

Shape == table = [parent |-> table.parent, child |-> table.child]

Parents ==
    /\ ppc \in {"pipes", "close"} => Whole(table.parent, ends)
    /\ ppc = "pipes" => Full(table.parent, ends)
    /\ cpc # "unborn" => Len(ends) = 5
    /\ cpc # "unborn" /\ ppc # "close" => HalfParent(table.parent, ends)

Childs ==
    /\ moved \in 0..5
    /\ cpc \in {"unborn", "close"} => moved = 0
    /\ cpc = "close" => Whole(table.child, ends)
    /\ cpc \in {"drop", "exec", "trapped", "runs", "asks"} => moved = 5
    /\ cpc \in {"move", "drop", "exec", "trapped", "runs", "asks"} =>
          HalfChild(table.child, ends, moved)

WInv == Shape /\ Ascending(ends) /\ Parents /\ Childs

-------------------------------------------------------------------------------
(* The kernel's choice. *)

LessThan == {ss \in Nat \X Nat : ss[1] < ss[2]}

\* A set of numbers that is not empty has a smallest one.
LEMMA SmallestExists ==
    ASSUME NEW S, S \subseteq Nat, S # {}
    PROVE  \E x \in S : \A y \in S : x <= y
<1>1. IsWellFoundedOn(LessThan, Nat)
  BY NatLessThanWellFounded DEF OpToRel, LessThan
<1>2. PICK x \in S : \A y \in S : ~ (<<y, x>> \in LessThan)
  BY <1>1, WFMin
<1>3. ASSUME NEW y \in S PROVE x <= y
  <2>1. x \in Nat /\ y \in Nat /\ <<y, x>> \in Nat \X Nat /\ <<y, x>> \notin LessThan
    BY <1>2
  <2> QED
    BY <2>1 DEF LessThan
<1> QED
  BY <1>3

\* The lowest unused number exists and every smaller one is used.
LEMMA LowestFacts ==
    ASSUME NEW t, Unused(t) # {}
    PROVE  /\ Lowest(t) \in 0..(MaxFd - 1) /\ Lowest(t) \notin DOMAIN t
           /\ 0..(Lowest(t) - 1) \subseteq DOMAIN t
<1>1. MaxFd \in Nat /\ Unused(t) \subseteq Nat
  BY LaunchAssumption DEF Unused
<1>3. \E x \in Unused(t) : \A y \in Unused(t) : x <= y
  BY <1>1, SmallestExists
<1>4. Lowest(t) \in Unused(t) /\ \A y \in Unused(t) : Lowest(t) <= y
  BY <1>3 DEF Lowest, Min
<1> QED
  BY <1>1, <1>4 DEF Unused

\* What opening a number does.
LEMMA OpenedFacts ==
    ASSUME NEW t, NEW fd, NEW what
    PROVE  /\ DOMAIN Opened(t, fd, what) = DOMAIN t \cup {fd}
           /\ Opened(t, fd, what)[fd] = what
           /\ \A f \in DOMAIN t : f # fd => Opened(t, fd, what)[f] = t[f]
  BY DEF Opened

\* Two lowest numbers, one after the other.
LEMMA PairFacts ==
    ASSUME NEW t, NEW x, ~ (Cardinality(Unused(t)) < 2),
           NEW r, r = Lowest(t), NEW w, w = Lowest(Opened(t, r, x))
    PROVE  /\ r \in 0..(MaxFd - 1) /\ w \in 0..(MaxFd - 1) /\ r < w
           /\ r \notin DOMAIN t /\ w \notin DOMAIN t
           /\ 0..(r - 1) \subseteq DOMAIN t
           /\ 0..w \subseteq DOMAIN t \cup {r, w}
<1>1. MaxFd \in Nat /\ IsFiniteSet(Unused(t))
  <2>1. MaxFd \in Nat /\ IsFiniteSet(0..(MaxFd - 1))
    BY LaunchAssumption, FS_Interval
  <2> QED
    BY <2>1, FS_Subset DEF Unused
<1>2. Unused(t) # {}
  BY FS_EmptySet
<1>3. r \in 0..(MaxFd - 1) /\ r \notin DOMAIN t /\ 0..(r - 1) \subseteq DOMAIN t
  BY <1>2, LowestFacts
<1>4. DOMAIN Opened(t, r, x) = DOMAIN t \cup {r}
  BY OpenedFacts
<1>5. Unused(Opened(t, r, x)) = Unused(t) \ {r}
  BY <1>4 DEF Unused
<1>6. Unused(Opened(t, r, x)) # {}
  <2>1. r \in Unused(t)
    BY <1>3 DEF Unused
  <2>2. Cardinality(Unused(t) \ {r}) = Cardinality(Unused(t)) - 1
    BY <1>1, <2>1, FS_RemoveElement
  <2>3. Cardinality(Unused(t)) \in Nat
    BY <1>1, FS_CardinalityType
  <2>4. Cardinality(Unused(t) \ {r}) # 0
    BY <2>2, <2>3
  <2> QED
    BY <1>5, <2>4, FS_EmptySet
<1>7. /\ w \in 0..(MaxFd - 1) /\ w \notin DOMAIN t \cup {r}
      /\ 0..(w - 1) \subseteq DOMAIN t \cup {r}
  BY <1>4, <1>6, LowestFacts
<1>8. r < w
  <2>1. ASSUME w < r PROVE FALSE
    <3>1. w \in 0..(r - 1)
      BY <1>1, <1>3, <1>7, <2>1
    <3> QED
      BY <1>3, <1>7, <3>1
  <2> QED
    BY <1>1, <1>3, <1>7, <2>1
<1>9. 0..w \subseteq DOMAIN t \cup {r, w}
  <2>1. \A y \in 0..w : y \in 0..(w - 1) \/ y = w
    BY <1>1, <1>7
  <2> QED
    BY <1>7, <2>1
<1> QED
  BY <1>3, <1>7, <1>8, <1>9

-------------------------------------------------------------------------------
(* What the steps do to a table. *)

\* One more pair at the end of ends.
LEMMA OneMore ==
    ASSUME NEW S, NEW es \in Seq(S), NEW x \in S
    PROVE  /\ Append(es, x) \in Seq(S) /\ Len(Append(es, x)) = Len(es) + 1
           /\ \A p \in 1..Len(es) : Append(es, x)[p] = es[p]
           /\ Append(es, x)[Len(es) + 1] = x
  OBVIOUS

\* A member of a sequence.
LEMMA PairOf ==
    ASSUME NEW S, NEW es \in Seq(S)
    PROVE  \A p \in 1..Len(es) : es[p] \in S
  OBVIOUS

\* What mk_pipe does to a table t and the pairs es.
Added(t, es, n, r, w, u, fs) ==
    /\ Ascending(es) /\ Len(es) < 5 /\ Whole(t, es) /\ Full(t, es)
    /\ ~ (Cardinality(Unused(t)) < 2)
    /\ n = Len(es) + 1 /\ r = Lowest(t)
    /\ w = Lowest(Opened(t, r, [pipe |-> Pipes[n], end |-> 0]))
    /\ u = Opened(Opened(t, r, [pipe |-> Pipes[n], end |-> 0]), w,
                  [pipe |-> Pipes[n], end |-> 1])
    /\ fs = Append(es, <<r, w>>)

\* It adds the two ends of a pipe and disturbs nothing.
LEMMA PipeAdded ==
    ASSUME NEW t, NEW es, NEW n, NEW r, NEW w, NEW u, NEW fs, Added(t, es, n, r, w, u, fs)
    PROVE  Ascending(fs) /\ Len(fs) = n /\ Whole(u, fs) /\ Full(u, fs)
<1>0. /\ Ascending(es) /\ Len(es) < 5 /\ Whole(t, es) /\ Full(t, es)
      /\ ~ (Cardinality(Unused(t)) < 2)
      /\ n = Len(es) + 1 /\ r = Lowest(t)
      /\ w = Lowest(Opened(t, r, [pipe |-> Pipes[n], end |-> 0]))
      /\ u = Opened(Opened(t, r, [pipe |-> Pipes[n], end |-> 0]), w,
                    [pipe |-> Pipes[n], end |-> 1])
      /\ fs = Append(es, <<r, w>>)
  BY DEF Added
<1>1. MaxFd \in Nat /\ es \in Seq(Fd \X Fd) /\ Len(es) \in Nat /\ n \in 1..5
      /\ n = Len(es) + 1
  BY <1>0, LaunchAssumption DEF Ascending
<1>2. /\ r \in Fd /\ w \in Fd /\ r < w
      /\ r \notin DOMAIN t /\ w \notin DOMAIN t
      /\ 0..(r - 1) \subseteq DOMAIN t
      /\ 0..w \subseteq DOMAIN t \cup {r, w}
  BY <1>0, PairFacts DEF Fd
<1>3. r \in Nat /\ w \in Nat /\ r # w
  BY <1>1, <1>2 DEF Fd
<1>4. /\ DOMAIN u = DOMAIN t \cup {r, w}
      /\ u[r] = [pipe |-> Pipes[n], end |-> 0] /\ u[w] = [pipe |-> Pipes[n], end |-> 1]
      /\ \A f \in DOMAIN t : u[f] = t[f]
  <2>1. PICK v : v = Opened(t, r, [pipe |-> Pipes[n], end |-> 0])
    OBVIOUS
  <2>2. /\ DOMAIN v = DOMAIN t \cup {r} /\ v[r] = [pipe |-> Pipes[n], end |-> 0]
        /\ \A f \in DOMAIN t : v[f] = t[f]
    BY <1>2, <2>1 DEF Opened
  <2>3. /\ DOMAIN u = DOMAIN v \cup {w} /\ u[w] = [pipe |-> Pipes[n], end |-> 1]
        /\ \A f \in DOMAIN v : f # w => u[f] = v[f]
    BY <1>0, <2>1 DEF Opened
  <2> QED
    BY <1>2, <1>3, <2>2, <2>3
<1>5. /\ fs \in Seq(Fd \X Fd) /\ Len(fs) = n
      /\ \A p \in 1..Len(es) : fs[p] = es[p]
      /\ fs[n] = <<r, w>>
  <2>1. <<r, w>> \in Fd \X Fd
    BY <1>2
  <2> QED
    BY <1>0, <1>1, <2>1, OneMore
<1>6. \A p \in 1..n : p \in 1..Len(es) \/ p = n
  BY <1>1
<1>7. \A p \in 1..Len(es) : /\ es[p] \in Fd \X Fd
                            /\ es[p][1] \in Nat /\ es[p][2] \in Nat
                            /\ es[p][1] < es[p][2]
  <2>1. \A p \in 1..Len(es) : es[p] \in Fd \X Fd
    BY <1>1, PairOf
  <2>2. \A f \in Fd : f \in Nat
    BY <1>1 DEF Fd
  <2> QED
    BY <1>0, <2>1, <2>2 DEF Ascending
<1>8. \A p \in 1..Len(es) : es[p][2] < r
  <2>1. SUFFICES ASSUME NEW p \in 1..Len(es), r <= es[p][2] PROVE FALSE
    BY <1>3, <1>7
  <2>2. r \in 0..es[p][2]
    BY <1>3, <1>7, <2>1
  <2> QED
    BY <1>0, <1>2, <2>2 DEF Full
<1>9. Ascending(fs)
  <2>1. \A p \in 1..n : fs[p][1] < fs[p][2]
    BY <1>2, <1>5, <1>6, <1>7
  <2>2. ASSUME NEW p \in 1..n, NEW q \in 1..n, p < q PROVE fs[p][2] < fs[q][1]
    <3>1. p \in 1..Len(es)
      BY <1>1, <2>2
    <3>2. CASE q = n
      BY <1>5, <1>8, <3>1, <3>2
    <3>3. CASE q \in 1..Len(es)
      BY <1>0, <1>5, <2>2, <3>1, <3>3 DEF Ascending
    <3> QED
      BY <1>6, <3>2, <3>3
  <2>3. Len(fs) <= 5
    BY <1>1, <1>5
  <2>4. \A p, q \in 1..n : p < q => fs[p][2] < fs[q][1]
    BY <2>2
  <2> QED
    BY <1>5, <2>1, <2>3, <2>4 DEF Ascending
<1>10. Whole(u, fs)
  <2>1. ASSUME NEW p \in 1..n, NEW k \in {1, 2}
        PROVE  fs[p][k] \in DOMAIN u /\ u[fs[p][k]] = EndOf(p, k)
    <3>1. CASE p = n
      <4>1. k = 1 \/ k = 2
        OBVIOUS
      <4>2. fs[p][1] = r /\ fs[p][2] = w
        BY <1>5, <3>1
      <4> QED
        BY <1>4, <3>1, <4>1, <4>2 DEF EndOf
    <3>2. CASE p \in 1..Len(es)
      <4>1. es[p][k] \in DOMAIN t /\ t[es[p][k]] = EndOf(p, k) /\ fs[p][k] = es[p][k]
        BY <1>0, <1>5, <3>2 DEF Whole
      <4> QED
        BY <1>4, <4>1
    <3> QED
      BY <1>6, <3>1, <3>2
  <2>2. ASSUME NEW f \in DOMAIN u
        PROVE  u[f] = Other \/ \E p \in 1..n, k \in {1, 2} : f = fs[p][k]
    <3>1. CASE f = r \/ f = w
      <4>1. fs[n][1] = r /\ fs[n][2] = w /\ n \in 1..n
        BY <1>1, <1>5
      <4> QED
        BY <3>1, <4>1
    <3>2. CASE f \in DOMAIN t
      <4>1. CASE t[f] = Other
        BY <1>4, <3>2, <4>1
      <4>2. CASE \E p \in 1..Len(es), k \in {1, 2} : f = es[p][k]
        <5>1. PICK p \in 1..Len(es), k \in {1, 2} : f = es[p][k]
          BY <4>2
        <5>2. p \in 1..n /\ f = fs[p][k]
          BY <1>1, <1>5, <5>1
        <5> QED
          BY <5>2
      <4> QED
        BY <1>0, <3>2, <4>1, <4>2 DEF Whole
    <3> QED
      BY <1>4, <3>1, <3>2
  <2> QED
    BY <1>5, <2>1, <2>2 DEF Whole
<1>11. Full(u, fs)
  <2>1. SUFFICES ASSUME NEW p \in 1..n PROVE 0..fs[p][2] \subseteq DOMAIN u
    BY <1>5 DEF Full
  <2>2. CASE p = n
    BY <1>2, <1>4, <1>5, <2>2
  <2>3. CASE p \in 1..Len(es)
    BY <1>0, <1>4, <1>5, <2>3 DEF Full
  <2> QED
    BY <1>6, <2>2, <2>3
<1> QED
  BY <1>5, <1>9, <1>10, <1>11

\* Numbers of different ends are different, and the pipes after the first are
\* above the numbers the child moves them to, as soon as the first is.
LEMMA EndsApart ==
    ASSUME NEW es, Ascending(es), Len(es) = 5
    PROVE  /\ \A p \in 1..5, k \in {1, 2} : es[p][k] \in Nat /\ es[p][k] \in Fd
           /\ \A p, q \in 1..5, k, l \in {1, 2} : es[p][k] = es[q][l] => p = q /\ k = l
           /\ es[1][1] >= 3 => \A p \in 2..5, k \in {1, 2} : es[p][k] >= 5
           /\ es[1][1] >= 3 => \A p \in 2..5 : es[p][Given(p)] > 5
           /\ es[5][2] >= 9
<1>1. \A p \in 1..5 : /\ es[p] \in Fd \X Fd
                      /\ es[p][1] \in Nat /\ es[p][2] \in Nat
                      /\ es[p][1] \in Fd /\ es[p][2] \in Fd
                      /\ es[p][1] < es[p][2]
  <2>1. \A p \in 1..5 : es[p] \in Fd \X Fd /\ es[p][1] < es[p][2]
    BY PairOf DEF Ascending
  <2>2. \A f \in Fd : f \in Nat
    BY LaunchAssumption DEF Fd
  <2> QED
    BY <2>1, <2>2
<1>2. \A p, q \in 1..5 : p < q => es[p][2] < es[q][1]
  BY DEF Ascending
<1>3. \A p \in 1..5, k \in {1, 2} : /\ es[p][k] \in Nat /\ es[p][k] \in Fd
                                    /\ es[p][1] <= es[p][k] /\ es[p][k] <= es[p][2]
  BY <1>1
<1>4. \A p, q \in 1..5, k, l \in {1, 2} : p < q => es[p][k] < es[q][l]
  <2>1. SUFFICES ASSUME NEW p \in 1..5, NEW q \in 1..5, NEW k \in {1, 2}, NEW l \in {1, 2}, p < q
                 PROVE  es[p][k] < es[q][l]
    OBVIOUS
  <2>2. es[p][k] <= es[p][2] /\ es[p][2] < es[q][1] /\ es[q][1] <= es[q][l]
    BY <1>2, <1>3, <2>1
  <2>3. es[p][k] \in Nat /\ es[p][2] \in Nat /\ es[q][1] \in Nat /\ es[q][l] \in Nat
    BY <1>1, <1>3
  <2> QED
    BY <2>2, <2>3
<1>5. \A p, q \in 1..5, k, l \in {1, 2} : es[p][k] = es[q][l] => p = q /\ k = l
  <2>1. SUFFICES ASSUME NEW p \in 1..5, NEW q \in 1..5, NEW k \in {1, 2}, NEW l \in {1, 2},
                        es[p][k] = es[q][l]
                 PROVE  p = q /\ k = l
    OBVIOUS
  <2>2. p = q
    <3>1. es[p][k] \in Nat /\ ~ (es[p][k] < es[q][l]) /\ ~ (es[q][l] < es[p][k])
      BY <1>3, <2>1
    <3>2. ~ (p < q) /\ ~ (q < p)
      BY <1>4, <3>1
    <3> QED
      BY <3>2
  <2>3. k = l
    BY <1>1, <2>1, <2>2
  <2> QED
    BY <2>2, <2>3
<1>6. /\ es[1][1] < es[1][2] /\ es[1][2] < es[2][1] /\ es[2][1] < es[2][2]
      /\ es[2][2] < es[3][1] /\ es[3][1] < es[3][2] /\ es[3][2] < es[4][1]
      /\ es[4][1] < es[4][2] /\ es[4][2] < es[5][1] /\ es[5][1] < es[5][2]
  BY <1>1, <1>2
<1>7. /\ es[1][1] \in Nat /\ es[1][2] \in Nat /\ es[2][1] \in Nat /\ es[2][2] \in Nat
      /\ es[3][1] \in Nat /\ es[3][2] \in Nat /\ es[4][1] \in Nat /\ es[4][2] \in Nat
      /\ es[5][1] \in Nat /\ es[5][2] \in Nat
  BY <1>1
<1>8. es[5][2] >= 9
  BY <1>6, <1>7
<1>9. ASSUME es[1][1] >= 3, NEW p \in 2..5 PROVE es[p][1] >= 5 /\ es[p][2] >= 6
  <2>1. es[1][2] >= 4
    BY <1>6, <1>7, <1>9
  <2>2. es[1][2] < es[p][1] /\ es[p][1] < es[p][2] /\ es[p][1] \in Nat /\ es[p][2] \in Nat
    BY <1>1, <1>2
  <2> QED
    BY <1>7, <2>1, <2>2
<1>10. es[1][1] >= 3 => es[4][1] > 5
  BY <1>6, <1>7
<1>11. ASSUME es[1][1] >= 3, NEW p \in 2..5 PROVE es[p][Given(p)] > 5
  <2>1. CASE p = 4
    BY <1>10, <1>11, <2>1 DEF Given
  <2>2. CASE p # 4
    <3>1. Given(p) = 2
      BY <2>2 DEF Given
    <3>2. es[p][2] \in Nat
      BY <1>1
    <3> QED
      BY <1>9, <1>11, <3>1, <3>2
  <2> QED
    BY <2>1, <2>2
<1>12. es[1][1] >= 3 => \A p \in 2..5, k \in {1, 2} : es[p][k] >= 5
  BY <1>1, <1>9
<1> QED
  BY <1>3, <1>5, <1>8, <1>11, <1>12

\* The ends of pipe p are the two of them.
LEMMA KeptOrGiven ==
    ASSUME NEW p \in 1..5
    PROVE  /\ Kept(p) \in {1, 2} /\ Given(p) \in {1, 2} /\ Kept(p) # Given(p)
           /\ \A k \in {1, 2} : k = Kept(p) \/ k = Given(p)
  BY DEF Kept, Given

\* What the parent closes leaves it one end of each pipe.
LEMMA ParentHalves ==
    ASSUME NEW t, NEW es, Ascending(es), Len(es) = 5, Whole(t, es),
           NEW fds, fds = {es[p][Given(p)] : p \in 1..5}
    PROVE  HalfParent(Closed(t, fds), es)
<1>1. PICK u : u = Closed(t, fds)
  OBVIOUS
<1>2. DOMAIN u = DOMAIN t \ fds /\ \A f \in DOMAIN t \ fds : u[f] = t[f]
  BY <1>1 DEF Closed
<1>3. ASSUME NEW p \in 1..5
      PROVE  es[p][Kept(p)] \in DOMAIN u /\ u[es[p][Kept(p)]] = EndOf(p, Kept(p))
  <2>1. es[p][Kept(p)] \in DOMAIN t /\ t[es[p][Kept(p)]] = EndOf(p, Kept(p))
    BY KeptOrGiven DEF Whole
  <2>2. es[p][Kept(p)] \notin fds
    <3>1. SUFFICES ASSUME NEW q \in 1..5, es[p][Kept(p)] = es[q][Given(q)] PROVE FALSE
      OBVIOUS
    <3>2. p = q /\ Kept(p) = Given(q)
      BY <3>1, EndsApart, KeptOrGiven
    <3> QED
      BY <3>2, KeptOrGiven
  <2> QED
    BY <1>2, <2>1, <2>2
<1>4. ASSUME NEW f \in DOMAIN u PROVE u[f] = Other \/ \E p \in 1..5 : f = es[p][Kept(p)]
  <2>1. f \in DOMAIN t /\ f \notin fds /\ u[f] = t[f]
    BY <1>2
  <2>2. CASE t[f] = Other
    BY <2>1, <2>2
  <2>3. CASE \E p \in 1..5, k \in {1, 2} : f = es[p][k]
    <3>1. PICK p \in 1..5, k \in {1, 2} : f = es[p][k]
      BY <2>3
    <3>2. k = Kept(p)
      BY <2>1, <3>1, KeptOrGiven
    <3> QED
      BY <3>1, <3>2
  <2> QED
    BY <2>1, <2>2, <2>3 DEF Whole
<1> QED
  BY <1>1, <1>3, <1>4 DEF HalfParent

\* What the child closes leaves it the other end, unless that was one of the
\* first three numbers.
LEMMA ChildHalves ==
    ASSUME NEW t, NEW es, Ascending(es), Len(es) = 5, Whole(t, es),
           NEW fds, fds = {0, 1, 2} \cup {es[p][Kept(p)] : p \in 1..5}
    PROVE  HalfChild(Closed(t, fds), es, 0)
<1>1. PICK u : u = Closed(t, fds)
  OBVIOUS
<1>2. DOMAIN u = DOMAIN t \ fds /\ \A f \in DOMAIN t \ fds : u[f] = t[f]
  BY <1>1 DEF Closed
<1>3. ASSUME NEW p \in 1..5, es[p][Given(p)] \in DOMAIN u
      PROVE  u[es[p][Given(p)]] = EndOf(p, Given(p))
  <2>1. t[es[p][Given(p)]] = EndOf(p, Given(p))
    BY KeptOrGiven DEF Whole
  <2> QED
    BY <1>2, <1>3, <2>1
<1>4. ASSUME NEW f \in DOMAIN u PROVE u[f] = Other \/ \E p \in 1..5 : f = es[p][Given(p)]
  <2>1. f \in DOMAIN t /\ f \notin fds /\ u[f] = t[f]
    BY <1>2
  <2>2. CASE t[f] = Other
    BY <2>1, <2>2
  <2>3. CASE \E p \in 1..5, k \in {1, 2} : f = es[p][k]
    <3>1. PICK p \in 1..5, k \in {1, 2} : f = es[p][k]
      BY <2>3
    <3>2. k = Given(p)
      BY <2>1, <3>1, KeptOrGiven
    <3> QED
      BY <3>1, <3>2
  <2> QED
    BY <2>1, <2>2, <2>3 DEF Whole
<1>5. es[1][1] \in DOMAIN u => es[1][1] >= 3
  <2>1. es[1][1] \in Nat
    BY EndsApart
  <2>2. es[1][1] \in DOMAIN u => es[1][1] \notin {0, 1, 2}
    BY <1>2
  <2> QED
    BY <2>1, <2>2
<1>6. \A p \in (0 + 1)..5 : p \in 1..5
  OBVIOUS
<1>7. \A p \in 1..5 : p \in (0 + 1)..5
  OBVIOUS
<1>8. \A p \in 1..0 : FALSE
  OBVIOUS
<1>9. HalfChild(u, es, 0)
  BY <1>3, <1>4, <1>5, <1>6, <1>7, <1>8 DEF HalfChild
<1> QED
  BY <1>1, <1>9

\* A move puts one more end at its number and disturbs none of the others.
LEMMA MoveAdvances ==
    ASSUME NEW t, NEW es, Ascending(es), Len(es) = 5, NEW m \in 0..4, HalfChild(t, es, m),
           NEW n, n = m + 1, NEW old, old = es[n][Given(n)], old \in DOMAIN t,
           NEW new, new = Target(n),
           NEW u, u = Closed(Opened(t, new, t[old]), {old})
    PROVE  HalfChild(u, es, n)
<1>0. /\ n \in 1..5 /\ old \in Nat /\ m \in Nat
      /\ \A p \in 1..n : p \in 1..5 /\ (p \in 1..m \/ p = n)
      /\ \A p \in (n + 1)..5 : p \in 2..5 /\ p \in (m + 1)..5 /\ p # n
      /\ \A p \in (m + 1)..5 : p = n \/ p \in (n + 1)..5
      /\ \A p \in 1..m : p # n /\ p \in 1..n
      /\ n \in (m + 1)..5 /\ n \in 1..n
  BY EndsApart, KeptOrGiven
<1>1. es[1][1] >= 3
  <2>1. m = 0 => n = 1 /\ Given(1) = 1
    BY DEF Given
  <2> QED
    BY <1>0, <2>1 DEF HalfChild
<1>2. \A p \in 1..5 : Target(p) \in 0..5 /\ Target(p) \in Nat
  BY DEF Target
<1>3. \A p, q \in 1..5 : Target(p) = Target(q) => p = q
  BY DEF Target
<1>4. \A p \in 2..5 : es[p][Given(p)] > 5 /\ es[p][Given(p)] \in Nat
  BY <1>1, EndsApart, KeptOrGiven
<1>5. \A p \in 1..n : Target(p) # old
  <2>1. CASE n = 1
    <3>1. old = es[1][1] /\ Target(1) = 0
      BY <2>1 DEF Given, Target
    <3>2. \A p \in 1..n : p = 1
      BY <2>1
    <3> QED
      BY <1>1, <3>1, <3>2
  <2>2. CASE n # 1
    <3>1. n \in 2..5
      BY <1>0, <2>2
    <3>2. old > 5
      BY <1>4, <3>1
    <3>3. ASSUME NEW p \in 1..n PROVE Target(p) # old
      <4>1. Target(p) \in 0..5
        BY <1>0, <1>2
      <4> QED
        BY <1>0, <3>2, <4>1
    <3> QED
      BY <3>3
  <2> QED
    BY <2>1, <2>2
<1>6. \A p \in (n + 1)..5 : es[p][Given(p)] # new /\ es[p][Given(p)] # old
  <2>1. SUFFICES ASSUME NEW p \in (n + 1)..5
                 PROVE  es[p][Given(p)] # new /\ es[p][Given(p)] # old
    OBVIOUS
  <2>2. p \in 2..5 /\ p \in 1..5 /\ p # n
    BY <1>0
  <2>3. es[p][Given(p)] > 5 /\ es[p][Given(p)] \in Nat /\ new \in 0..5
    BY <1>0, <1>2, <1>4, <2>2
  <2>4. es[p][Given(p)] # old
    BY <1>0, <2>2, EndsApart, KeptOrGiven
  <2> QED
    BY <2>3, <2>4
<1>7. new # old
  BY <1>0, <1>5
<1>8. /\ DOMAIN u = (DOMAIN t \cup {new}) \ {old}
      /\ u[new] = t[old]
      /\ \A f \in DOMAIN t : f # new /\ f # old => u[f] = t[f]
  <2>1. PICK v : v = Opened(t, new, t[old])
    OBVIOUS
  <2>2. /\ DOMAIN v = DOMAIN t \cup {new} /\ v[new] = t[old]
        /\ \A f \in DOMAIN t : f # new => v[f] = t[f]
    BY <2>1 DEF Opened
  <2>3. DOMAIN u = DOMAIN v \ {old} /\ \A f \in DOMAIN v \ {old} : u[f] = v[f]
    BY <2>1 DEF Closed
  <2> QED
    BY <1>7, <2>2, <2>3
<1>9. t[old] = EndOf(n, Given(n))
  BY <1>0 DEF HalfChild
<1>10. ASSUME NEW p \in 1..n
       PROVE  Target(p) \in DOMAIN u /\ u[Target(p)] = EndOf(p, Given(p))
  <2>1. CASE p = n
    BY <1>7, <1>8, <1>9, <2>1
  <2>2. CASE p \in 1..m
    <3>1. Target(p) \in DOMAIN t /\ t[Target(p)] = EndOf(p, Given(p))
      BY <2>2 DEF HalfChild
    <3>2. Target(p) # new
      BY <1>0, <1>3, <2>2
    <3> QED
      BY <1>5, <1>8, <3>1, <3>2
  <2> QED
    BY <1>0, <2>1, <2>2
<1>11. ASSUME NEW p \in (n + 1)..5, es[p][Given(p)] \in DOMAIN u
       PROVE  u[es[p][Given(p)]] = EndOf(p, Given(p))
  <2>1. es[p][Given(p)] \in DOMAIN t
    BY <1>6, <1>8, <1>11
  <2>2. t[es[p][Given(p)]] = EndOf(p, Given(p))
    BY <1>0, <2>1 DEF HalfChild
  <2> QED
    BY <1>6, <1>8, <2>1, <2>2
<1>12. ASSUME NEW f \in DOMAIN u
       PROVE  \/ u[f] = Other
              \/ \E p \in 1..n : f = Target(p)
              \/ \E p \in (n + 1)..5 : f = es[p][Given(p)]
  <2>1. CASE f = new
    BY <1>0, <2>1
  <2>2. CASE f # new
    <3>1. f \in DOMAIN t /\ f # old /\ u[f] = t[f]
      BY <1>8, <2>2
    <3>2. \/ t[f] = Other
          \/ \E p \in 1..m : f = Target(p)
          \/ \E p \in (m + 1)..5 : f = es[p][Given(p)]
      BY <3>1 DEF HalfChild
    <3>3. ASSUME NEW p \in (m + 1)..5, f = es[p][Given(p)] PROVE p \in (n + 1)..5
      BY <1>0, <3>1, <3>3
    <3> QED
      BY <1>0, <3>1, <3>2, <3>3
  <2> QED
    BY <2>1, <2>2
<1> QED
  BY <1>1, <1>10, <1>11, <1>12 DEF HalfChild

-------------------------------------------------------------------------------
(* The steps. *)

\* What launch closes and moves, by pipe.
LEMMA Closes ==
    /\ ParentCloses = {ends[p][Given(p)] : p \in 1..5}
    /\ ChildCloses = {0, 1, 2} \cup {ends[p][Kept(p)] : p \in 1..5}
    /\ Len(Moves) = 5
    /\ \A p \in 1..5 : Moves[p][1] = ends[p][Given(p)] /\ Moves[p][2] = Target(p)
<1> USE DEF tracked_in, tracked_out, tracked_err, tracked_cmd_in, tracked_cmd_out
<1>1. /\ Given(1) = 1 /\ Given(2) = 2 /\ Given(3) = 2 /\ Given(4) = 1 /\ Given(5) = 2
      /\ Kept(1) = 2 /\ Kept(2) = 1 /\ Kept(3) = 1 /\ Kept(4) = 2 /\ Kept(5) = 1
      /\ Target(1) = 0 /\ Target(2) = 1 /\ Target(3) = 2 /\ Target(4) = 4 /\ Target(5) = 5
  BY DEF Given, Kept, Target
<1>2. 1..5 = {1, 2, 3, 4, 5}
  OBVIOUS
<1>3. ParentCloses = {ends[p][Given(p)] : p \in 1..5}
  BY <1>1, <1>2 DEF ParentCloses
<1>4. ChildCloses = {0, 1, 2} \cup {ends[p][Kept(p)] : p \in 1..5}
  BY <1>1, <1>2 DEF ChildCloses
<1>5. Len(Moves) = 5
  BY DEF Moves
<1>6. /\ Moves[1] = <<ends[1][1], 0>> /\ Moves[2] = <<ends[2][2], 1>>
      /\ Moves[3] = <<ends[3][2], 2>> /\ Moves[4] = <<ends[4][1], 4>>
      /\ Moves[5] = <<ends[5][2], 5>>
  BY DEF Moves
<1>7. \A p \in 1..5 : Moves[p][1] = ends[p][Given(p)] /\ Moves[p][2] = Target(p)
  BY <1>1, <1>2, <1>6
<1> QED
  BY <1>3, <1>4, <1>5, <1>7

\* A table is a record of two, whichever of them a step changes.
LEMMA Tables ==
    ASSUME Shape
    PROVE  /\ \A t : LET n == [table EXCEPT !.parent = t]
                     IN  n.parent = t /\ n.child = table.child
                         /\ n = [parent |-> n.parent, child |-> n.child]
           /\ \A t : LET n == [table EXCEPT !.child = t]
                     IN  n.child = t /\ n.parent = table.parent
                         /\ n = [parent |-> n.parent, child |-> n.child]
  BY DEF Shape

\* What launch inherits has no end of a pipe.
LEMMA WiredInit == Init => WInv
<1> SUFFICES ASSUME Init PROVE WInv
  OBVIOUS
<1>1. PICK open \in SUBSET Inherited : table = [parent |-> [fd \in open |-> Other], child |-> <<>>]
  BY DEF Init
<1>2. Shape
  BY <1>1 DEF Shape
<1>3. ends = <<>> /\ Len(ends) = 0 /\ ends \in Seq(Fd \X Fd)
  BY DEF Init
<1>4. Ascending(ends)
  BY <1>3 DEF Ascending
<1>5. Whole(table.parent, ends) /\ Full(table.parent, ends)
  BY <1>1, <1>3 DEF Whole, Full
<1> QED
  BY <1>2, <1>4, <1>5 DEF Init, WInv, Parents, Childs

\* mk_pipe.
LEMMA PipeKeepsWInv == WInv /\ Places /\ mk_pipe => WInv'
<1> SUFFICES ASSUME WInv, Places, mk_pipe PROVE WInv'
  OBVIOUS
<1>1. /\ ppc = "pipes" /\ cpc = "unborn" /\ Len(ends) < 5 /\ Len(Pipes) = 5
      /\ UNCHANGED <<cpc, moved>> /\ Len(ends) \in Nat
      /\ Ascending(ends) /\ Whole(table.parent, ends) /\ Full(table.parent, ends)
  BY DEF WInv, Parents, mk_pipe, Pipes, Places, Ascending
<1>2. CASE Cardinality(Unused(table.parent)) < 2
  <2>1. ppc' = "ended" /\ UNCHANGED <<ends, table, moved, cpc>>
    BY <1>2 DEF mk_pipe
  <2> QED
    BY <1>1, <2>1 DEF WInv, Shape, Parents, Childs
<1>3. CASE ~ (Cardinality(Unused(table.parent)) < 2)
  <2>1. PICK n, r, w, u :
          /\ n = Len(ends) + 1 /\ r = Lowest(table.parent)
          /\ w = Lowest(Opened(table.parent, r, [pipe |-> Pipes[n], end |-> 0]))
          /\ u = Opened(Opened(table.parent, r, [pipe |-> Pipes[n], end |-> 0]), w,
                        [pipe |-> Pipes[n], end |-> 1])
    OBVIOUS
  <2>2. /\ ends' = Append(ends, <<r, w>>) /\ table' = [table EXCEPT !.parent = u]
        /\ UNCHANGED ppc
    BY <1>3, <2>1 DEF mk_pipe
  <2>3. Shape' /\ table'.parent = u
    BY <2>2, Tables DEF WInv, Shape
  <2>4. /\ Ascending(ends') /\ Len(ends') = n
        /\ Whole(u, ends') /\ Full(u, ends')
    <3>1. PICK t, es, fs : t = table.parent /\ es = ends /\ fs = Append(ends, <<r, w>>)
      OBVIOUS
    <3>2. Added(t, es, n, r, w, u, fs)
      BY <1>1, <1>3, <2>1, <3>1 DEF Added
    <3>3. Ascending(fs) /\ Len(fs) = n /\ Whole(u, fs) /\ Full(u, fs)
      BY <3>2, PipeAdded
    <3> QED
      BY <2>2, <3>1, <3>3
  <2>5. Parents' /\ Childs'
    BY <1>1, <2>2, <2>3, <2>4 DEF WInv, Parents, Childs
  <2> QED
    BY <2>3, <2>4, <2>5 DEF WInv
<1> QED
  BY <1>2, <1>3

\* The child starts with a copy of the parent's table (fork).
LEMMA ForkKeepsWInv == WInv /\ Places /\ Fork => WInv'
<1> SUFFICES ASSUME WInv, Places, Fork PROVE WInv'
  OBVIOUS
<1>1. /\ ppc = "pipes" /\ cpc = "unborn" /\ Len(ends) = 5
      /\ UNCHANGED <<moved, ends>> /\ moved = 0
      /\ Whole(table.parent, ends)
  BY DEF WInv, Parents, Childs, Fork, Pipes, Places
<1>2. CASE ppc' = "close"
  <2>1. cpc' = "close" /\ table' = [table EXCEPT !.child = table.parent]
    BY <1>2 DEF Fork
  <2>2. Shape' /\ table'.child = table.parent /\ table'.parent = table.parent
    BY <2>1, Tables DEF WInv, Shape
  <2> QED
    BY <1>1, <1>2, <2>1, <2>2 DEF WInv, Parents, Childs
<1>3. CASE ppc' # "close"
  <2>1. ppc' = "ended" /\ UNCHANGED <<cpc, table>>
    BY <1>3 DEF Fork
  <2> QED
    BY <1>1, <2>1 DEF WInv, Shape, Parents, Childs
<1> QED
  BY <1>2, <1>3

\* close_fd in the parent.
LEMMA ParentCloseKeepsWInv == WInv /\ Places /\ ParentClose => WInv'
<1> SUFFICES ASSUME WInv, Places, ParentClose PROVE WInv'
  OBVIOUS
<1>1. /\ ppc = "close" /\ ppc' = "wait" /\ UNCHANGED <<cpc, moved, ends>>
      /\ table' = [table EXCEPT !.parent = Closed(table.parent, ParentCloses)]
      /\ Ascending(ends) /\ Whole(table.parent, ends)
  BY DEF ParentClose, WInv, Parents
<1>2. /\ Shape' /\ table'.parent = Closed(table.parent, ParentCloses)
      /\ table'.child = table.child
  BY <1>1, Tables DEF WInv, Shape
<1>3. ASSUME cpc # "unborn" PROVE HalfParent(table'.parent, ends)
  <2>1. Len(ends) = 5
    BY <1>3 DEF WInv, Parents
  <2> QED
    BY <1>1, <1>2, <2>1, Closes, ParentHalves
<1> QED
  BY <1>1, <1>2, <1>3 DEF WInv, Parents, Childs

\* The child's end leaves the parent's table alone.
LEMMA EndKeepsWInv ==
    ASSUME WInv, cpc # "unborn", cpc' = "dead", UNCHANGED <<ppc, moved, ends>>,
           table' = [table EXCEPT !.child = <<>>]
    PROVE  WInv'
<1>1. Shape' /\ table'.parent = table.parent
  BY Tables DEF WInv, Shape
<1> QED
  BY <1>1 DEF WInv, Parents, Childs

\* close_fd in the child.
LEMMA ChildCloseKeepsWInv == WInv /\ ChildClose => WInv'
<1> SUFFICES ASSUME WInv, ChildClose PROVE WInv'
  OBVIOUS
<1>1. cpc = "close" /\ UNCHANGED <<ppc, moved, ends>>
  BY DEF ChildClose
<1>2. CASE ~ (ChildCloses \subseteq DOMAIN table.child)
  BY <1>1, <1>2, EndKeepsWInv DEF ChildClose, ChildEnds
<1>3. CASE ChildCloses \subseteq DOMAIN table.child
  <2>1. /\ cpc' = "move"
        /\ table' = [table EXCEPT !.child = Closed(table.child, ChildCloses)]
    BY <1>3 DEF ChildClose
  <2>2. /\ Shape' /\ table'.child = Closed(table.child, ChildCloses)
        /\ table'.parent = table.parent
    BY <2>1, Tables DEF WInv, Shape
  <2>3. moved = 0 /\ Whole(table.child, ends) /\ Ascending(ends) /\ Len(ends) = 5
    BY <1>1 DEF WInv, Childs, Parents
  <2>4. HalfChild(table'.child, ends, moved)
    BY <2>2, <2>3, Closes, ChildHalves
  <2> QED
    BY <1>1, <2>1, <2>2, <2>3, <2>4 DEF WInv, Parents, Childs
<1> QED
  BY <1>2, <1>3

\* mv_fd: the descriptor is there and moves on, or the child exits.
LEMMA ChildMoveKeepsWInv == WInv /\ ChildMove => WInv'
<1> SUFFICES ASSUME WInv, ChildMove PROVE WInv'
  OBVIOUS
<1>1. /\ cpc = "move" /\ UNCHANGED <<ppc, ends>> /\ moved \in 0..4
      /\ Ascending(ends) /\ Len(ends) = 5 /\ HalfChild(table.child, ends, moved)
  BY Closes DEF ChildMove, WInv, Parents, Childs
<1>2. PICK n, old, new : n = moved + 1 /\ old = ends[n][Given(n)] /\ new = Target(n)
  OBVIOUS
<1>3. Moves[moved + 1][1] = old /\ Moves[moved + 1][2] = new /\ n \in 1..5
  BY <1>1, <1>2, Closes
<1>4. CASE old \notin DOMAIN table.child
  BY <1>1, <1>3, <1>4, EndKeepsWInv DEF ChildMove, ChildEnds
<1>5. CASE old \in DOMAIN table.child
  <2>1. PICK u : u = Closed(Opened(table.child, new, table.child[old]), {old})
    OBVIOUS
  <2>2. /\ moved' = n /\ cpc' \in {"move", "drop", "exec"} /\ (cpc' # "move" => ~ (n < 5))
        /\ table' = [table EXCEPT !.child = u]
    BY <1>2, <1>3, <1>5, <2>1, Closes DEF ChildMove
  <2>3. Shape' /\ table'.child = u /\ table'.parent = table.parent
    BY <2>2, Tables DEF WInv, Shape
  <2>4. HalfChild(u, ends, n)
    BY <1>1, <1>2, <1>5, <2>1, MoveAdvances
  <2>5. Childs'
    BY <1>1, <1>3, <2>2, <2>3, <2>4 DEF Childs
  <2>6. Parents'
    BY <1>1, <2>2, <2>3 DEF WInv, Parents
  <2> QED
    BY <1>1, <2>3, <2>5, <2>6 DEF WInv
<1> QED
  BY <1>4, <1>5

\* The rest leaves the tables alone, or ends the child.
LEMMA RestKeepsWInv ==
    ASSUME WInv, Places, spc_drop_privileges \/ Exec \/ FnAsks \/ FnEnds \/ FirstWait \/ Answer
                         \/ EndOfCommands \/ LoopWait \/ UNCHANGED vars
    PROVE  WInv'
<1>1. CASE spc_drop_privileges
  <2>1. cpc = "drop" /\ UNCHANGED <<ppc, moved, ends>>
    BY <1>1 DEF spc_drop_privileges
  <2>2. \/ cpc' = "exec" /\ UNCHANGED table
        \/ cpc' = "dead" /\ table' = [table EXCEPT !.child = <<>>]
    BY <1>1 DEF spc_drop_privileges, ChildEnds
  <2> QED
    BY <2>1, <2>2, EndKeepsWInv DEF WInv, Shape, Parents, Childs
<1>2. CASE Exec
  <2>1. cpc = "exec" /\ UNCHANGED <<ppc, moved, ends>>
    BY <1>2 DEF Exec
  <2>2. \/ cpc' = "trapped" /\ UNCHANGED table
        \/ cpc' = "dead" /\ table' = [table EXCEPT !.child = <<>>]
    BY <1>2 DEF Exec, ChildEnds
  <2> QED
    BY <2>1, <2>2, EndKeepsWInv DEF WInv, Shape, Parents, Childs
<1>3. CASE FnAsks
  BY <1>3 DEF FnAsks, WInv, Shape, Parents, Childs
<1>4. CASE FnEnds
  BY <1>4, EndKeepsWInv DEF FnEnds, ChildEnds
<1>5. CASE FirstWait
  BY <1>5 DEF FirstWait, Places, WInv, Shape, Parents, Childs
<1>6. CASE Answer \/ EndOfCommands \/ LoopWait
  BY <1>6 DEF Answer, EndOfCommands, LoopWait, WInv, Shape, Parents, Childs
<1>7. CASE UNCHANGED vars
  BY <1>7 DEF vars, WInv, Shape, Parents, Childs
<1> QED
  BY <1>1, <1>2, <1>3, <1>4, <1>5, <1>6, <1>7

\* Every step keeps it; what a table holds depends on who has closed what.
LEMMA WiredNext == WInv /\ Places /\ [Next]_vars => WInv'
  BY PipeKeepsWInv, ForkKeepsWInv, ParentCloseKeepsWInv, ChildCloseKeepsWInv,
     ChildMoveKeepsWInv, RestKeepsWInv DEF Next, Child, Parent

\* The invariant, with the places it rests on.
LEMMA AlwaysWInv == Spec => [](WInv /\ Places)
<1>1. Init => IInv
  BY DEF Init, IInv, Untouched, Dropped, Places
<1>2. IInv => Places
  BY DEF IInv
<1> QED
  BY <1>1, <1>2, Step, WiredInit, WiredNext, PTL DEF Spec

-------------------------------------------------------------------------------
\* The five pipes have five names.
LEMMA Names ==
    /\ Pipes[1] = "in" /\ Pipes[2] = "out" /\ Pipes[3] = "err" /\ Pipes[4] = "cmd_in"
    /\ Pipes[5] = "cmd_out"
    /\ Pipe = {"in", "out", "err", "cmd_in", "cmd_out"}
    /\ \A p, q \in 1..5 : Pipes[p] = Pipes[q] => p = q
<1>1. /\ Pipes[1] = "in" /\ Pipes[2] = "out" /\ Pipes[3] = "err" /\ Pipes[4] = "cmd_in"
      /\ Pipes[5] = "cmd_out" /\ DOMAIN Pipes = 1..5
  BY DEF Pipes
<1>2. 1..5 = {1, 2, 3, 4, 5}
  OBVIOUS
<1>3. Pipe = {Pipes[p] : p \in {1, 2, 3, 4, 5}}
  BY <1>1, <1>2 DEF Pipe, Range
<1> QED
  BY <1>1, <1>2, <1>3

\* A function that was started has moved all five descriptors.
LEMMA AllMoved ==
    ASSUME WInv, Started
    PROVE  /\ Ascending(ends) /\ Len(ends) = 5
           /\ \A p \in 1..5 : /\ Target(p) \in DOMAIN table.child
                              /\ table.child[Target(p)] = EndOf(p, Given(p))
           /\ \A f \in DOMAIN table.child :
                 table.child[f] = Other \/ \E p \in 1..5 : f = Target(p)
<1>1. moved = 5 /\ HalfChild(table.child, ends, 5) /\ Ascending(ends) /\ Len(ends) = 5
  BY DEF WInv, Childs, Parents, Started
<1>2. \A p \in (5 + 1)..5 : FALSE
  OBVIOUS
<1> QED
  BY <1>1, <1>2 DEF HalfChild

\* Whatever descriptors launch was started with, the function that it starts
\* finds its five pipes where open_pipes looks for them, and no other end.
THEOREM FunctionWired == Spec => []Wired
<1>1. WInv => Wired
  <2> SUFFICES ASSUME WInv, Started
               PROVE  Wired
    BY DEF Wired
  <2>1. /\ table.child[0] = EndOf(1, 1) /\ table.child[1] = EndOf(2, 2)
        /\ table.child[2] = EndOf(3, 2) /\ table.child[4] = EndOf(4, 1)
        /\ table.child[5] = EndOf(5, 2)
        /\ {0, 1, 2, 4, 5} \subseteq DOMAIN table.child
    <3>1. /\ Target(1) = 0 /\ Target(2) = 1 /\ Target(3) = 2 /\ Target(4) = 4 /\ Target(5) = 5
          /\ Given(1) = 1 /\ Given(2) = 2 /\ Given(3) = 2 /\ Given(4) = 1 /\ Given(5) = 2
      BY DEF Target, Given
    <3>2. 1 \in 1..5 /\ 2 \in 1..5 /\ 3 \in 1..5 /\ 4 \in 1..5 /\ 5 \in 1..5
      OBVIOUS
    <3> QED
      BY <3>1, <3>2, AllMoved
  <2>2. /\ EndOf(1, 1) = [pipe |-> "in", end |-> 0] /\ EndOf(2, 2) = [pipe |-> "out", end |-> 1]
        /\ EndOf(3, 2) = [pipe |-> "err", end |-> 1]
        /\ EndOf(4, 1) = [pipe |-> "cmd_in", end |-> 0]
        /\ EndOf(5, 2) = [pipe |-> "cmd_out", end |-> 1]
    BY Names DEF EndOf
  <2>3. \A f \in DOMAIN table.child : table.child[f] # Other => f \in {0, 1, 2, 4, 5}
    BY AllMoved DEF Target
  <2>4. \A f \in {0, 1, 2, 4, 5} : table.child[f] # Other
    BY <2>1, <2>2 DEF Other
  <2>5. \A f \in {0, 1, 2, 4, 5} :
           <<f, table.child[f].pipe, table.child[f].end>> \in
              {<<0, "in", 0>>, <<1, "out", 1>>, <<2, "err", 1>>, <<4, "cmd_in", 0>>,
               <<5, "cmd_out", 1>>}
    BY <2>1, <2>2
  <2> QED
    BY <2>1, <2>3, <2>4, <2>5 DEF Wired
<1> QED
  BY <1>1, AlwaysWInv, PTL

\* Whatever descriptors launch was started with, once both sides are done each
\* end of each pipe is open once.
THEOREM EndsHeldOnce == Spec => []HeldOnce
<1>1. WInv => HeldOnce
  <2> SUFFICES ASSUME WInv, Started, ppc \notin {"pipes", "close"}, NEW e \in End
               PROVE  Cardinality(Holders(e)) = 1
    BY DEF HeldOnce
  <2>1. HalfParent(table.parent, ends) /\ Ascending(ends) /\ Len(ends) = 5
    BY AllMoved DEF WInv, Parents, Started
  <2>2. PICK p \in 1..5, k \in {1, 2} : e = EndOf(p, k)
    <3>1. e.pipe \in Pipe /\ e.end \in {0, 1} /\ e = [pipe |-> e.pipe, end |-> e.end]
      BY DEF End
    <3>2. PICK p \in 1..5 : Pipes[p] = e.pipe
      BY <3>1, Names
    <3>3. e = EndOf(p, e.end + 1) /\ e.end + 1 \in {1, 2}
      BY <3>1, <3>2 DEF EndOf
    <3> QED
      BY <3>3
  <2>3. \A q \in 1..5, l \in {1, 2} : EndOf(q, l) = e => q = p /\ l = k
    BY <2>2, Names DEF EndOf
  <2>4. e # Other
    <3>1. Pipes[p] # "none"
      BY Names
    <3> QED
      BY <2>2, <3>1 DEF EndOf, Other
  <2>5. \A f \in DOMAIN table.parent : table.parent[f] = e <=> f = ends[p][Kept(p)] /\ k = Kept(p)
    BY <2>1, <2>2, <2>3, <2>4, KeptOrGiven DEF HalfParent
  <2>6. \A f \in DOMAIN table.child : table.child[f] = e <=> f = Target(p) /\ k = Given(p)
    BY <2>2, <2>3, <2>4, KeptOrGiven, AllMoved
  <2>7. ends[p][Kept(p)] \in DOMAIN table.parent /\ Target(p) \in DOMAIN table.child
    BY <2>1, AllMoved DEF HalfParent
  <2>8. ends[p][Kept(p)] \in 0..(MaxFd - 1) /\ Target(p) \in 0..(MaxFd - 1)
    <3>1. ends[p][Kept(p)] \in Fd /\ ends[5][2] \in Fd /\ ends[5][2] >= 9
      BY <2>1, EndsApart, KeptOrGiven
    <3>2. Target(p) \in 0..5
      BY DEF Target
    <3> QED
      BY <3>1, <3>2, LaunchAssumption DEF Fd
  <2>9. \E h : Holders(e) = {h}
    <3>1. CASE k = Kept(p)
      <4>1. Holders(e) = {<<"parent", ends[p][Kept(p)]>>}
        BY <2>5, <2>6, <2>7, <2>8, <3>1, KeptOrGiven DEF Holders
      <4> QED
        BY <4>1
    <3>2. CASE k = Given(p)
      <4>1. Holders(e) = {<<"child", Target(p)>>}
        BY <2>5, <2>6, <2>7, <2>8, <3>2, KeptOrGiven DEF Holders
      <4> QED
        BY <4>1
    <3> QED
      BY <3>1, <3>2, KeptOrGiven
  <2> QED
    BY <2>9, FS_Singleton
<1> QED
  BY <1>1, AlwaysWInv, PTL
===============================================================================
