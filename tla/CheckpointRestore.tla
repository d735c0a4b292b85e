--------------------------- MODULE CheckpointRestore ---------------------------
(***************************************************************************)
(* checkpoint_process_sd and restore_process_sd (proc_cr.c): the memory    *)
(* snapshot of a process and the way it is put back.                       *)
(*                                                                         *)
(* The process is stopped while the manager works, so the manager's steps  *)
(* do not interleave with the function's; but the function may do anything *)
(* to its own memory between a checkpoint and a restore, and the manager   *)
(* sees only what /proc tells: the maps, the frames and the soft-dirty     *)
(* bits.  The restore is one action per stage of restore_process_sd.       *)
(***************************************************************************)
EXTENDS AddressSpace

CONSTANTS
    InitialSpaces,   \* the address spaces a checkpoint may find
    FunctionOps,     \* what the function may do: a subset of OpNames
    MmapProts,       \* the protections the function passes to mmap
    MprotectProts,   \* the protections the function passes to mprotect
    MapArea,         \* the pages where the function maps and unmaps
    HeapMax,         \* the heap may grow up to this page, exclusive
    StackMin,        \* the stack may grow down to this page
    MaxOps,          \* bound: operations of the function per request
    MaxRestores      \* bound: restores

OpNames == {"store", "load", "discard", "mmap", "munmap", "mprotect", "brk",
            "stack", "split_heap", "remap_file", "load_freed"}

ASSUME RestoreAssumption ==
    /\ InitialSpaces \subseteq Space
    /\ FunctionOps \subseteq OpNames
    /\ MmapProts \subseteq Prot /\ MprotectProts \subseteq Prot
    /\ MapArea \subseteq Page
    /\ HeapMax \in Page /\ StackMin \in Page
    /\ MaxOps \in Nat /\ MaxRestores \in Nat

VARIABLES
    space,      \* the address space of the process
    snapshot,   \* p_checkpointed_state: maps, pages and wmem
    curr,       \* p_curr_state->maps, as captured last
    p_diff,     \* the result of diff_process_states
    madvises,   \* madvises_array: the pages to discard
    pc,         \* the stage of checkpoint or restore
    ops,        \* operations of the function since the last restore
    restores,   \* completed restores
    saved       \* the space at the checkpoint (a history variable)

manager == <<snapshot, curr, p_diff, madvises>>
vars == <<space, manager, pc, ops, restores, saved>>

NoDiff == [added |-> {}, removed |-> {}, modified |-> {}, modified_protection |-> {}]
NoSnapshot == [maps |-> {}, paged |-> {}, wmem |-> <<>>]

Stages == {"start", "running", "diffed", "unmapped", "remapped", "protected",
           "heap_done", "stack_done", "recaptured", "written", "discarded", "aborted"}

-------------------------------------------------------------------------------
(* The snapshot. *)

\* capture_process_state, without and with the page information.
capture_maps(s)  == MapsWith(s, {}, {})
capture_pages(s) == MapsWith(s, s.sd \cup s.fresh, {p \in Page : IsFreed(s, p)})

\* clear_soft_dirty_bits also zeroes the counters of the snapshot's maps.
clear_counters(M) == {[m EXCEPT !.soft_dirty_count = 0, !.freed_count = 0] : m \in M}

\* The n-th element, by increasing address, of a set of pages.
Nth(P, n) == CHOOSE p \in P : Cardinality({q \in P : q <= p}) = n

\* populate_memory_copy_info: the frames of the process, map by map and page by
\* page, one after the other.  The maps are sorted, hence so are the frames.
populate_memory_copy_info(s) ==
    [n \in 1..Cardinality(s.paged) |-> s.val[Nth(s.paged, n)]]

\* first_wmem_index of a map: the frames of the maps before it.
first_wmem_index(m) == Cardinality({p \in snapshot.paged : p < m.addr_start})

\* paged_index: the frames of the map met so far, when page p is looked at.
paged_index(m, p) ==
    Cardinality({q \in snapshot.paged : m.addr_start <= q /\ q <= p})

\* Where the content of page p of the checkpointed map m lies in wmem.
WmemAt(m, p) == snapshot.wmem[first_wmem_index(m) + paged_index(m, p)]

diff_process_states(I, F) ==
    [added |-> MissingFrom(F, I), removed |-> MissingFrom(I, F),
     modified |-> ModifiedMaps(I, F), modified_protection |-> ReprotectedMaps(I, F)]

\* [heap] and [stack] are left to restore_brk and zero_stack.
Special(m) == m.tag \in {"[heap]", "[stack]"}

Span(M) == UNION {PagesOf(m) : m \in M}

\* The protection that the map of M around a page has.
ProtIn(M) == [p \in Page |-> LET m == CHOOSE n \in M : p \in PagesOf(n) IN m.prot]

-------------------------------------------------------------------------------
Init ==
    /\ space \in InitialSpaces
    /\ saved = space
    /\ snapshot = NoSnapshot
    /\ curr = {} /\ p_diff = NoDiff /\ madvises = {}
    /\ pc = "start" /\ ops = 0 /\ restores = 0

\* checkpoint_process_sd: clear the soft-dirty bits, capture, copy the frames,
\* clear again.  The first clearing finds no snapshot; the second one zeroes
\* the counters that the capture has just filled.
Checkpoint ==
    /\ pc = "start"
    /\ space' = ClearSoftDirty(space)
    /\ snapshot' = [maps |-> clear_counters(capture_pages(ClearSoftDirty(space))),
                    paged |-> space.paged, wmem |-> populate_memory_copy_info(space)]
    /\ saved' = space
    /\ pc' = "running"
    /\ UNCHANGED <<curr, p_diff, madvises, ops, restores>>

-------------------------------------------------------------------------------
(* What the function may do between two restores. *)

Function(op) ==
    /\ pc = "running" /\ op \in FunctionOps /\ ops < MaxOps
    /\ ops' = ops + 1
    /\ UNCHANGED <<manager, pc, restores, saved>>

Intervals(P) == {i \in SUBSET P : i # {} /\ \A a, b \in i : a..b \subseteq i}

\* A file mapping is replaced, or split, only by the functions that may do so.
FilePages == {p \in Page : space.vma[p].tag = "file"}
MayReplace(P) == P \cap FilePages # {} => "remap_file" \in FunctionOps
MaySplit(P) ==
    \/ "remap_file" \in FunctionOps
    \/ \A p \in P \cap FilePages : AreaOf(space, p) \subseteq P

FnStore == \E p \in Mapped(space) :
    /\ Function("store")
    /\ "w" \in space.vma[p].prot
    /\ space' = Store(space, {p}, [q \in Page |-> NewVal])

\* A page whose checkpointed frame was discarded is only read again by the
\* functions that may do so.
FnLoad == \E p \in Mapped(space) :
    /\ Function("load")
    /\ "r" \in space.vma[p].prot
    /\ IsFreed(space, p) /\ p \in snapshot.paged => "load_freed" \in FunctionOps
    /\ space' = Load(space, p)

FnDiscard == \E p \in Mapped(space) :
    /\ Function("discard")
    /\ space' = DontNeed(space, {p})

FnMmap == \E P \in Intervals(MapArea), prot \in MmapProts :
    /\ Function("mmap")
    /\ MayReplace(P)
    /\ space' \in Mmap(space, P, [p \in Page |-> [prot |-> prot, tag |-> "anon"]])

FnMunmap == \E P \in Intervals(MapArea) :
    /\ Function("munmap")
    /\ P \subseteq Mapped(space)
    /\ MayReplace(P)
    /\ space' = Munmap(space, P)

FnMprotect == \E P \in Intervals(MapArea), prot \in MprotectProts :
    /\ Function("mprotect")
    /\ P \subseteq Mapped(space)
    /\ MaySplit(P)
    /\ space' \in Mprotect(space, P, [p \in Page |-> prot])

\* Only some functions protect a part of the heap, or move the break of a heap
\* whose protection they have changed.
HeapIntact == \A p \in HeapPages(space) : space.vma[p] = HeapAttr
HeapInPlace == HeapPages(space) = {p \in Page : saved.vma[p].tag = "[heap]"}

\* brk, never to the very start: the heap does not vanish.
FnBrk == \E end \in (HeapStart + 1)..HeapMax :
    /\ Function("brk")
    /\ HeapIntact \/ "split_heap" \in FunctionOps
    /\ BrkPossible(space, end)
    /\ space' = Brk(space, end)

FnMprotectHeap == \E P \in Intervals(HeapPages(space)), prot \in MprotectProts :
    /\ Function("mprotect")
    /\ (P = HeapPages(space) /\ HeapInPlace) \/ "split_heap" \in FunctionOps
    /\ space' \in Mprotect(space, P, [p \in Page |-> prot])

\* A store just below the stack extends it.
FnGrowStack == \E p \in Page :
    /\ Function("stack")
    /\ p >= StackMin /\ space.vma[p] = Unmapped
    /\ p + 1 \in Page /\ space.vma[p + 1].tag = "[stack]"
    /\ space' = [Store(space, {p}, [q \in Page |-> NewVal])
                   EXCEPT !.vma[p] = space.vma[p + 1]]

-------------------------------------------------------------------------------
(* restore_process_sd, stage by stage. *)

Stage(from, to) ==
    /\ pc = from
    /\ pc' = to
    /\ UNCHANGED <<snapshot, ops, restores, saved>>

\* The same, or the end of the manager: an assertion of the code fails.
StageIf(ok, from, to) == Stage(from, IF ok THEN to ELSE "aborted")

\* The first capture and comparison: the maps only.
DiffMaps ==
    /\ restores < MaxRestores
    /\ Stage("running", "diffed")
    /\ curr' = capture_maps(space)
    /\ p_diff' = diff_process_states(snapshot.maps, curr')
    /\ UNCHANGED <<space, madvises>>

remove_added_memory ==
    /\ Stage("diffed", "unmapped")
    /\ space' = Munmap(space, Span({m \in p_diff.added : ~Special(m)}))
    /\ UNCHANGED <<curr, p_diff, madvises>>

\* Every removed map comes back as an anonymous one, whatever it was.
restore_removed_memory ==
    /\ Stage("unmapped", "remapped")
    /\ LET back == {m \in p_diff.removed : ~Special(m)} IN
       space' \in Mmap(space, Span(back),
                       [p \in Page |-> [prot |-> ProtIn(back)[p], tag |-> "anon"]])
    /\ UNCHANGED <<curr, p_diff, madvises>>

\* mprotect fails on a page that is not mapped.
restore_memory_protection ==
    LET P  == Span(p_diff.modified_protection)
        ok == P \subseteq Mapped(space)
    IN  /\ StageIf(ok, "remapped", "protected")
        /\ space' \in IF ok THEN Mprotect(space, P, ProtIn(p_diff.modified_protection))
                           ELSE {space}
        /\ UNCHANGED <<curr, p_diff, madvises>>

\* get_map_index_by_name: the lowest [heap] map that a map of another name
\* follows, and the highest [stack] map.
FollowedByOther(M, m) ==
    \E n \in M :
        /\ n.tag # "[heap]" /\ m.addr_end <= n.addr_start
        /\ \A o \in M : m.addr_end <= o.addr_start => n.addr_start <= o.addr_start
HeapEnd(M) ==
    LET found == {m \in M : m.tag = "[heap]" /\ FollowedByOther(M, m)}
        low   == CHOOSE m \in found : \A n \in found : m.addr_start <= n.addr_start
    IN  low.addr_end
StackStart(M) == CHOOSE e \in {m.addr_start : m \in {n \in M : n.tag = "[stack]"}} :
                    \A m \in M : m.tag = "[stack]" => m.addr_start <= e

\* Mutant: the break stays where the function has moved it.
BugBreakStays ==
    Stage("protected", "heap_done") /\ UNCHANGED <<space, curr, p_diff, madvises>>

\* The break moves if the heap ends elsewhere; do_brk asserts that it could.
restore_brk ==
    LET end   == HeapEnd(snapshot.maps)
        moved == HeapEnd(curr) # end
        ok    == moved => BrkPossible(space, end)
    IN  /\ StageIf(ok, "protected", "heap_done")
        /\ space' = IF moved /\ ok THEN Brk(space, end) ELSE space
        /\ UNCHANGED <<curr, p_diff, madvises>>

\* zero_stack: unmap what the stack has grown by.
zero_stack ==
    /\ Stage("heap_done", "stack_done")
    /\ space' = Munmap(space, StackStart(curr)..(StackStart(snapshot.maps) - 1))
    /\ UNCHANGED <<curr, p_diff, madvises>>

\* The second capture and comparison: maps and pages.
DiffPages ==
    /\ Stage("stack_done", "recaptured")
    /\ curr' = capture_pages(space)
    /\ p_diff' = diff_process_states(snapshot.maps, curr')
    /\ UNCHANGED <<space, madvises>>

\* The maps that restore_soft_dirty_memory does not skip.
Restored == {m \in p_diff.modified : m.prot \cap {"r", "w"} # {}}

\* The whole map is written back when it had all its frames and 60% of it
\* changed.
WholeMap(m) ==
    /\ PagesOf(m) \subseteq snapshot.paged
    /\ 10 * (m.soft_dirty_count + m.freed_count) >= 6 * total_num_pages(m)

\* Page by page: discard a frame that did not exist, skip what has not
\* changed or has no frame on either side, write the rest.
ToDiscard(m) == {p \in PagesOf(m) : p \notin snapshot.paged /\ p \in space.paged}
\* Mutant: a page that was freed is not written.
BugFreedSkipped(m) ==
    {p \in PagesOf(m) \ ToDiscard(m) :
        SoftDirty(space, p) /\ (p \in snapshot.paged \/ p \in space.paged)}
ToWrite(m) ==
    {p \in PagesOf(m) \ ToDiscard(m) :
        /\ SoftDirty(space, p) \/ IsFreed(space, p)
        /\ p \in snapshot.paged \/ p \in space.paged}

\* The pages of both states are found by the same index: the position of the
\* page among all the mapped ones (first_page_index + j).
SamePageIndex(p) ==
    /\ p \in Span(curr)
    /\ Cardinality({q \in Span(curr) : q < p})
         = Cardinality({q \in Span(snapshot.maps) : q < p})

restore_soft_dirty_memory ==
    LET whole == {m \in Restored : WholeMap(m)}
        parts == Restored \ whole
        P     == Span(whole) \cup UNION {ToWrite(m) : m \in parts}
        from  == [p \in P |-> LET m == CHOOSE n \in Restored : p \in PagesOf(n)
                               IN  WmemAt(m, p)]
        ok    == \A p \in Span(parts) : SamePageIndex(p)
    IN  /\ StageIf(ok, "recaptured", "written")
        /\ space' = IF ok THEN Store(space, P, from) ELSE space
        /\ madvises' = UNION {ToDiscard(m) : m \in parts}
        /\ UNCHANGED <<curr, p_diff>>

\* Mutant: the list of discards is dropped.
BugNoMadvise ==
    /\ Stage("written", "discarded")
    /\ madvises' = {}
    /\ UNCHANGED <<space, curr, p_diff>>

\* The discards run after all the writes, from the manager's main thread.
do_madvises ==
    /\ Stage("written", "discarded")
    /\ space' = DontNeed(space, madvises)
    /\ madvises' = {}
    /\ UNCHANGED <<curr, p_diff>>

\* The soft-dirty bits and the counters are cleared, the function runs again.
Resume ==
    /\ pc = "discarded"
    /\ pc' = "running"
    /\ space' = ClearSoftDirty(space)
    /\ snapshot' = [snapshot EXCEPT !.maps = clear_counters(@)]
    /\ curr' = {} /\ p_diff' = NoDiff
    /\ ops' = 0 /\ restores' = restores + 1
    /\ UNCHANGED <<madvises, saved>>

Next ==
    \/ Checkpoint
    \/ FnStore \/ FnLoad \/ FnDiscard \/ FnMmap \/ FnMunmap \/ FnMprotect
    \/ FnBrk \/ FnMprotectHeap \/ FnGrowStack
    \/ DiffMaps \/ remove_added_memory \/ restore_removed_memory
    \/ restore_memory_protection \/ restore_brk \/ zero_stack
    \/ DiffPages \/ restore_soft_dirty_memory \/ do_madvises \/ Resume

Spec == Init /\ [][Next]_vars

-------------------------------------------------------------------------------
\* The restore leaves only protections that regions have; the bounds hold.
TypeOK ==
    /\ space \in Space
    /\ saved \in Space
    /\ snapshot.maps \subseteq Region
    /\ snapshot.paged \subseteq Page
    /\ curr \subseteq Region
    /\ madvises \subseteq Page
    /\ pc \in Stages
    /\ ops \in 0..MaxOps
    /\ restores \in 0..MaxRestores

\* The state a completed restore hands to the next request.
JustRestored == pc = "running" /\ ops = 0

\* Every page has the protection, the backing and the content it had at the
\* checkpoint, and no page is mapped that was not: the claim of the README
\* about restore_process_sd.
RestoredIdentical ==
    JustRestored => space.vma = saved.vma /\ space.val = saved.val

\* The two page arrays are aligned when contents are restored, every system
\* call of the restore can succeed: no assertion of the restore fails.
NeverAborts == pc # "aborted"

\* The soft-dirty bits tell the truth from one restore to the next: a page
\* with a clean frame, in an area that was there at the checkpoint, still
\* holds what the snapshot holds (or what backs it, if the snapshot has no
\* frame for it).
CleanMeansUnchanged ==
    pc = "running" =>
        \A p \in Mapped(space) :
            p \in space.paged /\ ~SoftDirty(space, p) =>
                space.val[p] = IF p \in snapshot.paged THEN saved.val[p]
                               ELSE Backing(space.vma[p])

\* A page that had no frame at the checkpoint and was written by the function
\* has none after the restore: the restore discards, it does not leave zeroed
\* frames behind.
WrittenFramesDropped ==
    [][pc' = "discarded" =>
         \A p \in space.paged \ saved.paged :
            p \in Span(curr) /\ p \in space.sd => p \notin space'.paged]_vars

-------------------------------------------------------------------------------
(***************************************************************************)
(* What the restore takes for granted, and RestoredIdentical with it: of   *)
(* the process at the checkpoint, of the places where the function maps,   *)
(* extends its heap and its stack, and of what the function does.          *)
(***************************************************************************)
Tagged(s, t) == {p \in Page : s.vma[p].tag = t}

\* Areas that differ in nothing are only kept apart in anonymous memory.
CutsAllowed(s) ==
    \A p \in s.cut : p > 0 /\ s.vma[p] = s.vma[p - 1] /\ s.vma[p].tag = "anon"

\* Neighbours of one backing are in one area.
Fused(s, t) ==
    \A p \in Page : p > 0 /\ s.vma[p].tag = t /\ s.vma[p - 1].tag = t =>
        s.vma[p] = s.vma[p - 1]

\* The heap is in one piece and ends where it may.
HeapInOnePiece(s) ==
    \E e \in (HeapStart + 1)..HeapMax : Tagged(s, "[heap]") = HeapStart..(e - 1)

StackInOnePiece(s) ==
    \E a, e \in StackMin..LastPage : a <= e /\ Tagged(s, "[stack]") = a..e

\* A page without a frame holds what backs it.
Backed(s) ==
    /\ s.paged \subseteq Mapped(s)
    /\ \A p \in Page \ s.paged : s.val[p] = Backing(s.vma[p])

Accessible(a) == a.prot \cap {"r", "w"} # {}

\* A region that can neither be read nor written is not refilled
\* (restore_soft_dirty_memory): it must be empty, and stay as it is.
TameSpace(s) ==
    /\ CutsAllowed(s) /\ Fused(s, "file") /\ Backed(s)
    /\ HeapInOnePiece(s) /\ \A p \in Tagged(s, "[heap]") : s.vma[p] = HeapAttr
    /\ StackInOnePiece(s) /\ Fused(s, "[stack]")
    /\ \A p \in Mapped(s) : ~Accessible(s.vma[p]) => p \notin s.paged /\ p \notin MapArea

\* The heap may grow as far as the stack may, the function maps nothing where
\* they grow, and it is none of those that the restore is known not to undo.
Tame ==
    /\ FunctionOps \cap {"split_heap", "remap_file", "load_freed"} = {}
    /\ Tag \subseteq {"anon", "file", "[heap]", "[stack]"} /\ "anon" \in Tag
    /\ HeapMax <= StackMin
    /\ MapArea \cap (HeapStart..(HeapMax - 1)) = {} /\ MapArea \cap (StackMin..LastPage) = {}
    /\ \A s \in InitialSpaces : TameSpace(s)
===============================================================================
