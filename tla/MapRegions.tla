------------------------------ MODULE MapRegions ------------------------------
(***************************************************************************)
(* The map entries groundhog keeps of a process (structs.h, map_t) and the *)
(* order in which it meets them.  /proc/PID/maps lists the virtual memory  *)
(* areas of a process by increasing address and without overlap; read_maps *)
(* appends one map_t per line, so the array maps[] of a captured state is  *)
(* a sequence of regions with those two properties: a layout.              *)
(*                                                                         *)
(* Addresses are counted in pages.  prot is the set of the bits r, w and x *)
(* that are set.  tag stands for everything else that names the backing of *)
(* the region: p, offset, dev_major, dev_minor, inode and name.            *)
(* total_num_pages is addr_end - addr_start.                               *)
(***************************************************************************)
EXTENDS Integers, Sequences

CONSTANTS
    Prot,   \* the protections a region may have (sets of "r", "w" and "x")
    Tag     \* the backings a region may have

Region == [addr_start: Nat, addr_end: Nat, prot: Prot, tag: Tag,
           soft_dirty_count: Nat, freed_count: Nat]

\* The regions of /proc/PID/maps: not empty, sorted by address, disjoint.
IsLayout(s) ==
    /\ s \in Seq(Region)
    /\ \A k \in 1..Len(s) : s[k].addr_start < s[k].addr_end
    /\ \A k, l \in 1..Len(s) : k < l => s[k].addr_end <= s[l].addr_start

total_num_pages(m) == m.addr_end - m.addr_start

\* map_regions_cmp: every compared field is equal (dirty is 0 in both states
\* that are compared, total_num_pages follows from the two addresses).
map_regions_equal(a, b) == a = b

SameRange(a, b) == a.addr_start = b.addr_start /\ a.addr_end = b.addr_end

SameStartOrEnd(a, b) == a.addr_start = b.addr_start \/ a.addr_end = b.addr_end

Overlap(a, b) == a.addr_start < b.addr_end /\ b.addr_start < a.addr_end

Regions(s) == {s[k] : k \in DOMAIN s}

-------------------------------------------------------------------------------
\* reset_map_metadata: the counters of an entry of added or removed.
reset_map_metadata(m) == [m EXCEPT !.soft_dirty_count = 0]

\* An initial region filed with the counters of its current counterpart ...
WithCounts(m, n) == [m EXCEPT !.soft_dirty_count = n.soft_dirty_count,
                              !.freed_count = n.freed_count]
\* ... or only its soft-dirty counter, when its protection changed ...
WithDirtyCount(m, n) == [m EXCEPT !.soft_dirty_count = n.soft_dirty_count]
\* ... or as if all of its pages had been written.
AllDirty(m) == [m EXCEPT !.soft_dirty_count = total_num_pages(m)]

-------------------------------------------------------------------------------
(***************************************************************************)
(* What diff_process_maps computes from the checkpointed regions I and the *)
(* current regions F, said without the scan (MapDiff shows that the scan   *)
(* computes it).                                                           *)
(***************************************************************************)
\* The regions of S whose range no region of T has: added is
\* MissingFrom(F, I) and removed is MissingFrom(I, F).
MissingFrom(S, T) == {m \in S : \A n \in T : ~SameRange(m, n)}

\* modified_protection.
ReprotectedMaps(I, F) ==
    {WithDirtyCount(q[1], q[2]) :
        q \in {w \in I \X F : SameRange(w[1], w[2]) /\ w[1].prot # w[2].prot}}

\* modified: the regions whose content is restored.
ModifiedMaps(I, F) ==
    {AllDirty(m) : m \in MissingFrom(I, F)}
    \cup ReprotectedMaps(I, F)
    \cup {WithCounts(q[1], q[2]) :
             q \in {w \in I \X F : /\ SameRange(w[1], w[2])
                                   /\ w[1].prot = w[2].prot
                                   /\ ~map_regions_equal(w[1], w[2])}}
===============================================================================
