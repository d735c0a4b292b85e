------------------------- MODULE MCCheckpointRestore -------------------------
(***************************************************************************)
(* A process of eight pages: the heap at 0 (two pages, room for a third),   *)
(* an area for mappings at 3..5, the stack at 7 (room to grow into 6).     *)
(***************************************************************************)
EXTENDS CheckpointRestore

NONE == {}
R  == {"r"}
RW == {"r", "w"}

MCProt == {NONE, R, RW}
MCTag  == {"anon", "file", "[heap]", "[stack]"}

A(prot) == [prot |-> prot, tag |-> "anon"]
F(prot) == [prot |-> prot, tag |-> "file"]

MCMapArea == 3..5

\* The process around the three attributes of the mapping area.
VmaWith(x) ==
    [p \in Page |-> CASE p \in 0..1 -> HeapAttr
                      [] p \in 3..5 -> x[p - 2]
                      [] p = 7      -> [prot |-> RW, tag |-> "[stack]"]
                      [] OTHER      -> Unmapped]

\* The heap and the stack have all their frames; of the mapping area any.
SpacesWith(x, cuts) ==
    LET vma == VmaWith(x)
        used(f) == {0, 1, 7} \cup {p \in f : vma[p] # Unmapped}
    IN  {[vma |-> vma, cut |-> c, paged |-> used(f), sd |-> {}, fresh |-> {},
          val |-> [p \in Page |-> IF p \in used(f) THEN OldVal(p)
                                  ELSE Backing(vma[p])]] :
          c \in cuts, f \in SUBSET (3..5)}

\* One map, split or not; two maps and a read-only one between them; a file
\* mapping next to an anonymous one; a hole.
Plain ==
    SpacesWith(<<A(RW), A(RW), A(RW)>>, {{}, {4}})
    \cup SpacesWith(<<A(RW), A(R), A(RW)>>, {{}})
    \cup SpacesWith(<<A(RW), Unmapped, A(R)>>, {{}})
    \cup SpacesWith(<<A(RW), F(RW), F(RW)>>, {{}})

\* The proofs are about processes and functions such as these.
ASSUME TameProcess == Tame

BenignOps == {"store", "load", "discard", "mmap", "munmap", "mprotect", "brk", "stack"}
HeapOps   == {"mprotect", "split_heap"}
RereadOps == {"discard", "load", "load_freed"}
==============================================================================
