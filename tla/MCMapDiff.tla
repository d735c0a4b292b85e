------------------------------ MODULE MCMapDiff ------------------------------
(***************************************************************************)
(* Every pair of layouts of a small address space.                         *)
(***************************************************************************)
EXTENDS MapDiff, FiniteSets

CONSTANT Pages   \* the number of pages of the address space

MCProt == {{"r"}, {"r", "w"}}
MCTag  == {"anon", "file"}

Ranges == {q \in (0..(Pages - 1)) \X (1..Pages) : q[1] < q[2]}

\* The sorted, disjoint sequences of ranges.
Partitions ==
    {s \in UNION {[1..n -> Ranges] : n \in 0..Pages} :
        \A k \in 1..(Len(s) - 1) : s[k][2] <= s[k + 1][1]}

\* The layouts over one partition: what a region is, besides its range, is
\* one of the quadruples of Marks.
LayoutsOver(s, Marks) ==
    {[k \in 1..Len(s) |-> [addr_start |-> s[k][1], addr_end |-> s[k][2],
                           prot |-> q[k][1], tag |-> q[k][2],
                           soft_dirty_count |-> q[k][3], freed_count |-> q[k][4]]] :
        q \in [1..Len(s) -> Marks]}

RW == {"r", "w"}
R  == {"r"}

\* The counters of the stored state are zero (clear_soft_dirty_bits); a current
\* region is untouched with all its frames, has a page without one, was written,
\* made read-only or backed by something else.
MCInitialLayouts == UNION {LayoutsOver(s, {<<RW, "anon", 0, 0>>}) : s \in Partitions}
MCFinalLayouts ==
    UNION {LayoutsOver(s, {<<RW, "anon", 0, 0>>, <<RW, "anon", 0, 1>>,
                           <<RW, "anon", 1, 0>>, <<R, "anon", 1, 1>>,
                           <<RW, "file", 0, 0>>}) : s \in Partitions}
==============================================================================
