----------------------------- MODULE AddressSpace -----------------------------
(***************************************************************************)
(* The part of the kernel that groundhog relies on: the address space of   *)
(* one process as /proc/PID/maps, /proc/PID/pagemap and /proc/PID/mem show *)
(* it, and the system calls that change it.  External to the repository:   *)
(* modelled from how proc_cr.c, proc_parsers.c and syscall_injector.c use  *)
(* it.                                                                     *)
(*                                                                         *)
(* An address space s is a record:                                         *)
(*   s.vma    the protection and backing of each page, or Unmapped;        *)
(*   s.cut    the pages at which an area starts although the page before   *)
(*            has the same protection and backing: the kernel may, but     *)
(*            need not, merge such neighbours;                             *)
(*   s.val    the content of each page;                                    *)
(*   s.paged  the pages that have a frame (pfn # 0 in pagemap);            *)
(*   s.sd     the pages that were written since the soft-dirty bits were   *)
(*            cleared;                                                     *)
(*   s.fresh  the pages of areas that are new or extended since then:      *)
(*            pagemap shows all of them as soft-dirty.                     *)
(* A page without a frame and without the bit is what structs.h calls      *)
(* freed (IS_PAGE_FREED).  Swap is left out.                               *)
(***************************************************************************)
EXTENDS MapRegions, FiniteSets

CONSTANTS
    LastPage,     \* the pages are 0..LastPage
    HeapStart     \* the first page of the heap (start_brk)

ASSUME PageAssumption ==
    LastPage \in Nat /\ HeapStart \in 0..LastPage

Page     == 0..LastPage
Attr     == [prot: Prot, tag: Tag]
Unmapped == [prot |-> {}, tag |-> "unmapped"]

\* Page contents: what a new frame of an anonymous or a file mapping holds,
\* what the function writes, and one value of its own for each page at the
\* time of the checkpoint.
Zero    == 0
FileVal == 1
NewVal  == 2
OldVal(p) == 10 + p
Val == {Zero, FileVal, NewVal} \cup {OldVal(p) : p \in Page}

Space == [vma: [Page -> Attr \cup {Unmapped}], cut: SUBSET Page,
          val: [Page -> Val], paged: SUBSET Page,
          sd: SUBSET Page, fresh: SUBSET Page]

Backing(a) == IF a.tag = "file" THEN FileVal ELSE Zero

Mapped(s) == {p \in Page : s.vma[p] # Unmapped}

-------------------------------------------------------------------------------
\* The boundaries between areas that the attributes alone do not show.
Cuts(vma, c) == {p \in c \cap Page : p > 0 /\ vma[p] # Unmapped /\ vma[p] = vma[p - 1]}

StartsAt(s, p) ==
    /\ s.vma[p] # Unmapped
    /\ p = 0 \/ s.vma[p - 1] # s.vma[p] \/ p \in s.cut

\* The pages of the area that p lies in.
AreaOf(s, p) ==
    {q \in Mapped(s) :
        \A x \in Page : (p < x /\ x <= q) \/ (q < x /\ x <= p) =>
            s.vma[x] # Unmapped /\ ~StartsAt(s, x)}

\* /proc/PID/maps, with the counts of /proc/PID/pagemap that are asked for.
MapsWith(s, Sd, Freed) ==
    {LET area == AreaOf(s, p) IN
       [addr_start |-> p, addr_end |-> p + Cardinality(area),
        prot |-> s.vma[p].prot, tag |-> s.vma[p].tag,
        soft_dirty_count |-> Cardinality(area \cap Sd),
        freed_count |-> Cardinality(area \cap Freed)] :
     p \in {q \in Page : StartsAt(s, q)}}

PagesOf(m) == m.addr_start..(m.addr_end - 1)

SoftDirty(s, p) == p \in s.sd \/ p \in s.fresh
IsFreed(s, p)   == p \notin s.paged /\ ~SoftDirty(s, p)

-------------------------------------------------------------------------------
\* munmap of the pages P.
Munmap(s, P) ==
    LET vma == [p \in Page |-> IF p \in P THEN Unmapped ELSE s.vma[p]] IN
    [vma |-> vma, cut |-> Cuts(vma, s.cut),
     val |-> [p \in Page |-> IF p \in P THEN Zero ELSE s.val[p]],
     paged |-> s.paged \ P, sd |-> s.sd \ P, fresh |-> s.fresh \ P]

\* New private mappings of the pages P, each with the attributes a[p], under
\* the boundaries cut.  The whole of a new or extended area shows as soft-dirty.
MapNew(s, P, a, cut) ==
    LET vma == [p \in Page |-> IF p \in P THEN a[p] ELSE s.vma[p]]
        t   == [vma |-> vma, cut |-> cut,
                val |-> [p \in Page |-> IF p \in P THEN Backing(a[p]) ELSE s.val[p]],
                paged |-> s.paged \ P, sd |-> s.sd \ P, fresh |-> s.fresh \ P]
    IN  [t EXCEPT !.fresh = @ \cup UNION {AreaOf(t, p) : p \in P}]

\* mprotect: the protection of page p of P becomes a[p].
Protect(s, P, a, cut) ==
    [s EXCEPT !.vma = [p \in Page |-> IF p \in P THEN [s.vma[p] EXCEPT !.prot = a[p]]
                                               ELSE s.vma[p]],
              !.cut = cut]

\* The boundaries the kernel may leave once vma is in place and the pages P
\* were mapped or protected: it merges with a neighbour or it does not.
Boundaries(s, vma, P) ==
    LET kept    == Cuts(vma, s.cut \ (P \cup {p + 1 : p \in P}))
        free    == Cuts(vma, P \cup {p + 1 : p \in P})
        edge    == {p \in free : p \in s.cut \/ (p \in P /\ p - 1 \notin P)
                                            \/ (p \notin P /\ p - 1 \in P)}
    IN  {kept \cup e : e \in SUBSET edge}

\* What mmap(MAP_FIXED) and mprotect may leave: one space per merge decision.
Mmap(s, P, a) ==
    LET vma == [p \in Page |-> IF p \in P THEN a[p] ELSE s.vma[p]]
    IN  {MapNew(s, P, a, c) : c \in Boundaries(s, vma, P)}
Mprotect(s, P, a) ==
    LET vma == [p \in Page |-> IF p \in P THEN [s.vma[p] EXCEPT !.prot = a[p]]
                                           ELSE s.vma[p]]
    IN  {Protect(s, P, a, c) : c \in Boundaries(s, vma, P)}

\* madvise(MADV_DONTNEED): a private page loses its frame.
DontNeed(s, P) ==
    [s EXCEPT !.val = [p \in Page |-> IF p \in P THEN Backing(s.vma[p]) ELSE s.val[p]],
              !.paged = @ \ P, !.sd = @ \ P]

\* The process, or a write to /proc/PID/mem, stores v[p] in each page p of P.
Store(s, P, v) ==
    [s EXCEPT !.val = [p \in Page |-> IF p \in P THEN v[p] ELSE @[p]],
              !.paged = @ \cup P, !.sd = @ \cup P]

\* A load gives the page a frame, and does not set the soft-dirty bit.
Load(s, p) == [s EXCEPT !.paged = @ \cup {p}]

\* clear_refs, value 4.
ClearSoftDirty(s) == [s EXCEPT !.sd = {}, !.fresh = {}]

\* The end of the heap, and brk.
HeapPages(s) == {p \in Page : s.vma[p].tag = "[heap]"}
HeapAttr == [prot |-> {"r", "w"}, tag |-> "[heap]"]

BrkPossible(s, end) ==
    \A p \in HeapStart..(end - 1) : p \in HeapPages(s) \/ s.vma[p] = Unmapped

\* brk(end) from the current break: what is above goes, what is below comes.
Brk(s, end) ==
    LET gone == {p \in HeapPages(s) : p >= end}
        new  == {p \in HeapStart..(end - 1) : s.vma[p] = Unmapped}
        t    == Munmap(s, gone)
    IN  IF new = {} THEN t
        ELSE MapNew(t, new, [p \in Page |-> HeapAttr], t.cut)
===============================================================================
