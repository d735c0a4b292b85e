------------------------ MODULE CheckpointRestoreProofs ------------------------
(***************************************************************************)
(* What a restore gives back, for address spaces of any size, any number   *)
(* of operations per request and of restores, under the assumption Tame    *)
(* (CheckpointRestore): the process is laid out as the restore takes for   *)
(* granted, and the function does none of the things it cannot undo.       *)
(*                                                                         *)
(* The argument.  A picture of a space (IsPicture) holds one map for each  *)
(* area, so that the comparison of two pictures can be told page by page:  *)
(* a page is Paired if both have the same map around it.  What the         *)
(* function can do to the layout of the checkpoint is Laid, and to the     *)
(* content is Content; both are kept by each of its operations.  From      *)
(* Laid, each stage of the restore leads to the next one of the layouts    *)
(* ClearedIn, RemadeIn, ReprotectedIn, HeapBackIn and the layout of the    *)
(* checkpoint.  From Content, what restore_soft_dirty_memory neither       *)
(* writes nor discards is as it was (RestIsAsItWas).                       *)
(*                                                                         *)
(* s is the space of the checkpoint throughout.                            *)
(***************************************************************************)
EXTENDS CheckpointRestore, FiniteSetTheorems, WellFoundedInduction, TLAPS

-------------------------------------------------------------------------------
(* The lowest and the highest of a set of pages. *)

LessThan == {ss \in Nat \X Nat : ss[1] < ss[2]}

\* A set of numbers that is not empty has a smallest one.
LEMMA SmallestExists ==
    ASSUME NEW S, S \subseteq Nat, S # {}
    PROVE  \E x \in S : \A y \in S : x <= y
<1>1. IsWellFoundedOn(LessThan, Nat)
  BY NatLessThanWellFounded DEF OpToRel, LessThan
<1>2. PICK x \in S : \A y \in S : ~ (<<y, x>> \in LessThan)
  BY <1>1, WFMin
<1>3. ASSUME NEW y \in S PROVE x <= y
  <2>1. x \in Nat /\ y \in Nat /\ <<y, x>> \in Nat \X Nat /\ <<y, x>> \notin LessThan
    BY <1>2
  <2> QED
    BY <2>1 DEF LessThan
<1> QED
  BY <1>3

\* A set of pages that is not empty has a last one.
LEMMA LastExists ==
    ASSUME NEW S, S \subseteq Page, S # {}
    PROVE  \E x \in S : \A y \in S : y <= x
<1>1. LastPage \in Nat /\ \A y \in S : y \in Nat /\ y <= LastPage
  BY PageAssumption DEF Page
<1> DEFINE D == {LastPage - y : y \in S}
<1>2. D \subseteq Nat /\ D # {}
  BY <1>1
<1>3. PICK d \in D : \A e \in D : d <= e
  BY <1>2, SmallestExists
<1>4. PICK x \in S : d = LastPage - x
  BY <1>3
<1>5. ASSUME NEW y \in S PROVE y <= x
  <2>1. LastPage - x <= LastPage - y
    BY <1>3, <1>4
  <2> QED
    BY <1>1, <2>1
<1> QED
  BY <1>5

\* Sets of pages are finite.
LEMMA PagesFinite ==
    ASSUME NEW S, S \subseteq Page
    PROVE  IsFiniteSet(S) /\ Cardinality(S) \in Nat
<1>1. IsFiniteSet(Page)
  BY PageAssumption, FS_Interval DEF Page
<1> QED
  BY <1>1, FS_Subset, FS_CardinalityType

-------------------------------------------------------------------------------
(* /proc/PID/maps: every mapped page is in just one map, the pages of a map   *)
(* have its protection and backing, and a map ends where another one or a     *)
(* hole begins.                                                               *)

\* An area reaches from its start to the page before the next boundary.
LEMMA AreaIsInterval ==
    ASSUME NEW s, NEW p \in Page, StartsAt(s, p)
    PROVE  \E e \in Nat :
              /\ p < e /\ e <= LastPage + 1
              /\ AreaOf(s, p) = p..(e - 1) /\ Cardinality(AreaOf(s, p)) = e - p
              /\ \A q \in p..(e - 1) : q # p => ~StartsAt(s, q)
              /\ e <= LastPage => s.vma[e] = Unmapped \/ StartsAt(s, e)
<1>1. LastPage \in Nat /\ p \in Nat /\ p <= LastPage /\ Page = 0..LastPage
  BY PageAssumption DEF Page
<1> DEFINE R == AreaOf(s, p)
<1>2. p \in R /\ R \subseteq Page
  BY <1>1 DEF AreaOf, StartsAt, Mapped
<1>3. PICK z \in R : \A y \in R : y <= z
  BY <1>2, LastExists
<1>4. z \in Nat /\ z <= LastPage /\ p <= z
  BY <1>1, <1>2, <1>3
<1>5. ASSUME NEW q \in R PROVE p <= q
  <2>1. CASE q < p
    <3>1. ~StartsAt(s, p)
      BY <1>1, <2>1 DEF AreaOf
    <3> QED
      BY <3>1
  <2> QED
    BY <1>1, <1>2, <2>1
<1>6. ASSUME NEW q \in p..z PROVE q \in R
  <2>1. q \in Page
    BY <1>1, <1>4
  <2>2. s.vma[q] # Unmapped
    <3>1. CASE q = p
      BY <3>1 DEF StartsAt
    <3>2. CASE q # p
      BY <1>1, <1>3, <1>4, <2>1, <3>2 DEF AreaOf
    <3> QED
      BY <3>1, <3>2
  <2>3. ASSUME NEW x \in Page, (p < x /\ x <= q) \/ (q < x /\ x <= p)
        PROVE  s.vma[x] # Unmapped /\ ~StartsAt(s, x)
    <3>1. p < x /\ x <= z
      BY <1>1, <1>4, <2>3
    <3> QED
      BY <1>3, <3>1 DEF AreaOf
  <2> QED
    BY <2>1, <2>2, <2>3 DEF AreaOf, Mapped
<1>7. R = p..z
  <2>1. ASSUME NEW q \in R PROVE q \in p..z
    <3>1. q \in Nat
      BY <1>1, <1>2
    <3> QED
      BY <1>1, <1>3, <1>4, <1>5, <3>1
  <2> QED
    BY <1>6, <2>1
<1>8. Cardinality(R) = z - p + 1
  <2>1. p \in Int /\ z \in Int /\ ~ (p > z)
    BY <1>1, <1>4
  <2>2. Cardinality(p..z) = z - p + 1
    BY <2>1, FS_Interval
  <2> QED
    BY <1>7, <2>2
<1>9. \A q \in p..z : q # p => ~StartsAt(s, q)
  <2> SUFFICES ASSUME NEW q \in p..z, q # p PROVE ~StartsAt(s, q)
    OBVIOUS
  <2>1. q \in Page /\ p < q /\ q <= z
    BY <1>1, <1>4
  <2> QED
    BY <1>3, <2>1 DEF AreaOf
<1>10. ASSUME z + 1 <= LastPage PROVE s.vma[z + 1] = Unmapped \/ StartsAt(s, z + 1)
  <2> SUFFICES ASSUME s.vma[z + 1] # Unmapped, ~StartsAt(s, z + 1) PROVE FALSE
    OBVIOUS
  <2>1. z + 1 \in Page
    BY <1>1, <1>4, <1>10
  <2>2. ASSUME NEW x \in Page, (p < x /\ x <= z + 1) \/ (z + 1 < x /\ x <= p)
        PROVE  s.vma[x] # Unmapped /\ ~StartsAt(s, x)
    <3>1. p < x /\ (x <= z \/ x = z + 1)
      BY <1>1, <1>4, <2>2
    <3> QED
      BY <1>3, <3>1 DEF AreaOf
  <2>3. z + 1 \in R
    BY <2>1, <2>2 DEF AreaOf, Mapped
  <2> QED
    BY <1>3, <1>4, <2>3
<1>11. /\ z + 1 \in Nat /\ p < z + 1 /\ z + 1 <= LastPage + 1 /\ (z + 1) - 1 = z
       /\ z - p + 1 = (z + 1) - p
  BY <1>1, <1>4
<1> QED
  BY <1>7, <1>8, <1>9, <1>10, <1>11

\* The pages of an area have the attributes of its first page.
LEMMA AreaIsUniform ==
    ASSUME NEW s, NEW p \in Page, StartsAt(s, p), NEW q \in AreaOf(s, p)
    PROVE  q \in Page /\ s.vma[q] = s.vma[p] /\ s.vma[q] # Unmapped
<1>1. PICK e \in Nat :
         /\ p < e /\ e <= LastPage + 1 /\ AreaOf(s, p) = p..(e - 1)
         /\ \A x \in p..(e - 1) : x # p => ~StartsAt(s, x)
  BY AreaIsInterval
<1>2. LastPage \in Nat /\ p \in Nat /\ Page = 0..LastPage /\ q \in Page /\ q \in p..(e - 1)
  BY <1>1, PageAssumption DEF Page
<1>3. s.vma[q] # Unmapped
  BY DEF AreaOf, Mapped
<1> DEFINE Odd == {x \in p..(e - 1) : s.vma[x] # s.vma[p]}
<1>4. ASSUME Odd # {} PROVE FALSE
  <2>1. Odd \subseteq Nat
    BY <1>2
  <2>2. PICK x \in Odd : \A y \in Odd : x <= y
    BY <1>4, <2>1, SmallestExists
  <2>3. x \in Nat /\ p < x /\ x <= e - 1
    BY <1>2, <2>2
  <2>4. x - 1 \in p..(e - 1) /\ x - 1 \notin Odd
    BY <1>1, <1>2, <2>1, <2>2, <2>3
  <2>5. s.vma[x - 1] = s.vma[p]
    BY <2>4
  <2>6. x \in AreaOf(s, p) /\ ~StartsAt(s, x) /\ x # 0
    BY <1>1, <1>2, <2>3
  <2>7. s.vma[x] # Unmapped
    BY <2>6 DEF AreaOf, Mapped
  <2>8. s.vma[x - 1] = s.vma[x]
    BY <2>6, <2>7 DEF StartsAt
  <2> QED
    BY <2>2, <2>5, <2>8
<1> QED
  BY <1>2, <1>3, <1>4

\* One line of the file.
IsMapOf(s, m) ==
    /\ m.addr_start \in Page /\ m.addr_end \in Nat
    /\ m.addr_start < m.addr_end /\ m.addr_end <= LastPage + 1
    /\ StartsAt(s, m.addr_start)
    /\ m.addr_end <= LastPage => s.vma[m.addr_end] = Unmapped \/ StartsAt(s, m.addr_end)
    /\ \A q \in PagesOf(m) : /\ q \in Page /\ s.vma[q] # Unmapped
                             /\ s.vma[q].prot = m.prot /\ s.vma[q].tag = m.tag
                             /\ q # m.addr_start => ~StartsAt(s, q)

LEMMA MapsAreAreas ==
    ASSUME NEW s, NEW Sd, NEW Freed, NEW m \in MapsWith(s, Sd, Freed)
    PROVE  /\ IsMapOf(s, m)
           /\ m.soft_dirty_count = Cardinality(PagesOf(m) \cap Sd)
           /\ m.freed_count = Cardinality(PagesOf(m) \cap Freed)
<1>1. PICK p \in Page :
         /\ StartsAt(s, p)
         /\ m = [addr_start |-> p, addr_end |-> p + Cardinality(AreaOf(s, p)),
                 prot |-> s.vma[p].prot, tag |-> s.vma[p].tag,
                 soft_dirty_count |-> Cardinality(AreaOf(s, p) \cap Sd),
                 freed_count |-> Cardinality(AreaOf(s, p) \cap Freed)]
  BY DEF MapsWith
<1>2. PICK e \in Nat :
         /\ p < e /\ e <= LastPage + 1
         /\ AreaOf(s, p) = p..(e - 1) /\ Cardinality(AreaOf(s, p)) = e - p
         /\ \A q \in p..(e - 1) : q # p => ~StartsAt(s, q)
         /\ e <= LastPage => s.vma[e] = Unmapped \/ StartsAt(s, e)
  BY <1>1, AreaIsInterval
<1>3. p \in Nat /\ p + (e - p) = e
  BY PageAssumption DEF Page
<1>4. /\ m.addr_start = p /\ m.addr_end = e
      /\ m.prot = s.vma[p].prot /\ m.tag = s.vma[p].tag
      /\ m.soft_dirty_count = Cardinality(AreaOf(s, p) \cap Sd)
      /\ m.freed_count = Cardinality(AreaOf(s, p) \cap Freed)
  BY <1>1, <1>2, <1>3
<1>5. PagesOf(m) = AreaOf(s, p)
  BY <1>2, <1>4 DEF PagesOf
<1>6. ASSUME NEW q \in PagesOf(m)
      PROVE  /\ q \in Page /\ s.vma[q] # Unmapped
             /\ s.vma[q].prot = m.prot /\ s.vma[q].tag = m.tag
             /\ q # m.addr_start => ~StartsAt(s, q)
  <2>1. q \in Page /\ s.vma[q] = s.vma[p] /\ s.vma[q] # Unmapped
    BY <1>1, <1>5, AreaIsUniform
  <2> QED
    BY <1>2, <1>4, <1>5, <2>1
<1>7. IsMapOf(s, m)
  BY <1>1, <1>2, <1>4, <1>6 DEF IsMapOf
<1> QED
  BY <1>4, <1>5, <1>7

\* Every mapped page is in a map.
LEMMA MapsCover ==
    ASSUME NEW s, NEW Sd, NEW Freed, NEW q \in Mapped(s)
    PROVE  \E m \in MapsWith(s, Sd, Freed) : q \in PagesOf(m)
<1>1. LastPage \in Nat /\ q \in Nat /\ q <= LastPage /\ Page = 0..LastPage
      /\ s.vma[q] # Unmapped
  BY PageAssumption DEF Page, Mapped
<1> DEFINE Back == {x \in 0..q :
                      \A y \in (x + 1)..q : s.vma[y] # Unmapped /\ ~StartsAt(s, y)}
<1>2. Back \subseteq Nat /\ q \in Back
  BY <1>1
<1>3. PICK p \in Back : \A y \in Back : p <= y
  BY <1>2, SmallestExists
<1>4. p \in Nat /\ p <= q /\ p \in Page
  BY <1>1, <1>3
<1>5. \A y \in Page : p < y /\ y <= q => s.vma[y] # Unmapped /\ ~StartsAt(s, y)
  BY <1>1, <1>3, <1>4
<1>6. s.vma[p] # Unmapped
  <2>1. CASE p = q
    BY <1>1, <2>1
  <2>2. CASE p # q
    <3>1. p + 1 \in Page /\ p < p + 1 /\ p + 1 <= q /\ p + 1 # 0 /\ (p + 1) - 1 = p
      BY <1>1, <1>4, <2>2
    <3>2. s.vma[p + 1] # Unmapped /\ ~StartsAt(s, p + 1)
      BY <1>5, <3>1
    <3> QED
      BY <3>1, <3>2 DEF StartsAt
  <2> QED
    BY <2>1, <2>2
<1>7. StartsAt(s, p)
  <2> SUFFICES ASSUME ~StartsAt(s, p) PROVE FALSE
    OBVIOUS
  <2>1. p # 0
    BY <1>6 DEF StartsAt
  <2>2. p - 1 \in 0..q
    BY <1>1, <1>4, <2>1
  <2>3. ASSUME NEW y \in ((p - 1) + 1)..q PROVE s.vma[y] # Unmapped /\ ~StartsAt(s, y)
    <3>1. y \in Page /\ (y = p \/ (p < y /\ y <= q))
      BY <1>1, <1>4
    <3> QED
      BY <1>5, <1>6, <3>1
  <2>4. p - 1 \in Back
    BY <2>2, <2>3
  <2>5. p <= p - 1
    BY <1>3, <2>4
  <2> QED
    BY <1>4, <2>5
<1>8. q \in AreaOf(s, p)
  <2>1. ASSUME NEW x \in Page, (p < x /\ x <= q) \/ (q < x /\ x <= p)
        PROVE  s.vma[x] # Unmapped /\ ~StartsAt(s, x)
    <3>1. p < x /\ x <= q
      BY <1>1, <1>4, <2>1
    <3> QED
      BY <1>5, <3>1
  <2> QED
    BY <1>1, <2>1 DEF AreaOf
<1> DEFINE m == [addr_start |-> p, addr_end |-> p + Cardinality(AreaOf(s, p)),
                 prot |-> s.vma[p].prot, tag |-> s.vma[p].tag,
                 soft_dirty_count |-> Cardinality(AreaOf(s, p) \cap Sd),
                 freed_count |-> Cardinality(AreaOf(s, p) \cap Freed)]
<1>9. m \in MapsWith(s, Sd, Freed)
  BY <1>4, <1>7 DEF MapsWith
<1>10. PICK e \in Nat : AreaOf(s, p) = p..(e - 1) /\ Cardinality(AreaOf(s, p)) = e - p
  BY <1>4, <1>7, AreaIsInterval
<1>11. p + (e - p) = e
  BY <1>4
<1>12. PagesOf(m) = AreaOf(s, p)
  BY <1>10, <1>11 DEF PagesOf
<1> QED
  BY <1>8, <1>9, <1>12

\* Two maps do not share a page.
LEMMA MapsApart ==
    ASSUME NEW s, NEW m, NEW n, IsMapOf(s, m), IsMapOf(s, n),
           NEW q, q \in PagesOf(m), q \in PagesOf(n)
    PROVE  SameRange(m, n)
<1>1. /\ LastPage \in Nat /\ Page = 0..LastPage
      /\ m.addr_start \in Nat /\ n.addr_start \in Nat
      /\ m.addr_end \in Nat /\ n.addr_end \in Nat
      /\ q \in Nat /\ m.addr_start <= q /\ q < m.addr_end
      /\ n.addr_start <= q /\ q < n.addr_end
      /\ m.addr_end <= LastPage + 1 /\ n.addr_end <= LastPage + 1
  BY PageAssumption DEF Page, IsMapOf, PagesOf
<1>2. ASSUME NEW a, NEW b, IsMapOf(s, a), IsMapOf(s, b), q \in PagesOf(a), q \in PagesOf(b)
      PROVE  ~ (a.addr_start < b.addr_start)
  <2> SUFFICES ASSUME a.addr_start < b.addr_start PROVE FALSE
    OBVIOUS
  <2>1. a.addr_start \in Nat /\ b.addr_start \in Nat /\ b.addr_start <= q /\ q \in Nat
        /\ a.addr_end \in Nat /\ q <= a.addr_end - 1
    BY <1>1, <1>2 DEF IsMapOf, PagesOf
  <2>2. b.addr_start \in PagesOf(a) /\ b.addr_start # a.addr_start
    BY <2>1 DEF PagesOf
  <2> QED
    BY <1>2, <2>2 DEF IsMapOf
<1>3. m.addr_start = n.addr_start
  BY <1>1, <1>2
<1>4. ASSUME NEW a, NEW b, IsMapOf(s, a), IsMapOf(s, b), q \in PagesOf(a), q \in PagesOf(b),
             a.addr_start = b.addr_start
      PROVE  ~ (a.addr_end < b.addr_end)
  <2> SUFFICES ASSUME a.addr_end < b.addr_end PROVE FALSE
    OBVIOUS
  <2>1. /\ a.addr_start \in Nat /\ a.addr_end \in Nat /\ b.addr_end \in Nat
        /\ a.addr_start < a.addr_end /\ b.addr_end <= LastPage + 1
    BY <1>1, <1>4 DEF IsMapOf
  <2>2. /\ a.addr_end \in PagesOf(b) /\ a.addr_end # b.addr_start /\ a.addr_end <= LastPage
    BY <1>1, <1>4, <2>1 DEF PagesOf
  <2> QED
    BY <1>4, <2>2 DEF IsMapOf
<1>5. m.addr_end = n.addr_end
  BY <1>1, <1>3, <1>4
<1> QED
  BY <1>3, <1>5 DEF SameRange

-------------------------------------------------------------------------------
(* The comparison of two pictures, page by page. *)

\* M is what a read of the maps of s finds.
IsPicture(s, M) ==
    /\ \A m \in M : IsMapOf(s, m)
    /\ \A q \in Mapped(s) : \E m \in M : q \in PagesOf(m)

LEMMA PicturesTaken ==
    ASSUME NEW s, NEW Sd, NEW Freed PROVE IsPicture(s, MapsWith(s, Sd, Freed))
  BY MapsAreAreas, MapsCover DEF IsPicture

\* Page p lies in maps of the same range in both pictures.
Paired(I, F, p) == \E m \in I, n \in F : SameRange(m, n) /\ p \in PagesOf(m)

SpecialAt(s, p) == s.vma[p].tag \in {"[heap]", "[stack]"}

\* What munmap and mmap are called for: whole maps, but as the maps do not
\* overlap, just the pages that are not paired.
LEMMA MissingPages ==
    ASSUME NEW s, NEW I, NEW F, IsPicture(s, I)
    PROVE  Span({m \in MissingFrom(I, F) : ~Special(m)})
             = {p \in Mapped(s) : ~SpecialAt(s, p) /\ ~Paired(I, F, p)}
<1> DEFINE Missing == {m \in MissingFrom(I, F) : ~Special(m)}
<1>1. ASSUME NEW p \in Span(Missing)
      PROVE  p \in Mapped(s) /\ ~SpecialAt(s, p) /\ ~Paired(I, F, p)
  <2>1. PICK m \in I : /\ \A n \in F : ~SameRange(m, n)
                       /\ ~Special(m) /\ p \in PagesOf(m)
    BY DEF Span, MissingFrom
  <2>2. IsMapOf(s, m)
    BY DEF IsPicture
  <2>3. p \in Mapped(s) /\ s.vma[p].tag = m.tag
    BY <2>1, <2>2 DEF IsMapOf, Mapped
  <2>4. ASSUME NEW k \in I, NEW n \in F, SameRange(k, n), p \in PagesOf(k) PROVE FALSE
    <3>1. SameRange(k, m)
      BY <2>1, <2>2, <2>4, MapsApart DEF IsPicture
    <3>2. SameRange(m, n)
      BY <2>4, <3>1 DEF SameRange
    <3> QED
      BY <2>1, <3>2
  <2> QED
    BY <2>1, <2>3, <2>4 DEF SpecialAt, Special, Paired
<1>2. ASSUME NEW p \in Mapped(s), ~SpecialAt(s, p), ~Paired(I, F, p)
      PROVE  p \in Span(Missing)
  <2>1. PICK m \in I : p \in PagesOf(m)
    BY DEF IsPicture
  <2>2. IsMapOf(s, m)
    BY DEF IsPicture
  <2>3. s.vma[p].tag = m.tag
    BY <2>1, <2>2 DEF IsMapOf
  <2>4. m \in Missing
    BY <1>2, <2>1, <2>3 DEF MissingFrom, Paired, SpecialAt, Special
  <2> QED
    BY <2>1, <2>4 DEF Span
<1>3. Span(Missing) = {p \in Mapped(s) : ~SpecialAt(s, p) /\ ~Paired(I, F, p)}
  BY <1>1, <1>2
<1> QED
  BY <1>3

LEMMA PairedBothWays ==
    ASSUME NEW I, NEW F, NEW p PROVE Paired(I, F, p) <=> Paired(F, I, p)
  BY DEF Paired, SameRange, PagesOf

\* A paired page is mapped in both.
LEMMA PairedMapped ==
    ASSUME NEW s, NEW I, NEW F, NEW p, IsPicture(s, I), Paired(I, F, p)
    PROVE  p \in Mapped(s)
  BY DEF IsPicture, IsMapOf, Paired, Mapped

\* What mprotect is called for.
LEMMA ReprotectedPages ==
    ASSUME NEW s, NEW c, NEW I, NEW F, IsPicture(s, I), IsPicture(c, F)
    PROVE  Span(ReprotectedMaps(I, F))
             = {p \in Page : Paired(I, F, p) /\ s.vma[p].prot # c.vma[p].prot}
<1>1. ASSUME NEW p \in Span(ReprotectedMaps(I, F))
      PROVE  p \in Page /\ Paired(I, F, p) /\ s.vma[p].prot # c.vma[p].prot
  <2>1. PICK m \in I, n \in F :
           /\ SameRange(m, n) /\ m.prot # n.prot /\ p \in PagesOf(WithDirtyCount(m, n))
    BY DEF Span, ReprotectedMaps
  <2>2. p \in PagesOf(m) /\ p \in PagesOf(n)
    BY <2>1 DEF PagesOf, WithDirtyCount, SameRange
  <2>3. IsMapOf(s, m) /\ IsMapOf(c, n)
    BY DEF IsPicture
  <2>4. p \in Page /\ s.vma[p].prot = m.prot /\ c.vma[p].prot = n.prot
    BY <2>2, <2>3 DEF IsMapOf
  <2> QED
    BY <2>1, <2>2, <2>4 DEF Paired
<1>2. ASSUME NEW p \in Page, Paired(I, F, p), s.vma[p].prot # c.vma[p].prot
      PROVE  p \in Span(ReprotectedMaps(I, F))
  <2>1. PICK m \in I, n \in F : SameRange(m, n) /\ p \in PagesOf(m)
    BY <1>2 DEF Paired
  <2>2. p \in PagesOf(n) /\ p \in PagesOf(WithDirtyCount(m, n))
    BY <2>1 DEF PagesOf, WithDirtyCount, SameRange
  <2>3. IsMapOf(s, m) /\ IsMapOf(c, n)
    BY DEF IsPicture
  <2>4. m.prot # n.prot
    BY <1>2, <2>1, <2>2, <2>3 DEF IsMapOf
  <2>5. WithDirtyCount(m, n) \in ReprotectedMaps(I, F)
    <3>1. <<m, n>> \in {w \in I \X F : SameRange(w[1], w[2]) /\ w[1].prot # w[2].prot}
      BY <2>1, <2>4
    <3>2. WithDirtyCount(<<m, n>>[1], <<m, n>>[2]) \in ReprotectedMaps(I, F)
      BY <3>1 DEF ReprotectedMaps
    <3> QED
      BY <3>2
  <2> QED
    BY <2>2, <2>5 DEF Span
<1> QED
  BY <1>1, <1>2

\* The protection that mprotect and mmap are called with is that of the first
\* picture.
LEMMA ProtectionKnown ==
    ASSUME NEW s, NEW M, NEW p \in Page, p \in Span(M),
           \A m \in M : p \in PagesOf(m) => m.prot = s.vma[p].prot
    PROVE  ProtIn(M)[p] = s.vma[p].prot
<1> DEFINE m == CHOOSE n \in M : p \in PagesOf(n)
<1>1. m \in M /\ p \in PagesOf(m)
  BY DEF Span
<1>2. ProtIn(M)[p] = m.prot
  BY DEF ProtIn
<1> QED
  BY <1>1, <1>2

LEMMA ReprotectedTo ==
    ASSUME NEW s, NEW I, NEW F, IsPicture(s, I), NEW p \in Page,
           p \in Span(ReprotectedMaps(I, F))
    PROVE  ProtIn(ReprotectedMaps(I, F))[p] = s.vma[p].prot
<1>1. ASSUME NEW k \in ReprotectedMaps(I, F), p \in PagesOf(k) PROVE k.prot = s.vma[p].prot
  <2>1. PICK w \in I \X F : k = WithDirtyCount(w[1], w[2])
    BY DEF ReprotectedMaps
  <2>2. IsMapOf(s, w[1])
    BY DEF IsPicture
  <2>3. w[1].addr_start = k.addr_start /\ w[1].addr_end = k.addr_end /\ w[1].prot = k.prot
    BY <2>1 DEF WithDirtyCount
  <2>4. p \in PagesOf(w[1])
    BY <1>1, <2>3 DEF PagesOf
  <2> QED
    BY <2>2, <2>3, <2>4 DEF IsMapOf
<1> QED
  BY <1>1, ProtectionKnown

LEMMA RemovedTo ==
    ASSUME NEW s, NEW I, NEW F, IsPicture(s, I), NEW p \in Page,
           p \in Span({m \in MissingFrom(I, F) : ~Special(m)})
    PROVE  ProtIn({m \in MissingFrom(I, F) : ~Special(m)})[p] = s.vma[p].prot
<1> DEFINE M == {m \in MissingFrom(I, F) : ~Special(m)}
<1>1. ASSUME NEW k \in M, p \in PagesOf(k) PROVE k.prot = s.vma[p].prot
  <2>1. IsMapOf(s, k)
    BY DEF IsPicture, MissingFrom
  <2> QED
    BY <1>1, <2>1 DEF IsMapOf
<1>2. p \in Span(M)
  OBVIOUS
<1> HIDE DEF M
<1>3. ProtIn(M)[p] = s.vma[p].prot
  BY <1>1, <1>2, ProtectionKnown
<1> QED
  BY <1>3 DEF M

\* A page with a tag is mapped.
LEMMA TaggedMapped ==
    ASSUME NEW s, NEW p \in Page, s.vma[p].tag # "unmapped"
    PROVE  p \in Mapped(s)
  BY DEF Mapped, Unmapped

\* Neighbours in the heap, in the stack, or of files, are in one area.
LEMMA InnerPage ==
    ASSUME NEW s, NEW t \in {"file", "[heap]", "[stack]"}, CutsAllowed(s), Fused(s, t),
           NEW p \in Tagged(s, t), p > 0, p - 1 \in Tagged(s, t)
    PROVE  ~StartsAt(s, p)
<1>1. s.vma[p] = s.vma[p - 1] /\ s.vma[p].tag = t
  BY DEF Fused, Tagged
<1>2. p \notin s.cut
  BY <1>1 DEF CutsAllowed
<1>3. p # 0
  BY DEF Tagged, Page
<1> QED
  BY <1>1, <1>2, <1>3 DEF StartsAt

\* When s and c have the same pages of such a tag, a map of s and a map of c
\* that share one of them start and end together.
LEMMA StartNotEarlier ==
    ASSUME NEW s, NEW c, NEW t \in {"file", "[heap]", "[stack]"},
           CutsAllowed(c), Fused(c, t), Tagged(s, t) = Tagged(c, t),
           NEW m, NEW n, IsMapOf(s, m), IsMapOf(c, n), m.tag = t,
           NEW q, q \in PagesOf(m), q \in PagesOf(n)
    PROVE  n.addr_start <= m.addr_start
<1> SUFFICES ASSUME ~ (n.addr_start <= m.addr_start) PROVE FALSE
  OBVIOUS
<1>1. /\ m.addr_start \in Nat /\ n.addr_start \in Nat /\ q \in Nat
      /\ m.addr_end \in Nat /\ n.addr_end \in Nat
      /\ n.addr_start <= q /\ q <= m.addr_end - 1
  BY PageAssumption DEF IsMapOf, Page, PagesOf
<1>2. n.addr_start \in PagesOf(m) /\ n.addr_start - 1 \in PagesOf(m) /\ n.addr_start > 0
  BY <1>1 DEF PagesOf
<1>3. n.addr_start \in Tagged(s, t) /\ n.addr_start - 1 \in Tagged(s, t)
  BY <1>2 DEF IsMapOf, Tagged
<1>4. ~StartsAt(c, n.addr_start)
  BY <1>2, <1>3, InnerPage
<1> QED
  BY <1>4 DEF IsMapOf

LEMMA EndNotLater ==
    ASSUME NEW s, NEW c, NEW t \in {"file", "[heap]", "[stack]"},
           CutsAllowed(c), Fused(c, t), Tagged(s, t) = Tagged(c, t),
           NEW m, NEW n, IsMapOf(s, m), IsMapOf(c, n), m.tag = t,
           NEW q, q \in PagesOf(m), q \in PagesOf(n)
    PROVE  m.addr_end <= n.addr_end
<1> SUFFICES ASSUME ~ (m.addr_end <= n.addr_end) PROVE FALSE
  OBVIOUS
<1>1. /\ m.addr_start \in Nat /\ n.addr_start \in Nat /\ q \in Nat
      /\ m.addr_end \in Nat /\ n.addr_end \in Nat /\ LastPage \in Nat
      /\ m.addr_start <= q /\ q <= n.addr_end - 1
      /\ m.addr_end <= LastPage + 1
  BY PageAssumption DEF IsMapOf, Page, PagesOf
<1>2. n.addr_end \in PagesOf(m) /\ n.addr_end - 1 \in PagesOf(m) /\ n.addr_end > 0
      /\ n.addr_end <= LastPage
  BY <1>1 DEF PagesOf
<1>3. n.addr_end \in Tagged(s, t) /\ n.addr_end - 1 \in Tagged(s, t)
  BY <1>2 DEF IsMapOf, Tagged
<1>4. ~StartsAt(c, n.addr_end)
  BY <1>2, <1>3, InnerPage
<1>5. c.vma[n.addr_end].tag = t
  BY <1>3 DEF Tagged
<1>6. c.vma[n.addr_end] = Unmapped
  BY <1>2, <1>4 DEF IsMapOf
<1> QED
  BY <1>5, <1>6 DEF Unmapped

LEMMA TagPaired ==
    ASSUME NEW s, NEW c, NEW I, NEW F, NEW t \in {"file", "[heap]", "[stack]"},
           IsPicture(s, I), IsPicture(c, F), Tagged(s, t) = Tagged(c, t),
           CutsAllowed(s), CutsAllowed(c), Fused(s, t), Fused(c, t),
           NEW q \in Tagged(s, t)
    PROVE  Paired(I, F, q)
<1>1. q \in Mapped(s) /\ q \in Mapped(c) /\ s.vma[q].tag = t /\ c.vma[q].tag = t
  BY TaggedMapped DEF Tagged
<1>2. PICK m \in I : q \in PagesOf(m)
  BY <1>1 DEF IsPicture
<1>3. PICK n \in F : q \in PagesOf(n)
  BY <1>1 DEF IsPicture
<1>4. IsMapOf(s, m) /\ IsMapOf(c, n)
  BY DEF IsPicture
<1>5. m.tag = t /\ n.tag = t
  BY <1>1, <1>2, <1>3, <1>4 DEF IsMapOf
<1>6. n.addr_start <= m.addr_start /\ m.addr_start <= n.addr_start
  BY <1>2, <1>3, <1>4, <1>5, StartNotEarlier
<1>7. m.addr_end <= n.addr_end /\ n.addr_end <= m.addr_end
  BY <1>2, <1>3, <1>4, <1>5, EndNotLater
<1>8. SameRange(m, n)
  <2>1. m.addr_start \in Nat /\ n.addr_start \in Nat /\ m.addr_end \in Nat /\ n.addr_end \in Nat
    BY <1>4, PageAssumption DEF IsMapOf, Page
  <2> QED
    BY <1>6, <1>7, <2>1 DEF SameRange
<1> QED
  BY <1>2, <1>8 DEF Paired

-------------------------------------------------------------------------------
(* The system calls of AddressSpace. *)

\* The fields of an address space.
LEMMA SpaceFields ==
    ASSUME NEW s \in Space
    PROVE  /\ s.vma \in [Page -> Attr \cup {Unmapped}] /\ s.val \in [Page -> Val]
           /\ s.cut \in SUBSET Page /\ s.paged \in SUBSET Page
           /\ s.sd \in SUBSET Page /\ s.fresh \in SUBSET Page
           /\ s = [vma |-> s.vma, cut |-> s.cut, val |-> s.val, paged |-> s.paged,
                   sd |-> s.sd, fresh |-> s.fresh]
  BY DEF Space

LEMMA SpaceMade ==
    ASSUME NEW vma \in [Page -> Attr \cup {Unmapped}], NEW val \in [Page -> Val],
           NEW cut \in SUBSET Page, NEW paged \in SUBSET Page,
           NEW sd \in SUBSET Page, NEW fresh \in SUBSET Page
    PROVE  [vma |-> vma, cut |-> cut, val |-> val, paged |-> paged, sd |-> sd,
            fresh |-> fresh] \in Space
  BY DEF Space

LEMMA BackingTyped ==
    ASSUME NEW a PROVE Backing(a) \in Val /\ Zero \in Val /\ NewVal \in Val
  BY DEF Backing, Val

LEMMA ClearFacts ==
    ASSUME NEW s \in Space, NEW t, t = ClearSoftDirty(s)
    PROVE  /\ t \in Space /\ t.vma = s.vma /\ t.cut = s.cut /\ t.val = s.val
           /\ t.paged = s.paged /\ t.sd = {} /\ t.fresh = {}
  BY SpaceFields DEF ClearSoftDirty, Space

LEMMA MunmapFacts ==
    ASSUME NEW s \in Space, NEW P, NEW t, t = Munmap(s, P)
    PROVE  /\ t \in Space
           /\ \A p \in Page : t.vma[p] = IF p \in P THEN Unmapped ELSE s.vma[p]
           /\ t.cut = Cuts(t.vma, s.cut)
           /\ \A p \in Page : t.val[p] = IF p \in P THEN Zero ELSE s.val[p]
           /\ t.paged = s.paged \ P /\ t.sd = s.sd \ P /\ t.fresh = s.fresh \ P
<1>1. /\ t.vma = [p \in Page |-> IF p \in P THEN Unmapped ELSE s.vma[p]]
      /\ t.cut = Cuts(t.vma, s.cut)
      /\ t.val = [p \in Page |-> IF p \in P THEN Zero ELSE s.val[p]]
      /\ t.paged = s.paged \ P /\ t.sd = s.sd \ P /\ t.fresh = s.fresh \ P
      /\ t = [vma |-> t.vma, cut |-> t.cut, val |-> t.val, paged |-> t.paged,
              sd |-> t.sd, fresh |-> t.fresh]
  BY DEF Munmap
<1>2. t.vma \in [Page -> Attr \cup {Unmapped}]
  BY <1>1, SpaceFields
<1>3. t.val \in [Page -> Val]
  BY <1>1, SpaceFields, BackingTyped
<1>4. t.cut \in SUBSET Page /\ t.paged \in SUBSET Page /\ t.sd \in SUBSET Page
      /\ t.fresh \in SUBSET Page
  BY <1>1, SpaceFields DEF Cuts
<1>5. t \in Space
  BY <1>1, <1>2, <1>3, <1>4, SpaceMade
<1> QED
  BY <1>1, <1>5

\* What t is to s after a mapping of P: its pages are mapped, have no frame
\* and are soft-dirty.
WithNew(s, P, a, t) ==
    /\ t \in Space
    /\ \A p \in Page : t.vma[p] = IF p \in P THEN a[p] ELSE s.vma[p]
    /\ \A p \in Page : t.val[p] = IF p \in P THEN Backing(a[p]) ELSE s.val[p]
    /\ t.paged = s.paged \ P /\ t.sd = s.sd \ P
    /\ s.fresh \ P \subseteq t.fresh /\ P \subseteq t.fresh

LEMMA MapNewFacts ==
    ASSUME NEW s \in Space, NEW P \in SUBSET Page, NEW a, \A p \in P : a[p] \in Attr,
           Unmapped \notin Attr, NEW cut \in SUBSET Page,
           NEW t, t = MapNew(s, P, a, cut)
    PROVE  WithNew(s, P, a, t) /\ t.cut = cut
<1> DEFINE vma == [p \in Page |-> IF p \in P THEN a[p] ELSE s.vma[p]]
           val == [p \in Page |-> IF p \in P THEN Backing(a[p]) ELSE s.val[p]]
           u == [vma |-> vma, cut |-> cut, val |-> val,
                 paged |-> s.paged \ P, sd |-> s.sd \ P, fresh |-> s.fresh \ P]
           new == UNION {AreaOf(u, p) : p \in P}
<1>1. t = [u EXCEPT !.fresh = @ \cup new]
  BY DEF MapNew
<1>2. new \subseteq Page
  BY DEF AreaOf, Mapped
<1>3. P \subseteq new
  <2> SUFFICES ASSUME NEW p \in P PROVE p \in AreaOf(u, p)
    OBVIOUS
  <2>1. p \in Page /\ u.vma[p] # Unmapped
    OBVIOUS
  <2>2. \A x \in Page : ~ ((p < x /\ x <= p) \/ (p < x /\ x <= p))
    BY <2>1 DEF Page
  <2> QED
    BY <2>1, <2>2 DEF AreaOf, Mapped
<1> HIDE DEF new
<1>4. /\ t.vma = vma /\ t.cut = cut /\ t.val = val
      /\ t.paged = s.paged \ P /\ t.sd = s.sd \ P /\ t.fresh = (s.fresh \ P) \cup new
      /\ t = [vma |-> t.vma, cut |-> t.cut, val |-> t.val, paged |-> t.paged,
              sd |-> t.sd, fresh |-> t.fresh]
  BY <1>1
<1>5. t.vma \in [Page -> Attr \cup {Unmapped}]
  BY <1>4, SpaceFields
<1>6. t.val \in [Page -> Val]
  BY <1>4, SpaceFields, BackingTyped
<1>7. t.cut \in SUBSET Page /\ t.paged \in SUBSET Page /\ t.sd \in SUBSET Page
      /\ t.fresh \in SUBSET Page
  BY <1>2, <1>4, SpaceFields
<1>8. t \in Space
  BY <1>4, <1>5, <1>6, <1>7, SpaceMade
<1> QED
  BY <1>3, <1>4, <1>8 DEF WithNew

\* What t is to s after a protection of P.
WithProt(s, P, a, t) ==
    /\ t \in Space
    /\ \A p \in Page \ P : t.vma[p] = s.vma[p]
    /\ \A p \in P : t.vma[p] \in Attr /\ t.vma[p].tag = s.vma[p].tag
                     /\ t.vma[p].prot = a[p]
    /\ t.val = s.val /\ t.paged = s.paged /\ t.sd = s.sd /\ t.fresh = s.fresh

LEMMA ProtectFacts ==
    ASSUME NEW s \in Space, NEW P \in SUBSET Mapped(s), NEW a, \A p \in P : a[p] \in Prot,
           NEW cut \in SUBSET Page, NEW t, t = Protect(s, P, a, cut)
    PROVE  WithProt(s, P, a, t) /\ t.cut = cut
<1> DEFINE vma == [p \in Page |-> IF p \in P THEN [s.vma[p] EXCEPT !.prot = a[p]]
                                  ELSE s.vma[p]]
<1>1. \A p \in P : p \in Page /\ s.vma[p] \in Attr
  BY SpaceFields DEF Mapped
<1>2. \A p \in P : vma[p] \in Attr /\ vma[p].tag = s.vma[p].tag /\ vma[p].prot = a[p]
  BY <1>1 DEF Attr
<1>3. vma \in [Page -> Attr \cup {Unmapped}]
  BY <1>2, SpaceFields
<1> HIDE DEF vma
<1>4. t = [s EXCEPT !.vma = vma, !.cut = cut]
  BY DEF Protect, vma
<1>5. /\ t.vma = vma /\ t.cut = cut /\ t.val = s.val /\ t.paged = s.paged
      /\ t.sd = s.sd /\ t.fresh = s.fresh
      /\ t = [vma |-> t.vma, cut |-> t.cut, val |-> t.val, paged |-> t.paged,
              sd |-> t.sd, fresh |-> t.fresh]
  BY <1>4, SpaceFields
<1>6. t.vma \in [Page -> Attr \cup {Unmapped}] /\ t.cut \in SUBSET Page
  BY <1>3, <1>5
<1>7. /\ t.val \in [Page -> Val] /\ t.paged \in SUBSET Page
      /\ t.sd \in SUBSET Page /\ t.fresh \in SUBSET Page
  BY <1>5, SpaceFields
<1>8. t \in Space
  BY <1>5, <1>6, <1>7, SpaceMade
<1> QED
  BY <1>2, <1>5, <1>8 DEF vma, WithProt

LEMMA DontNeedFacts ==
    ASSUME NEW s \in Space, NEW P, NEW t, t = DontNeed(s, P)
    PROVE  /\ t \in Space /\ t.vma = s.vma /\ t.cut = s.cut /\ t.fresh = s.fresh
           /\ \A p \in Page : t.val[p] = IF p \in P THEN Backing(s.vma[p]) ELSE s.val[p]
           /\ t.paged = s.paged \ P /\ t.sd = s.sd \ P
<1> DEFINE val == [p \in Page |-> IF p \in P THEN Backing(s.vma[p]) ELSE s.val[p]]
<1>1. val \in [Page -> Val]
  BY SpaceFields, BackingTyped
<1>2. \A p \in Page : val[p] = IF p \in P THEN Backing(s.vma[p]) ELSE s.val[p]
  OBVIOUS
<1>3. t = [s EXCEPT !.val = val, !.paged = @ \ P, !.sd = @ \ P]
  BY DEF DontNeed
<1> HIDE DEF val
<1>4. /\ t.vma = s.vma /\ t.cut = s.cut /\ t.fresh = s.fresh /\ t.val = val
      /\ t.paged = s.paged \ P /\ t.sd = s.sd \ P
      /\ t = [vma |-> t.vma, cut |-> t.cut, val |-> t.val, paged |-> t.paged,
              sd |-> t.sd, fresh |-> t.fresh]
  BY <1>3, SpaceFields
<1>5. /\ t.vma \in [Page -> Attr \cup {Unmapped}] /\ t.cut \in SUBSET Page
      /\ t.paged \in SUBSET Page /\ t.sd \in SUBSET Page /\ t.fresh \in SUBSET Page
  BY <1>4, SpaceFields
<1>6. t \in Space
  BY <1>1, <1>4, <1>5, SpaceMade
<1> QED
  BY <1>2, <1>4, <1>6

WithStored(s, P, v, t) ==
    /\ t \in Space /\ t.vma = s.vma /\ t.cut = s.cut /\ t.fresh = s.fresh
    /\ \A p \in Page : t.val[p] = IF p \in P THEN v[p] ELSE s.val[p]
    /\ t.paged = s.paged \cup P /\ t.sd = s.sd \cup P

LEMMA StoreFacts ==
    ASSUME NEW s \in Space, NEW P \in SUBSET Page, NEW v, \A p \in P : v[p] \in Val,
           NEW t, t = Store(s, P, v)
    PROVE  WithStored(s, P, v, t)
<1> DEFINE val == [p \in Page |-> IF p \in P THEN v[p] ELSE s.val[p]]
<1>1. val \in [Page -> Val]
  BY SpaceFields
<1>2. \A p \in Page : val[p] = IF p \in P THEN v[p] ELSE s.val[p]
  OBVIOUS
<1>3. t = [s EXCEPT !.val = val, !.paged = @ \cup P, !.sd = @ \cup P]
  BY DEF Store
<1> HIDE DEF val
<1>4. /\ t.vma = s.vma /\ t.cut = s.cut /\ t.fresh = s.fresh /\ t.val = val
      /\ t.paged = s.paged \cup P /\ t.sd = s.sd \cup P
      /\ t = [vma |-> t.vma, cut |-> t.cut, val |-> t.val, paged |-> t.paged,
              sd |-> t.sd, fresh |-> t.fresh]
  BY <1>3, SpaceFields
<1>5. /\ t.vma \in [Page -> Attr \cup {Unmapped}] /\ t.cut \in SUBSET Page
      /\ t.paged \in SUBSET Page /\ t.sd \in SUBSET Page /\ t.fresh \in SUBSET Page
  BY <1>4, SpaceFields
<1>6. t \in Space
  BY <1>1, <1>4, <1>5, SpaceMade
<1> QED
  BY <1>2, <1>4, <1>6 DEF WithStored

LEMMA LoadFacts ==
    ASSUME NEW s \in Space, NEW p \in Page, NEW t, t = Load(s, p)
    PROVE  /\ t \in Space /\ t.vma = s.vma /\ t.cut = s.cut /\ t.fresh = s.fresh
           /\ t.val = s.val /\ t.paged = s.paged \cup {p} /\ t.sd = s.sd
<1>1. t = [s EXCEPT !.paged = @ \cup {p}]
  BY DEF Load
<1>2. /\ t.vma = s.vma /\ t.cut = s.cut /\ t.fresh = s.fresh
      /\ t.val = s.val /\ t.paged = s.paged \cup {p} /\ t.sd = s.sd
      /\ t = [vma |-> t.vma, cut |-> t.cut, val |-> t.val, paged |-> t.paged,
              sd |-> t.sd, fresh |-> t.fresh]
  BY <1>1, SpaceFields
<1>3. /\ t.vma \in [Page -> Attr \cup {Unmapped}] /\ t.cut \in SUBSET Page
      /\ t.val \in [Page -> Val]
      /\ t.paged \in SUBSET Page /\ t.sd \in SUBSET Page /\ t.fresh \in SUBSET Page
  BY <1>2, SpaceFields
<1>4. t \in Space
  BY <1>2, <1>3, SpaceMade
<1> QED
  BY <1>2, <1>4

-------------------------------------------------------------------------------
(* Boundaries between areas that differ in nothing. *)

LEMMA MunmapCuts ==
    ASSUME NEW s \in Space, CutsAllowed(s), NEW P, NEW t, t = Munmap(s, P)
    PROVE  CutsAllowed(t)
<1>1. /\ \A p \in Page : t.vma[p] = IF p \in P THEN Unmapped ELSE s.vma[p]
      /\ t.cut = Cuts(t.vma, s.cut)
  BY MunmapFacts
<1>2. ASSUME NEW p \in t.cut
      PROVE  p > 0 /\ t.vma[p] = t.vma[p - 1] /\ t.vma[p].tag = "anon"
  <2>1. p \in s.cut /\ p \in Page /\ p > 0 /\ t.vma[p] # Unmapped /\ t.vma[p] = t.vma[p - 1]
    BY <1>1 DEF Cuts
  <2>2. t.vma[p] = s.vma[p]
    BY <1>1, <2>1
  <2> QED
    BY <2>1, <2>2 DEF CutsAllowed
<1> QED
  BY <1>2 DEF CutsAllowed

LEMMA MmapFacts ==
    ASSUME NEW s \in Space, CutsAllowed(s), NEW P \in SUBSET Page, NEW a,
           \A p \in P : a[p] \in Attr, \A p \in P : a[p].tag = "anon",
           Unmapped \notin Attr, NEW t \in Mmap(s, P, a)
    PROVE  WithNew(s, P, a, t) /\ CutsAllowed(t)
<1> DEFINE vma == [p \in Page |-> IF p \in P THEN a[p] ELSE s.vma[p]]
<1>1. PICK c \in Boundaries(s, vma, P) : t = MapNew(s, P, a, c)
  BY DEF Mmap
<1> HIDE DEF vma
<1>2. c \subseteq Cuts(vma, s.cut \ (P \cup {p + 1 : p \in P}))
                    \cup Cuts(vma, P \cup {p + 1 : p \in P})
  BY DEF Boundaries
<1>3. c \in SUBSET Page
  BY <1>2 DEF Cuts
<1>4. WithNew(s, P, a, t) /\ t.cut = c
  BY <1>1, <1>3, MapNewFacts
<1>8. \A p \in Page : vma[p] = t.vma[p]
  BY <1>4 DEF vma, WithNew
<1>5. ASSUME NEW p \in c
      PROVE  p > 0 /\ vma[p] = vma[p - 1] /\ vma[p].tag = "anon"
  <2>1. p \in Page /\ p > 0 /\ vma[p] = vma[p - 1]
    BY <1>2 DEF Cuts
  <2>2. CASE p \in P
    BY <2>1, <2>2 DEF vma
  <2>3. CASE p \notin P /\ p \in s.cut
    BY <2>1, <2>3 DEF vma, CutsAllowed
  <2>4. CASE \E q \in P : p = q + 1
    <3>1. p - 1 \in P
      BY <2>4 DEF Page
    <3>2. vma[p - 1].tag = "anon"
      BY <3>1 DEF vma
    <3> QED
      BY <2>1, <3>2
  <2>5. p \in P \/ p \in s.cut \/ \E q \in P : p = q + 1
    BY <1>2 DEF Cuts
  <2> QED
    BY <2>1, <2>2, <2>3, <2>4, <2>5
<1>6. \A p \in c : p \in Page /\ (p > 0 => p - 1 \in Page)
  BY <1>3, PageAssumption DEF Page
<1>7. CutsAllowed(t)
  BY <1>4, <1>8, <1>5, <1>6 DEF CutsAllowed
<1> QED
  BY <1>4, <1>7

\* mprotect: what it protects does not end in the middle of the heap or of a
\* file.
EndsFreely(s, P) ==
    \A p \in Page : /\ p > 0 /\ ~ (p \in P <=> p - 1 \in P)
                    /\ s.vma[p].tag = s.vma[p - 1].tag
        => s.vma[p].tag \in {"anon", "unmapped"}

LEMMA MprotectFacts ==
    ASSUME NEW s \in Space, CutsAllowed(s), NEW P \in SUBSET Mapped(s), NEW a,
           \A p \in P : a[p] \in Prot, "unmapped" \notin Tag, EndsFreely(s, P),
           NEW t \in Mprotect(s, P, a)
    PROVE  WithProt(s, P, a, t) /\ CutsAllowed(t)
<1> DEFINE vma == [p \in Page |-> IF p \in P THEN [s.vma[p] EXCEPT !.prot = a[p]]
                                  ELSE s.vma[p]]
<1>1. PICK c \in Boundaries(s, vma, P) : t = Protect(s, P, a, c)
  BY DEF Mprotect
<1> DEFINE free == Cuts(vma, P \cup {p + 1 : p \in P})
           edge == {p \in free : p \in s.cut \/ (p \in P /\ p - 1 \notin P)
                                             \/ (p \notin P /\ p - 1 \in P)}
<1>2. c \subseteq Cuts(vma, s.cut \ (P \cup {p + 1 : p \in P})) \cup edge
  BY DEF Boundaries
<1> HIDE DEF vma
<1>3. \A p \in c : /\ p \in Page /\ p > 0 /\ vma[p] # Unmapped /\ vma[p] = vma[p - 1]
                   /\ \/ p \in s.cut
                      \/ ~ (p \in P <=> p - 1 \in P)
  BY <1>2 DEF Cuts
<1>4. c \in SUBSET Page
  BY <1>3
<1>5. WithProt(s, P, a, t) /\ t.cut = c
  BY <1>1, <1>4, ProtectFacts
<1>6. \A p \in Page : t.vma[p].tag = s.vma[p].tag /\ vma[p] = t.vma[p]
  <2> SUFFICES ASSUME NEW p \in Page PROVE t.vma[p].tag = s.vma[p].tag /\ vma[p] = t.vma[p]
    OBVIOUS
  <2>1. CASE p \in P
    <3>1. s.vma[p] \in Attr
      BY <2>1, SpaceFields DEF Mapped
    <3>2. vma[p] = [s.vma[p] EXCEPT !.prot = a[p]]
      BY <2>1 DEF vma
    <3> QED
      BY <1>5, <2>1, <3>1, <3>2 DEF Attr, WithProt
  <2>2. CASE p \notin P
    BY <1>5, <2>2 DEF vma, WithProt
  <2> QED
    BY <2>1, <2>2
<1>7. ASSUME NEW p \in c
      PROVE  /\ p > 0 /\ t.vma[p] = t.vma[p - 1]
             /\ t.vma[p].tag = "anon"
  <2>1. /\ p \in Page /\ p - 1 \in Page /\ p > 0
        /\ t.vma[p] # Unmapped /\ t.vma[p] = t.vma[p - 1]
    <3>1. p \in Page /\ p - 1 \in Page /\ p > 0
      BY <1>3, PageAssumption DEF Page
    <3> QED
      BY <1>3, <1>6, <3>1
  <2>2. CASE p \in s.cut
    BY <1>6, <2>1, <2>2 DEF CutsAllowed
  <2>3. CASE ~ (p \in P <=> p - 1 \in P)
    <3>1. s.vma[p].tag = s.vma[p - 1].tag
      BY <1>6, <2>1
    <3>2. s.vma[p].tag \in {"anon", "unmapped"}
      BY <2>1, <2>3, <3>1 DEF EndsFreely
    <3>3. PICK q \in P : t.vma[q] = t.vma[p] /\ q \in Page
      BY <2>1, <2>3
    <3>4. t.vma[q].tag \in Tag
      BY <1>5, <3>3 DEF Attr, WithProt
    <3> QED
      BY <1>6, <2>1, <3>2, <3>3, <3>4
  <2> QED
    BY <1>3, <2>2, <2>3
<1>8. CutsAllowed(t)
  BY <1>5, <1>7 DEF CutsAllowed
<1> QED
  BY <1>5, <1>8

-------------------------------------------------------------------------------
(* What the function leaves of the layout s of the checkpoint. *)

\* Outside of MapArea and of the heap it leaves what was there as it was, and
\* adds only to the heap and the stack; inside there is neither of these.
KeptOutside(s, c) ==
    \A p \in Page \ MapArea : p \in Mapped(s) /\ s.vma[p].tag # "[heap]" =>
        c.vma[p] = s.vma[p]
NewOutside(s, c) ==
    \A p \in Page \ MapArea : p \notin Mapped(s) => p \notin Mapped(c) \/ SpecialAt(c, p)
PlainInside(c) == \A p \in MapArea : c.vma[p].tag \in {"anon", "file", "unmapped"}

\* The heap is in one piece, nothing else took its place, and it has the pages
\* that it had or is HeapAttr wherever it is.
HeapMoved(s, c) ==
    /\ HeapInOnePiece(c)
    /\ \A p \in Tagged(s, "[heap]") : p \notin Mapped(c) \/ c.vma[p].tag = "[heap]"
    /\ \/ Tagged(c, "[heap]") = Tagged(s, "[heap]")
       \/ \A p \in Tagged(c, "[heap]") : c.vma[p] = HeapAttr

\* The stack has the same end, and starts where it did or below.
StackGrown(s, c) ==
    \E b, a, e \in StackMin..LastPage :
        b <= a /\ a <= e /\ Tagged(s, "[stack]") = a..e /\ Tagged(c, "[stack]") = b..e

Laid(s, c) ==
    /\ KeptOutside(s, c) /\ NewOutside(s, c) /\ PlainInside(c)
    /\ Tagged(c, "file") = Tagged(s, "file")
    /\ HeapMoved(s, c) /\ StackGrown(s, c)
    /\ Fused(c, "file") /\ Fused(c, "[heap]") /\ Fused(c, "[stack]") /\ CutsAllowed(c)

LEMMA TagKnown ==
    ASSUME Tame, NEW s \in Space, NEW p \in Page
    PROVE  /\ s.vma[p].tag \in {"anon", "file", "[heap]", "[stack]", "unmapped"}
           /\ p \notin Mapped(s) <=> s.vma[p].tag = "unmapped"
           /\ p \notin Mapped(s) <=> s.vma[p] = Unmapped
           /\ p \in Mapped(s) => s.vma[p] \in Attr
<1>1. s.vma[p] \in Attr \cup {Unmapped} /\ Unmapped.tag = "unmapped"
  BY SpaceFields DEF Unmapped
<1>2. \A a \in Attr : a.tag \in {"anon", "file", "[heap]", "[stack]"}
  BY DEF Attr, Tame
<1>3. p \notin Mapped(s) <=> s.vma[p] = Unmapped
  BY DEF Mapped
<1> QED
  BY <1>1, <1>2, <1>3

\* The heap and the stack are outside the area for mappings, and apart.
LEMMA PlacesApart ==
    ASSUME Tame, NEW s, HeapInOnePiece(s) \/ TameSpace(s), NEW p \in Tagged(s, "[heap]")
    PROVE  p \in Page /\ p \notin MapArea /\ p \notin StackMin..LastPage
<1>1. HeapInOnePiece(s)
  BY DEF TameSpace
<1>2. PICK e \in (HeapStart + 1)..HeapMax : Tagged(s, "[heap]") = HeapStart..(e - 1)
  BY <1>1 DEF HeapInOnePiece
<1>3. p \in HeapStart..(HeapMax - 1) /\ p < HeapMax
  BY <1>2, PageAssumption, RestoreAssumption DEF Page
<1> QED
  BY <1>3, PageAssumption, RestoreAssumption DEF Tame, Tagged, Page

LEMMA StackApart ==
    ASSUME Tame, NEW s, StackInOnePiece(s), NEW p \in Tagged(s, "[stack]")
    PROVE  p \in Page /\ p \notin MapArea /\ p \in StackMin..LastPage
<1>1. p \in StackMin..LastPage
  BY PageAssumption, RestoreAssumption DEF StackInOnePiece, Page
<1> QED
  BY <1>1 DEF Tame, Tagged

\* What may have become of a page.
LEMMA PageCases ==
    ASSUME Tame, NEW s \in Space, TameSpace(s), NEW c \in Space, Laid(s, c), NEW p \in Page
    PROVE  \/ c.vma[p] = s.vma[p]
           \/ /\ p \in MapArea /\ s.vma[p].tag \in {"anon", "file"}
              /\ c.vma[p].tag = s.vma[p].tag
           \/ p \in MapArea /\ s.vma[p].tag = "anon" /\ c.vma[p] = Unmapped
           \/ p \in MapArea /\ s.vma[p] = Unmapped /\ c.vma[p].tag = "anon"
           \/ p \notin MapArea /\ s.vma[p] = Unmapped /\ SpecialAt(c, p)
           \/ p \notin MapArea /\ s.vma[p].tag = "[heap]" /\ c.vma[p].tag = "[heap]"
           \/ p \notin MapArea /\ s.vma[p].tag = "[heap]" /\ c.vma[p] = Unmapped
<1>1. /\ s.vma[p].tag \in {"anon", "file", "[heap]", "[stack]", "unmapped"}
      /\ p \notin Mapped(s) <=> s.vma[p].tag = "unmapped"
      /\ p \notin Mapped(s) <=> s.vma[p] = Unmapped
      /\ p \notin Mapped(c) <=> c.vma[p].tag = "unmapped"
      /\ p \notin Mapped(c) <=> c.vma[p] = Unmapped
  BY TagKnown
<1>2. s.vma[p].tag = "file" <=> c.vma[p].tag = "file"
  BY DEF Laid, Tagged
<1>3. CASE p \in MapArea
  <2>1. c.vma[p].tag \in {"anon", "file", "unmapped"}
    BY <1>3 DEF Laid, PlainInside
  <2>2. s.vma[p].tag # "[heap]"
    BY <1>3, PlacesApart DEF Tagged
  <2>3. s.vma[p].tag # "[stack]"
    BY <1>3, StackApart DEF Tagged, TameSpace
  <2> QED
    BY <1>1, <1>2, <1>3, <2>1, <2>2, <2>3
<1>4. CASE p \notin MapArea
  <2>1. CASE p \notin Mapped(s)
    <3>1. p \notin Mapped(c) \/ SpecialAt(c, p)
      BY <1>4, <2>1 DEF Laid, NewOutside
    <3> QED
      BY <1>1, <1>4, <2>1, <3>1
  <2>2. CASE p \in Mapped(s) /\ s.vma[p].tag # "[heap]"
    BY <1>4, <2>2 DEF Laid, KeptOutside
  <2>3. CASE s.vma[p].tag = "[heap]"
    <3>1. p \notin Mapped(c) \/ c.vma[p].tag = "[heap]"
      BY <2>3 DEF Laid, HeapMoved, Tagged
    <3> QED
      BY <1>1, <1>4, <2>3, <3>1
  <2> QED
    BY <2>1, <2>2, <2>3
<1> QED
  BY <1>3, <1>4

-------------------------------------------------------------------------------
(* The restore of the layout, stage by stage: s is the checkpointed space, c  *)
(* the space when the restore began, I and F the maps of the two.             *)

Held(s, c, I, F) == c \in Space /\ Laid(s, c) /\ IsPicture(s, I) /\ IsPicture(c, F)

Cleared(c, I, F, p) ==
    IF p \in Mapped(c) /\ ~SpecialAt(c, p) /\ ~Paired(I, F, p) THEN Unmapped ELSE c.vma[p]

Remade(s, c, I, F, p) ==
    IF p \in Mapped(s) /\ ~SpecialAt(s, p) /\ ~Paired(I, F, p) THEN s.vma[p]
    ELSE Cleared(c, I, F, p)

Reprotected(s, c, p) ==
    IF p \notin Mapped(s) THEN (IF SpecialAt(c, p) THEN c.vma[p] ELSE Unmapped)
    ELSE IF s.vma[p].tag = "[heap]" /\ p \notin Mapped(c) THEN Unmapped ELSE s.vma[p]

HeapBack(s, c, p) ==
    IF p \in Mapped(s) THEN s.vma[p]
    ELSE IF c.vma[p].tag = "[stack]" THEN c.vma[p] ELSE Unmapped

LEMMA ToCleared ==
    ASSUME NEW s, NEW c, NEW I, NEW F, Held(s, c, I, F),
           NEW t, t = Munmap(c, Span({m \in MissingFrom(F, I) : ~Special(m)})),
           NEW p \in Page
    PROVE  t.vma[p] = Cleared(c, I, F, p)
<1> DEFINE P == Span({m \in MissingFrom(F, I) : ~Special(m)})
<1>1. P = {q \in Mapped(c) : ~SpecialAt(c, q) /\ ~Paired(F, I, q)}
  BY MissingPages DEF Held
<1>2. Paired(F, I, p) <=> Paired(I, F, p)
  BY PairedBothWays
<1> HIDE DEF P
<1>3. t = Munmap(c, P) /\ c \in Space
  BY DEF P, Held
<1>4. t.vma[p] = IF p \in P THEN Unmapped ELSE c.vma[p]
  BY <1>3, MunmapFacts
<1>5. p \in P <=> p \in Mapped(c) /\ ~SpecialAt(c, p) /\ ~Paired(I, F, p)
  BY <1>1, <1>2
<1> QED
  BY <1>4, <1>5 DEF Cleared

\* Files are never lost: what comes back is anonymous memory.
LEMMA UnpairedIsAnonymous ==
    ASSUME Tame, NEW s \in Space, TameSpace(s), NEW c, NEW I, NEW F, Held(s, c, I, F),
           NEW p \in Mapped(s), ~SpecialAt(s, p), ~Paired(I, F, p)
    PROVE  s.vma[p].tag = "anon" /\ s.vma[p] = [prot |-> s.vma[p].prot, tag |-> "anon"]
<1>1. p \in Page /\ s.vma[p] \in Attr
  BY TagKnown DEF Mapped
<1>2. p \notin Tagged(s, "file")
  BY TagPaired DEF Held, Laid, TameSpace
<1>3. s.vma[p].tag = "anon"
  BY <1>1, <1>2, TagKnown DEF SpecialAt, Tagged
<1> QED
  BY <1>1, <1>3 DEF Attr

ClearedIn(x, c, I, F) == \A p \in Page : x.vma[p] = Cleared(c, I, F, p)
RemadeIn(x, s, c, I, F) == \A p \in Page : x.vma[p] = Remade(s, c, I, F, p)
ReprotectedIn(x, s, c) == \A p \in Page : x.vma[p] = Reprotected(s, c, p)
HeapBackIn(x, s, c) == \A p \in Page : x.vma[p] = HeapBack(s, c, p)

\* The maps that restore_removed_memory brings back, and what it maps there.
MapsBack(I, F) == {m \in MissingFrom(I, F) : ~Special(m)}
AsAnon(M) == [p \in Page |-> [prot |-> ProtIn(M)[p], tag |-> "anon"]]
AllAttr(P, a) == \A p \in P : a[p] \in Attr

LEMMA ToRemade ==
    ASSUME Tame, NEW s \in Space, TameSpace(s), NEW c, NEW I, NEW F, Held(s, c, I, F),
           NEW x \in Space, CutsAllowed(x), ClearedIn(x, c, I, F),
           NEW back, back = MapsBack(I, F), NEW a, a = AsAnon(back),
           NEW t \in Mmap(x, Span(back), a)
    PROVE  /\ WithNew(x, Span(back), a, t) /\ CutsAllowed(t)
           /\ RemadeIn(t, s, c, I, F)
           /\ Span(back) \in SUBSET Page /\ AllAttr(Span(back), a)
<1> DEFINE P == Span(back)
<1>1. P = {q \in Mapped(s) : ~SpecialAt(s, q) /\ ~Paired(I, F, q)}
  BY MissingPages DEF Held, MapsBack
<1>2. \A p \in P : p \in Page /\ a[p] = s.vma[p] /\ a[p] \in Attr /\ a[p].tag = "anon"
  <2> SUFFICES ASSUME NEW p \in P
               PROVE  p \in Page /\ a[p] = s.vma[p] /\ a[p] \in Attr /\ a[p].tag = "anon"
    OBVIOUS
  <2>1. p \in Mapped(s) /\ p \in Page /\ ~SpecialAt(s, p) /\ ~Paired(I, F, p)
    BY <1>1 DEF Mapped
  <2>2. s.vma[p].tag = "anon" /\ s.vma[p] = [prot |-> s.vma[p].prot, tag |-> "anon"]
    BY <2>1, UnpairedIsAnonymous
  <2>3. ProtIn(back)[p] = s.vma[p].prot
    BY <2>1, RemovedTo DEF Held, MapsBack
  <2>4. s.vma[p] \in Attr
    BY <2>1, TagKnown
  <2> QED
    BY <2>1, <2>2, <2>3, <2>4 DEF AsAnon
<1>3. Unmapped \notin Attr
  BY DEF Unmapped, Attr, Tame
<1> HIDE DEF P
<1>4. P \in SUBSET Page /\ t \in Mmap(x, P, a)
  BY <1>2 DEF P
<1>5. (\A p \in P : a[p] \in Attr) /\ (\A p \in P : a[p].tag = "anon")
  BY <1>2
<1>6. WithNew(x, P, a, t) /\ CutsAllowed(t)
  BY <1>3, <1>4, <1>5, MmapFacts
<1>7. ASSUME NEW p \in Page PROVE t.vma[p] = Remade(s, c, I, F, p)
  <2>1. t.vma[p] = IF p \in P THEN a[p] ELSE x.vma[p]
    BY <1>6 DEF WithNew
  <2>2. p \in P <=> p \in Mapped(s) /\ ~SpecialAt(s, p) /\ ~Paired(I, F, p)
    BY <1>1
  <2> QED
    BY <1>2, <2>1, <2>2 DEF Remade, ClearedIn
<1> QED
  BY <1>4, <1>5, <1>6, <1>7 DEF P, RemadeIn, AllAttr

\* Both states map a paired page, and agree on its backing.
LEMMA PairedAlike ==
    ASSUME Tame, NEW s \in Space, TameSpace(s), NEW c, NEW I, NEW F, Held(s, c, I, F),
           NEW p \in Page, Paired(I, F, p)
    PROVE  /\ p \in Mapped(s) /\ p \in Mapped(c)
           /\ c.vma[p].tag = s.vma[p].tag
           /\ c.vma[p] # s.vma[p] => p \in MapArea \/ s.vma[p].tag = "[heap]"
<1>1. p \in Mapped(s)
  BY PairedMapped DEF Held
<1>2. p \in Mapped(c)
  BY PairedBothWays, PairedMapped DEF Held
<1>3. c.vma[p] # Unmapped /\ s.vma[p] # Unmapped
  BY <1>1, <1>2 DEF Mapped
<1>4. c \in Space /\ Laid(s, c)
  BY DEF Held
<1> QED
  BY <1>1, <1>2, <1>3, <1>4, PageCases

LEMMA AttrEqual ==
    ASSUME NEW a \in Attr, NEW b \in Attr, a.prot = b.prot, a.tag = b.tag PROVE a = b
  BY DEF Attr

\* After the first two stages the layout differs in protections and in the heap
\* and the stack only.
LEMMA RemadeCases ==
    ASSUME Tame, NEW s \in Space, TameSpace(s), NEW c, NEW I, NEW F, Held(s, c, I, F),
           NEW p \in Page
    PROVE  LET v == Remade(s, c, I, F, p) IN
           /\ Paired(I, F, p) => v = c.vma[p]
           /\ ~Paired(I, F, p) => v = Reprotected(s, c, p)
           /\ v.tag = "file" <=> s.vma[p].tag = "file"
           /\ v.tag = "[heap]" <=> c.vma[p].tag = "[heap]"
           /\ v.tag = "[stack]" <=> c.vma[p].tag = "[stack]"
<1> DEFINE v == Remade(s, c, I, F, p)
<1>1. c \in Space /\ Laid(s, c) /\ Unmapped.tag = "unmapped"
  BY DEF Held, Unmapped
<1>2. p \in Mapped(s) <=> s.vma[p] # Unmapped
  BY DEF Mapped
<1>3. p \in Mapped(c) <=> c.vma[p] # Unmapped
  BY DEF Mapped
<1>4. CASE Paired(I, F, p)
  <2>1. c.vma[p].tag = s.vma[p].tag
    BY <1>4, PairedAlike
  <2>2. v = c.vma[p]
    BY <1>4 DEF Remade, Cleared
  <2> QED
    BY <1>4, <2>1, <2>2
<1>5. CASE ~Paired(I, F, p)
  <2>1. s.vma[p].tag # "file"
    BY <1>5, TagPaired DEF Held, Laid, TameSpace, Tagged
  <2>2. s.vma[p].tag = "[heap]" /\ c.vma[p].tag = "[heap]" => c.vma[p] = s.vma[p]
    <3> SUFFICES ASSUME s.vma[p].tag = "[heap]", c.vma[p].tag = "[heap]"
                 PROVE  c.vma[p] = s.vma[p]
      OBVIOUS
    <3>1. s.vma[p] = HeapAttr /\ \A q \in Tagged(s, "[heap]") : s.vma[q] = HeapAttr
      BY DEF TameSpace, Tagged
    <3>2. Fused(s, "[heap]")
      BY <3>1, PageAssumption DEF Fused, Tagged, Page
    <3>3. Tagged(c, "[heap]") # Tagged(s, "[heap]")
      BY <1>5, <3>2, TagPaired DEF Held, Laid, TameSpace, Tagged
    <3>4. \A q \in Tagged(c, "[heap]") : c.vma[q] = HeapAttr
      BY <1>1, <3>3 DEF Laid, HeapMoved
    <3> QED
      BY <3>1, <3>4 DEF Tagged
  <2>3. \/ c.vma[p] = s.vma[p]
        \/ p \in MapArea /\ s.vma[p].tag = "anon" /\ c.vma[p].tag = "anon"
        \/ p \in MapArea /\ s.vma[p].tag = "anon" /\ c.vma[p] = Unmapped
        \/ p \in MapArea /\ s.vma[p] = Unmapped /\ c.vma[p].tag = "anon"
        \/ p \notin MapArea /\ s.vma[p] = Unmapped /\ SpecialAt(c, p)
        \/ p \notin MapArea /\ s.vma[p].tag = "[heap]" /\ c.vma[p] = Unmapped
    BY <1>1, <2>1, <2>2, PageCases
  <2>4. v = Reprotected(s, c, p)
    BY <1>1, <1>2, <1>3, <1>5, <2>1, <2>3 DEF Remade, Cleared, Reprotected, SpecialAt
  <2> QED
    BY <1>1, <1>2, <1>3, <1>5, <2>1, <2>3, <2>4 DEF Remade, Cleared, SpecialAt
<1> QED
  BY <1>4, <1>5

\* The protections change for whole files and for the whole heap, if at all.
LEMMA ReprotectedTogether ==
    ASSUME Tame, NEW s \in Space, TameSpace(s), NEW c, NEW I, NEW F, Held(s, c, I, F),
           NEW T \in {"file", "[heap]", "[stack]"},
           NEW p \in Page, p > 0, p - 1 \in Page,
           c.vma[p].tag = T, c.vma[p - 1].tag = T,
           NEW P, P = {q \in Page : Paired(I, F, q) /\ s.vma[q].prot # c.vma[q].prot}
    PROVE  p \in P <=> p - 1 \in P
<1>1. /\ c \in Space /\ Laid(s, c) /\ IsPicture(s, I) /\ IsPicture(c, F)
      /\ CutsAllowed(c) /\ CutsAllowed(s) /\ Fused(c, T) /\ Fused(s, T)
  <2>1. \A q \in Tagged(s, "[heap]") : s.vma[q] = HeapAttr
    BY DEF TameSpace
  <2>2. Fused(s, "[heap]")
    BY <2>1, PageAssumption DEF Fused, Tagged, Page
  <2> QED
    BY <2>2 DEF Held, Laid, TameSpace
<1>2. CASE Tagged(s, T) = Tagged(c, T)
  <2>1. s.vma[p].tag = T /\ s.vma[p - 1].tag = T
    BY <1>2 DEF Tagged
  <2>2. c.vma[p] = c.vma[p - 1] /\ s.vma[p] = s.vma[p - 1]
    BY <1>1, <2>1 DEF Fused
  <2>3. Paired(I, F, p) /\ Paired(I, F, p - 1)
    BY <1>1, <1>2, <2>1, TagPaired DEF Tagged
  <2> QED
    BY <2>2, <2>3
<1>3. CASE Tagged(s, T) # Tagged(c, T)
  <2>1. \A q \in Tagged(c, T) : Paired(I, F, q) => s.vma[q] = c.vma[q]
    <3> SUFFICES ASSUME NEW q \in Tagged(c, T), Paired(I, F, q)
                 PROVE  s.vma[q] = c.vma[q]
      OBVIOUS
    <3>1. q \in Page /\ c.vma[q].tag = T /\ s.vma[q].tag = T
      BY PairedAlike DEF Tagged
    <3>2. CASE T = "[heap]"
      <4>1. c.vma[q] = HeapAttr
        BY <1>1, <1>3, <3>2 DEF Laid, HeapMoved
      <4>2. s.vma[q] = HeapAttr
        BY <3>1, <3>2 DEF TameSpace, Tagged
      <4> QED
        BY <4>1, <4>2
    <3>3. CASE T = "[stack]"
      <4>1. q \notin MapArea
        BY <3>1, <3>3, StackApart DEF TameSpace, Tagged
      <4> QED
        BY <3>1, <3>3, <4>1, PairedAlike
    <3> QED
      BY <1>1, <1>3, <3>2, <3>3 DEF Laid
  <2> QED
    BY <2>1 DEF Tagged
<1> QED
  BY <1>2, <1>3

LEMMA ToReprotected ==
    ASSUME Tame, NEW s \in Space, TameSpace(s), NEW c, NEW I, NEW F, Held(s, c, I, F),
           NEW x \in Space, CutsAllowed(x),
           RemadeIn(x, s, c, I, F), NEW R, R = ReprotectedMaps(I, F)
    PROVE  /\ Span(R) \in SUBSET Mapped(x)
           /\ \A t \in Mprotect(x, Span(R), ProtIn(R)) :
                /\ WithProt(x, Span(R), ProtIn(R), t) /\ CutsAllowed(t)
                /\ ReprotectedIn(t, s, c)
<1> DEFINE P == Span(R)
           a == ProtIn(R)
<1>1. P = {p \in Page : Paired(I, F, p) /\ s.vma[p].prot # c.vma[p].prot}
  BY ReprotectedPages DEF Held
<1>2. \A p \in P : a[p] = s.vma[p].prot
  BY <1>1, ReprotectedTo DEF Held
<1> HIDE DEF P, a
<1>3. ASSUME NEW p \in P
      PROVE  /\ p \in Page /\ Paired(I, F, p)
             /\ p \in Mapped(x) /\ x.vma[p] = c.vma[p] /\ x.vma[p] \in Attr
             /\ s.vma[p] \in Attr /\ s.vma[p].tag = x.vma[p].tag /\ a[p] \in Prot
  <2>1. p \in Page /\ Paired(I, F, p)
    BY <1>1
  <2>2. p \in Mapped(s) /\ p \in Mapped(c) /\ c.vma[p].tag = s.vma[p].tag
    BY <2>1, PairedAlike
  <2>3. s.vma[p] \in Attr /\ c.vma[p] \in Attr
    BY <2>1, <2>2, TagKnown DEF Held
  <2>4. x.vma[p] = c.vma[p]
    BY <2>1, RemadeCases DEF RemadeIn
  <2>5. a[p] \in Prot
    BY <1>2, <2>3 DEF Attr
  <2>6. p \in Mapped(x)
    BY <2>2, <2>4 DEF Mapped
  <2> QED
    BY <2>1, <2>2, <2>3, <2>4, <2>5, <2>6
<1>4. P \in SUBSET Mapped(x) /\ \A p \in P : a[p] \in Prot
  BY <1>3
<1>5. EndsFreely(x, P)
  <2> SUFFICES ASSUME NEW p \in Page, p > 0, ~ (p \in P <=> p - 1 \in P),
                      x.vma[p].tag = x.vma[p - 1].tag
               PROVE  x.vma[p].tag \in {"anon", "unmapped"}
    BY DEF EndsFreely
  <2>1. p - 1 \in Page
    BY PageAssumption DEF Page
  <2>2. PICK q \in {p, p - 1} : q \in P
    OBVIOUS
  <2>3. x.vma[q].tag = x.vma[p].tag /\ x.vma[q] = c.vma[q] /\ q \in Page
    BY <1>3, <2>1, <2>2
  <2>4. ASSUME NEW T \in {"file", "[heap]", "[stack]"}, x.vma[p].tag = T
        PROVE  FALSE
    <3>1. /\ x.vma[p] = Remade(s, c, I, F, p)
          /\ x.vma[p - 1] = Remade(s, c, I, F, p - 1)
      BY <2>1 DEF RemadeIn
    <3>2. /\ c.vma[p].tag = "file" <=> s.vma[p].tag = "file"
          /\ c.vma[p - 1].tag = "file" <=> s.vma[p - 1].tag = "file"
      BY <2>1 DEF Held, Laid, Tagged
    <3>3. c.vma[p].tag = T /\ c.vma[p - 1].tag = T
      <4>1. ASSUME NEW r \in Page, Remade(s, c, I, F, r).tag = T,
                   c.vma[r].tag = "file" <=> s.vma[r].tag = "file"
            PROVE  c.vma[r].tag = T
        BY <4>1, RemadeCases
      <4>2. x.vma[p].tag = T /\ x.vma[p - 1].tag = T
        BY <2>4
      <4> QED
        BY <2>1, <3>1, <3>2, <4>1, <4>2
    <3>4. p \in P <=> p - 1 \in P
      BY <1>1, <2>1, <3>3, ReprotectedTogether
    <3> QED
      BY <3>4
  <2>5. x.vma[p].tag \in {"anon", "file", "[heap]", "[stack]", "unmapped"}
    BY TagKnown
  <2> QED
    BY <2>4, <2>5
<1>6. "unmapped" \notin Tag
  BY DEF Tame
<1>7. ASSUME NEW t \in Mprotect(x, P, a)
      PROVE  /\ WithProt(x, P, a, t) /\ CutsAllowed(t)
             /\ \A p \in Page : t.vma[p] = Reprotected(s, c, p)
  <2>1. WithProt(x, P, a, t) /\ CutsAllowed(t)
    BY <1>4, <1>5, <1>6, MprotectFacts
  <2>2. ASSUME NEW p \in Page PROVE t.vma[p] = Reprotected(s, c, p)
    <3>1. CASE p \in P
      <4>1. t.vma[p] \in Attr /\ t.vma[p].tag = x.vma[p].tag /\ t.vma[p].prot = a[p]
        BY <2>1, <3>1 DEF WithProt
      <4>2. t.vma[p] = s.vma[p]
        BY <1>2, <1>3, <3>1, <4>1, AttrEqual
      <4>3. p \in Mapped(s) /\ p \in Mapped(c)
        BY <1>3, <3>1, PairedAlike
      <4> QED
        BY <4>2, <4>3 DEF Reprotected
    <3>2. CASE p \notin P /\ Paired(I, F, p)
      <4>1. p \in Mapped(s) /\ p \in Mapped(c) /\ c.vma[p].tag = s.vma[p].tag
        BY <3>2, PairedAlike
      <4>2. s.vma[p] \in Attr /\ c.vma[p] \in Attr
        BY <4>1, TagKnown DEF Held
      <4>3. s.vma[p].prot = c.vma[p].prot
        BY <1>1, <3>2
      <4>4. s.vma[p] = c.vma[p]
        BY <4>1, <4>2, <4>3, AttrEqual
      <4>5. t.vma[p] = x.vma[p]
        BY <2>1, <3>2 DEF WithProt
      <4>6. x.vma[p] = c.vma[p]
        BY <3>2, RemadeCases DEF RemadeIn
      <4> QED
        BY <4>1, <4>4, <4>5, <4>6 DEF Reprotected
    <3>3. CASE ~Paired(I, F, p)
      <4>1. t.vma[p] = x.vma[p]
        BY <1>1, <2>1, <3>3 DEF WithProt
      <4> QED
        BY <3>3, <4>1, RemadeCases DEF RemadeIn
    <3> QED
      BY <3>1, <3>2, <3>3
  <2> QED
    BY <2>1, <2>2
<1> QED
  BY <1>4, <1>7 DEF P, a, ReprotectedIn

-------------------------------------------------------------------------------
(* The break and the stack. *)

\* The heap is in one piece: of its maps only the last is followed by another.
LEMMA HeapEndIs ==
    ASSUME NEW s, NEW M, IsPicture(s, M), NEW e \in (HeapStart + 1)..HeapMax,
           Tagged(s, "[heap]") = HeapStart..(e - 1),
           NEW above \in Mapped(s), above >= e
    PROVE  HeapEnd(M) = e
<1>1. /\ e \in Nat /\ e - 1 \in Page /\ e - 1 \in Tagged(s, "[heap]")
      /\ HeapStart \in Nat /\ \A q \in Page : q \in Nat
  BY PageAssumption, RestoreAssumption DEF Page
<1>2. \A n \in M : /\ n.addr_start \in Nat /\ n.addr_end \in Nat
                   /\ n.addr_start < n.addr_end /\ n.addr_start \in PagesOf(n)
                   /\ n.addr_end - 1 \in PagesOf(n)
                   /\ \A q \in PagesOf(n) : q \in Page /\ s.vma[q].tag = n.tag
  BY <1>1 DEF IsPicture, IsMapOf, PagesOf
<1>3. ASSUME NEW n \in M
      PROVE  n.tag = "[heap]" <=> n.addr_start < e /\ n.addr_start >= HeapStart
  <2>1. n.addr_start \in Page /\ s.vma[n.addr_start].tag = n.tag
    BY <1>2
  <2>2. n.tag = "[heap]" <=> n.addr_start \in HeapStart..(e - 1)
    BY <2>1 DEF Tagged
  <2> QED
    BY <1>1, <1>2, <2>2
<1>4. ASSUME NEW n \in M, n.tag = "[heap]" PROVE n.addr_end <= e
  <2>1. n.addr_end - 1 \in Page /\ s.vma[n.addr_end - 1].tag = "[heap]"
    BY <1>2, <1>4
  <2>2. n.addr_end - 1 \in HeapStart..(e - 1)
    BY <2>1 DEF Tagged
  <2> QED
    BY <1>1, <1>2, <2>2
<1>5. ASSUME NEW x \in Nat, NEW k \in M, x <= k.addr_start
      PROVE  \E n \in M : /\ x <= n.addr_start
                          /\ \A o \in M : x <= o.addr_start => n.addr_start <= o.addr_start
  <2> DEFINE S == {n.addr_start : n \in {o \in M : x <= o.addr_start}}
  <2>1. S \subseteq Nat /\ k.addr_start \in S
    BY <1>2, <1>5
  <2>2. PICK a \in S : \A b \in S : a <= b
    BY <2>1, SmallestExists, Zenon
  <2> QED
    BY <2>2
<1>6. PICK k \in M : above \in PagesOf(k)
  BY DEF IsPicture
<1>7. e <= k.addr_start
  <2>1. k.tag # "[heap]"
    <3>1. above \in Page /\ above \notin HeapStart..(e - 1) /\ s.vma[above].tag = k.tag
      BY <1>1, <1>2, <1>6
    <3> QED
      BY <3>1 DEF Tagged
  <2>2. ASSUME k.addr_start < e PROVE FALSE
    <3>1. e - 1 \in PagesOf(k)
      BY <1>1, <1>2, <1>6, <2>2 DEF PagesOf
    <3>2. s.vma[e - 1].tag = k.tag
      BY <1>2, <3>1
    <3> QED
      BY <1>1, <2>1, <3>2 DEF Tagged
  <2> QED
    BY <1>1, <1>2, <2>2
<1>8. PICK m \in M : e - 1 \in PagesOf(m)
  <2>1. e - 1 \in Mapped(s)
    BY <1>1, TaggedMapped DEF Tagged
  <2> QED
    BY <2>1 DEF IsPicture
<1>9. m.tag = "[heap]" /\ m.addr_end = e
  <2>1. m.tag = "[heap]"
    BY <1>1, <1>2, <1>8 DEF Tagged
  <2>2. e - 1 < m.addr_end
    BY <1>1, <1>2, <1>8 DEF PagesOf
  <2> QED
    BY <1>1, <1>2, <1>4, <2>1, <2>2
<1>10. FollowedByOther(M, m)
  <2>1. PICK n \in M : /\ e <= n.addr_start
                       /\ \A o \in M : e <= o.addr_start => n.addr_start <= o.addr_start
    BY <1>1, <1>5, <1>7
  <2>2. n.tag # "[heap]"
    BY <1>1, <1>2, <1>3, <2>1
  <2> QED
    BY <1>9, <2>1, <2>2 DEF FollowedByOther
<1>11. ASSUME NEW h \in M, h.tag = "[heap]", FollowedByOther(M, h) PROVE h.addr_end = e
  <2> SUFFICES ASSUME h.addr_end < e PROVE FALSE
    BY <1>1, <1>2, <1>4, <1>11
  <2>1. PICK n \in M :
          /\ n.tag # "[heap]" /\ h.addr_end <= n.addr_start
          /\ \A o \in M : h.addr_end <= o.addr_start => n.addr_start <= o.addr_start
    BY <1>11 DEF FollowedByOther
  <2>2. h.addr_end \in Tagged(s, "[heap]") /\ h.addr_end \in Page
    <3>1. HeapStart <= h.addr_start
      BY <1>3, <1>11
    <3> QED
      BY <1>1, <1>2, <3>1 DEF Tagged
  <2>3. PICK o \in M : h.addr_end \in PagesOf(o)
    <3>1. h.addr_end \in Mapped(s)
      BY <2>2, TaggedMapped DEF Tagged
    <3> QED
      BY <3>1 DEF IsPicture
  <2>4. o.tag = "[heap]"
    BY <1>2, <2>2, <2>3 DEF Tagged
  <2>5. h.addr_end <= o.addr_start
    <3> SUFFICES ASSUME o.addr_start < h.addr_end PROVE FALSE
      BY <1>2
    <3>1. h.addr_end - 1 \in PagesOf(o)
      BY <1>1, <1>2, <2>3 DEF PagesOf
    <3>2. SameRange(h, o)
      BY <1>2, <3>1, MapsApart DEF IsPicture
    <3> QED
      BY <1>2, <2>3, <3>2 DEF SameRange, PagesOf
  <2>6. n.addr_start <= o.addr_start /\ o.addr_start < e
    BY <1>3, <2>1, <2>4, <2>5
  <2>7. HeapStart <= n.addr_start
    <3>1. /\ HeapStart <= h.addr_start /\ h.addr_start < h.addr_end
          /\ h.addr_start \in Nat /\ h.addr_end \in Nat /\ n.addr_start \in Nat
      BY <1>2, <1>3, <1>11
    <3> QED
      BY <1>1, <2>1, <3>1
  <2> QED
    BY <1>1, <1>2, <1>3, <2>1, <2>6, <2>7
<1> DEFINE found == {n \in M : n.tag = "[heap]" /\ FollowedByOther(M, n)}
           low == CHOOSE h \in found : \A n \in found : h.addr_start <= n.addr_start
<1>12. HeapEnd(M) = low.addr_end
  BY DEF HeapEnd
<1>13. low \in found
  <2> DEFINE S == {n.addr_start : n \in found}
  <2>1. S \subseteq Nat /\ S # {}
    BY <1>2, <1>9, <1>10
  <2>2. PICK a \in S : \A b \in S : a <= b
    BY <2>1, SmallestExists
  <2>3. \E h \in found : \A n \in found : h.addr_start <= n.addr_start
    BY <2>2
  <2> QED
    BY <2>3
<1> QED
  BY <1>11, <1>12, <1>13

\* The stack is one map.
LEMMA StackStartIs ==
    ASSUME NEW s, NEW M, IsPicture(s, M), CutsAllowed(s), Fused(s, "[stack]"),
           NEW a \in StackMin..LastPage, NEW e \in StackMin..LastPage, a <= e,
           Tagged(s, "[stack]") = a..e
    PROVE  StackStart(M) = a
<1>1. a \in Page /\ a \in Nat /\ a \in Tagged(s, "[stack]")
  BY PageAssumption, RestoreAssumption DEF Page
<1>2. a \in Mapped(s)
  BY <1>1, TaggedMapped DEF Tagged
<1>3. ASSUME NEW m \in M, m.tag = "[stack]" PROVE m.addr_start = a
  <2>1. /\ m.addr_start \in Page /\ m.addr_end \in Nat /\ m.addr_start < m.addr_end
        /\ StartsAt(s, m.addr_start)
    BY DEF IsPicture, IsMapOf
  <2>2. m.addr_start \in PagesOf(m)
    BY <2>1, PageAssumption DEF PagesOf, Page
  <2>3. m.addr_start \in Tagged(s, "[stack]")
    BY <1>3, <2>2 DEF IsPicture, IsMapOf, Tagged
  <2>4. ASSUME a < m.addr_start PROVE FALSE
    <3>1. m.addr_start - 1 \in Tagged(s, "[stack]") /\ m.addr_start > 0
      BY <1>1, <2>1, <2>3, <2>4, PageAssumption DEF Page
    <3> QED
      BY <2>1, <2>3, <3>1, InnerPage
  <2> QED
    BY <1>1, <2>1, <2>3, <2>4, PageAssumption DEF Page
<1>4. PICK m \in M : a \in PagesOf(m)
  BY <1>2 DEF IsPicture
<1>5. m.tag = "[stack]"
  BY <1>1, <1>4 DEF IsPicture, IsMapOf, Tagged
<1> DEFINE E == {n.addr_start : n \in {k \in M : k.tag = "[stack]"}}
<1>6. a \in E /\ \A n \in M : n.tag = "[stack]" => n.addr_start <= a
  BY <1>1, <1>3, <1>5
<1>7. StackStart(M) \in E
  BY <1>6 DEF StackStart
<1> QED
  BY <1>3, <1>7

LEMMA HeapAttrTyped ==
    ASSUME Tame, NEW s \in Space, TameSpace(s) PROVE HeapAttr \in Attr
<1>1. PICK e \in (HeapStart + 1)..HeapMax : Tagged(s, "[heap]") = HeapStart..(e - 1)
  BY DEF TameSpace, HeapInOnePiece
<1>2. HeapStart \in Tagged(s, "[heap]")
  BY <1>1, PageAssumption, RestoreAssumption DEF Page
<1>3. s.vma[HeapStart] = HeapAttr /\ HeapStart \in Page /\ HeapAttr.tag = "[heap]"
  BY <1>2 DEF TameSpace, Tagged, HeapAttr
<1>4. HeapStart \in Mapped(s)
  BY <1>3, TaggedMapped
<1> QED
  BY <1>3, <1>4, TagKnown

\* brk is an munmap, then perhaps a new mapping.
MovedBreak(x, t) ==
    \E y \in Space :
        /\ \E G : y = Munmap(x, G)
        /\ \/ t = y
           \/ \E P \in SUBSET Page : \E a : WithNew(y, P, a, t) /\ \A p \in P : a[p] \in Attr

LEMMA BrkFacts ==
    ASSUME NEW x \in Space, CutsAllowed(x), HeapAttr \in Attr, Unmapped \notin Attr,
           NEW end \in Nat, end <= LastPage + 1, NEW t, t = Brk(x, end)
    PROVE  /\ CutsAllowed(t) /\ t \in Space
           /\ \A p \in Page : t.vma[p] =
                IF x.vma[p].tag = "[heap]" /\ p >= end THEN Unmapped
                ELSE IF p \in HeapStart..(end - 1) /\ x.vma[p] = Unmapped THEN HeapAttr
                ELSE x.vma[p]
           /\ MovedBreak(x, t)
<1> DEFINE gone == {p \in HeapPages(x) : p >= end}
           new == {p \in HeapStart..(end - 1) : x.vma[p] = Unmapped}
           y == Munmap(x, gone)
           a == [p \in Page |-> HeapAttr]
<1>1. new \in SUBSET Page
  BY PageAssumption DEF Page
<1>2. t = IF new = {} THEN y ELSE MapNew(y, new, a, y.cut)
  BY DEF Brk
<1>3. \A p \in Page : p \in gone <=> x.vma[p].tag = "[heap]" /\ p >= end
  BY DEF HeapPages
<1>4. \A p \in Page : p \in new <=> p \in HeapStart..(end - 1) /\ x.vma[p] = Unmapped
  OBVIOUS
<1> HIDE DEF gone, new
<1>5. /\ y \in Space /\ CutsAllowed(y)
      /\ \A p \in Page : y.vma[p] = IF p \in gone THEN Unmapped ELSE x.vma[p]
  BY MunmapFacts, MunmapCuts
<1>8. \E G : y = Munmap(x, G)
  OBVIOUS
<1>6. CASE new = {}
  <2> HIDE DEF y
  <2>1. t = y
    BY <1>2, <1>6
  <2>2. MovedBreak(x, t)
    BY <1>5, <1>8, <2>1 DEF MovedBreak
  <2> QED
    BY <1>3, <1>4, <1>5, <1>6, <2>1, <2>2
<1>7. CASE new # {}
  <2> HIDE DEF y
  <2>1. \A p \in new : a[p] \in Attr
    BY <1>1
  <2>2. y.cut \in SUBSET Page
    BY <1>5, SpaceFields
  <2>3. t = MapNew(y, new, a, y.cut)
    BY <1>2, <1>7
  <2> HIDE DEF a
  <2>4. WithNew(y, new, a, t) /\ t.cut = y.cut
    BY <1>1, <1>5, <2>1, <2>2, <2>3, MapNewFacts
  <2>5. \A p \in Page : t.vma[p] = IF p \in new THEN HeapAttr ELSE y.vma[p]
    BY <1>1, <2>4 DEF WithNew, a
  <2>6. ASSUME NEW p \in t.cut
        PROVE  p > 0 /\ t.vma[p] = t.vma[p - 1] /\ t.vma[p].tag = "anon"
    <3>1. p \in Page /\ p > 0 /\ y.vma[p] = y.vma[p - 1] /\ y.vma[p].tag = "anon"
      BY <1>5, <2>2, <2>4 DEF CutsAllowed
    <3>2. p - 1 \in Page
      BY <3>1, PageAssumption DEF Page
    <3>3. \A q \in new : q \in Page /\ y.vma[q].tag # "anon"
      BY <1>1, <1>4, <1>5 DEF Unmapped
    <3> QED
      BY <2>5, <3>1, <3>2, <3>3
  <2>7. CutsAllowed(t)
    BY <2>6 DEF CutsAllowed
  <2>8. t \in Space
    BY <2>4 DEF WithNew
  <2>9. \A p \in Page : t.vma[p] =
                IF x.vma[p].tag = "[heap]" /\ p >= end THEN Unmapped
                ELSE IF p \in HeapStart..(end - 1) /\ x.vma[p] = Unmapped THEN HeapAttr
                ELSE x.vma[p]
    <3>1. Unmapped.tag # "[heap]"
      BY DEF Unmapped
    <3> QED
      BY <1>3, <1>4, <1>5, <2>5, <3>1
  <2>10. MovedBreak(x, t)
    BY <1>1, <1>5, <1>8, <2>1, <2>4 DEF MovedBreak
  <2> QED
    BY <2>7, <2>8, <2>9, <2>10
<1> QED
  BY <1>6, <1>7

LEMMA ToHeapBack ==
    ASSUME Tame, NEW s \in Space, TameSpace(s), NEW c, NEW I, NEW F, Held(s, c, I, F),
           NEW x \in Space, CutsAllowed(x),
           ReprotectedIn(x, s, c), NEW end, end = HeapEnd(I)
    PROVE  /\ BrkPossible(x, end)
           /\ HeapEnd(F) = end => HeapBackIn(x, s, c)
           /\ \A t : t = Brk(x, end) =>
                t \in Space /\ CutsAllowed(t) /\ MovedBreak(x, t) /\ HeapBackIn(t, s, c)
<1>1. PICK e \in (HeapStart + 1)..HeapMax : Tagged(s, "[heap]") = HeapStart..(e - 1)
  BY DEF TameSpace, HeapInOnePiece
<1>2. PICK f \in (HeapStart + 1)..HeapMax : Tagged(c, "[heap]") = HeapStart..(f - 1)
  BY DEF Held, Laid, HeapMoved, HeapInOnePiece
<1>3. end = e /\ HeapEnd(F) = f
  <2>1. PICK b, a, z \in StackMin..LastPage :
          b <= a /\ a <= z /\ Tagged(s, "[stack]") = a..z /\ Tagged(c, "[stack]") = b..z
    BY DEF Held, Laid, StackGrown
  <2>2. z \in Page /\ z \in Tagged(s, "[stack]") /\ z \in Tagged(c, "[stack]")
    BY <2>1, PageAssumption, RestoreAssumption DEF Page
  <2>3. z \in Mapped(s) /\ z \in Mapped(c)
    BY <2>2, TaggedMapped DEF Held, Tagged
  <2>4. z >= e /\ z >= f
    BY PageAssumption, RestoreAssumption DEF Tame, Page
  <2> QED
    BY <1>1, <1>2, <2>3, <2>4, HeapEndIs DEF Held
<1>4. /\ HeapStart \in Nat /\ e \in Nat /\ e <= LastPage + 1 /\ \A p \in Page : p \in Nat
      /\ Unmapped.tag = "unmapped" /\ HeapAttr.tag = "[heap]"
  BY PageAssumption, RestoreAssumption DEF Page, Unmapped, HeapAttr
<1>5. \A p \in Page : s.vma[p].tag = "[heap]" <=> p \in HeapStart..(e - 1)
  BY <1>1 DEF Tagged
<1>6. \A p \in Page : c.vma[p].tag = "[heap]" <=> p \in HeapStart..(f - 1)
  BY <1>2 DEF Tagged
<1>7. \A p \in Page : s.vma[p].tag = "[heap]" => s.vma[p] = HeapAttr
  BY DEF TameSpace, Tagged
<1>8. \A p \in Page : /\ p \in Mapped(s) <=> s.vma[p].tag # "unmapped"
                      /\ p \notin Mapped(c) <=> c.vma[p].tag = "unmapped"
                      /\ p \notin Mapped(s) <=> s.vma[p] = Unmapped
  BY TagKnown DEF Held
<1>9. \A p \in Page :
        x.vma[p] = IF s.vma[p].tag = "unmapped"
                   THEN (IF c.vma[p].tag \in {"[heap]", "[stack]"} THEN c.vma[p] ELSE Unmapped)
                   ELSE IF s.vma[p].tag = "[heap]" /\ c.vma[p].tag = "unmapped"
                   THEN Unmapped ELSE s.vma[p]
  BY <1>8 DEF Reprotected, ReprotectedIn, SpecialAt
<1>10. \A p \in Page :
         HeapBack(s, c, p) = IF s.vma[p].tag # "unmapped" THEN s.vma[p]
                             ELSE IF c.vma[p].tag = "[stack]" THEN c.vma[p] ELSE Unmapped
  BY <1>8 DEF HeapBack
<1>11. BrkPossible(x, end)
  <2>1. \A p \in HeapStart..(e - 1) : p \in Page
    BY <1>1 DEF Tagged
  <2> QED
    BY <1>3, <1>5, <1>9, <2>1 DEF BrkPossible, HeapPages
<1>12. ASSUME f = e, NEW p \in Page PROVE x.vma[p] = HeapBack(s, c, p)
  BY <1>5, <1>6, <1>9, <1>10, <1>12
<1>13. ASSUME NEW t, t = Brk(x, end)
       PROVE  /\ t \in Space /\ CutsAllowed(t) /\ MovedBreak(x, t)
              /\ \A p \in Page : t.vma[p] = HeapBack(s, c, p)
  <2>1. HeapAttr \in Attr /\ Unmapped \notin Attr
    BY HeapAttrTyped DEF Tame, Attr, Unmapped
  <2>2. /\ t \in Space /\ CutsAllowed(t) /\ MovedBreak(x, t)
        /\ \A p \in Page : t.vma[p] =
                IF x.vma[p].tag = "[heap]" /\ p >= e THEN Unmapped
                ELSE IF p \in HeapStart..(e - 1) /\ x.vma[p] = Unmapped THEN HeapAttr
                ELSE x.vma[p]
    BY <1>3, <1>4, <1>13, <2>1, BrkFacts
  <2>3. ASSUME NEW p \in Page PROVE t.vma[p] = HeapBack(s, c, p)
    <3>1. CASE s.vma[p].tag = "[heap]"
      BY <1>4, <1>5, <1>7, <1>9, <1>10, <2>2, <3>1
    <3>2. CASE s.vma[p].tag # "[heap]" /\ s.vma[p].tag # "unmapped"
      BY <1>4, <1>5, <1>9, <1>10, <2>2, <3>2
    <3>3. CASE s.vma[p].tag = "unmapped" /\ c.vma[p].tag = "[heap]"
      <4>1. p >= e
        BY <1>2, <1>4, <1>5, <1>6, <3>3
      <4> QED
        BY <1>4, <1>9, <1>10, <2>2, <3>3, <4>1
    <3>4. CASE s.vma[p].tag = "unmapped" /\ c.vma[p].tag # "[heap]"
      BY <1>4, <1>5, <1>9, <1>10, <2>2, <3>4
    <3> QED
      BY <3>1, <3>2, <3>3, <3>4
  <2> QED
    BY <2>2, <2>3
<1> QED
  BY <1>3, <1>11, <1>12, <1>13 DEF HeapBackIn

\* With the growth of the stack gone, the layout is that of the checkpoint.
LEMMA ToSettled ==
    ASSUME Tame, NEW s \in Space, TameSpace(s), NEW c, NEW I, NEW F, Held(s, c, I, F),
           NEW x \in Space, HeapBackIn(x, s, c),
           NEW t, t = Munmap(x, StackStart(F)..(StackStart(I) - 1))
    PROVE  t.vma = s.vma
<1>1. PICK b, a, e \in StackMin..LastPage :
        b <= a /\ a <= e /\ Tagged(s, "[stack]") = a..e /\ Tagged(c, "[stack]") = b..e
  BY DEF Held, Laid, StackGrown
<1>2. StackStart(I) = a /\ StackStart(F) = b
  <2>1. b <= e
    BY <1>1, PageAssumption, RestoreAssumption DEF Page
  <2>2. /\ CutsAllowed(s) /\ Fused(s, "[stack]") /\ CutsAllowed(c) /\ Fused(c, "[stack]")
        /\ IsPicture(s, I) /\ IsPicture(c, F)
    BY DEF Held, Laid, TameSpace
  <2> QED
    BY <1>1, <2>1, <2>2, StackStartIs
<1>3. ASSUME NEW p \in Page PROVE t.vma[p] = s.vma[p]
  <2>1. t.vma[p] = IF p \in b..(a - 1) THEN Unmapped ELSE x.vma[p]
    BY <1>2, MunmapFacts
  <2>2. p \in b..(a - 1) <=> c.vma[p].tag = "[stack]" /\ s.vma[p].tag # "[stack]"
    BY <1>1, PageAssumption, RestoreAssumption DEF Page, Tagged
  <2>3. c.vma[p].tag = "[stack]" /\ s.vma[p].tag # "[stack]" => p \notin Mapped(s)
    <3>1. Unmapped.tag = "unmapped"
      BY DEF Unmapped
    <3>2. p \notin Mapped(s) <=> s.vma[p] = Unmapped
      BY TagKnown
    <3> QED
      BY <3>1, <3>2, PageCases DEF Held
  <2>4. p \notin Mapped(s) => s.vma[p] = Unmapped /\ s.vma[p].tag = "unmapped"
    BY TagKnown
  <2>5. x.vma[p] = HeapBack(s, c, p)
    BY DEF HeapBackIn
  <2> QED
    BY <2>1, <2>2, <2>3, <2>4, <2>5 DEF HeapBack
<1>4. t \in Space
  BY MunmapFacts
<1> QED
  BY <1>3, <1>4, SpaceFields

-------------------------------------------------------------------------------
(* What can be told of the content from frames and soft-dirty bits: s is the   *)
(* checkpointed space, c the space now.                                       *)

CleanKept(s, c) ==
    \A p \in c.paged : ~SoftDirty(c, p) =>
        c.val[p] = IF p \in s.paged THEN s.val[p] ELSE Backing(c.vma[p])

\* A page that could not be read or written has no frame.
ClosedEmpty(s, c) == \A p \in Mapped(s) : ~Accessible(s.vma[p]) => p \notin c.paged

Content(s, c) == Backed(c) /\ CleanKept(s, c) /\ ClosedEmpty(s, c)

LEMMA BackingOfUnmapped == Backing(Unmapped) = Zero
  BY DEF Backing, Unmapped

LEMMA MunmapContent ==
    ASSUME NEW s, NEW c \in Space, Content(s, c), NEW P, NEW t, t = Munmap(c, P)
    PROVE  Content(s, t)
<1>1. /\ \A p \in Page : t.vma[p] = IF p \in P THEN Unmapped ELSE c.vma[p]
      /\ \A p \in Page : t.val[p] = IF p \in P THEN Zero ELSE c.val[p]
      /\ t.paged = c.paged \ P /\ t.sd = c.sd \ P /\ t.fresh = c.fresh \ P
  BY MunmapFacts
<1>2. c.paged \in SUBSET Page
  BY SpaceFields
<1>3. Backed(t)
  BY <1>1, <1>2, BackingOfUnmapped DEF Backed, Content, Mapped
<1>4. \A p \in Page \ P : SoftDirty(t, p) <=> SoftDirty(c, p)
  BY <1>1 DEF SoftDirty
<1>5. CleanKept(s, t)
  BY <1>1, <1>2, <1>4 DEF CleanKept, Content
<1>6. ClosedEmpty(s, t)
  BY <1>1 DEF ClosedEmpty, Content
<1> QED
  BY <1>3, <1>5, <1>6 DEF Content

LEMMA WithNewContent ==
    ASSUME NEW s, NEW c \in Space, Content(s, c), NEW P \in SUBSET Page, NEW a,
           \A p \in P : a[p] \in Attr, NEW t, WithNew(c, P, a, t), Unmapped \notin Attr
    PROVE  Content(s, t)
<1>1. /\ \A p \in Page : t.vma[p] = IF p \in P THEN a[p] ELSE c.vma[p]
      /\ \A p \in Page : t.val[p] = IF p \in P THEN Backing(a[p]) ELSE c.val[p]
      /\ t.paged = c.paged \ P /\ t.sd = c.sd \ P
      /\ c.fresh \ P \subseteq t.fresh /\ P \subseteq t.fresh
  BY DEF WithNew
<1>2. c.paged \in SUBSET Page
  BY SpaceFields
<1>3. Backed(t)
  <2>1. c.paged \subseteq Mapped(c) /\ \A p \in Page \ c.paged : c.val[p] = Backing(c.vma[p])
    BY DEF Backed, Content
  <2>2. t.paged \subseteq Mapped(t)
    BY <1>1, <2>1 DEF Mapped
  <2>3. \A p \in Page \ t.paged : t.val[p] = Backing(t.vma[p])
    BY <1>1, <2>1
  <2> QED
    BY <2>2, <2>3 DEF Backed
<1>4. \A p \in Page \ P : SoftDirty(c, p) => SoftDirty(t, p)
  BY <1>1 DEF SoftDirty
<1>5. CleanKept(s, t)
  BY <1>1, <1>2, <1>4 DEF CleanKept, Content
<1>6. ClosedEmpty(s, t)
  BY <1>1 DEF ClosedEmpty, Content
<1> QED
  BY <1>3, <1>5, <1>6 DEF Content

LEMMA WithProtContent ==
    ASSUME NEW s, NEW c \in Space, Content(s, c), NEW P \in SUBSET Mapped(c), NEW a,
           NEW t, WithProt(c, P, a, t), Unmapped \notin Attr
    PROVE  Content(s, t)
<1>1. /\ \A p \in Page \ P : t.vma[p] = c.vma[p]
      /\ \A p \in P : t.vma[p] \in Attr /\ t.vma[p].tag = c.vma[p].tag
      /\ t.val = c.val /\ t.paged = c.paged /\ t.sd = c.sd /\ t.fresh = c.fresh
  BY DEF WithProt
<1>2. c.paged \in SUBSET Page /\ P \in SUBSET Page
  BY SpaceFields DEF Mapped
<1>3. \A p \in Page : Backing(t.vma[p]) = Backing(c.vma[p])
  BY <1>1 DEF Backing
<1>4. Mapped(t) = Mapped(c)
  BY <1>1, <1>2 DEF Mapped
<1>5. \A p : SoftDirty(t, p) <=> SoftDirty(c, p)
  BY <1>1 DEF SoftDirty
<1>6. Backed(t)
  BY <1>1, <1>3, <1>4 DEF Backed, Content
<1>7. CleanKept(s, t)
  BY <1>1, <1>2, <1>3, <1>5 DEF CleanKept, Content
<1> QED
  BY <1>1, <1>6, <1>7 DEF Content, ClosedEmpty

LEMMA MovedBreakContent ==
    ASSUME NEW s, NEW c \in Space, Content(s, c), NEW t, MovedBreak(c, t),
           Unmapped \notin Attr
    PROVE  Content(s, t)
<1>1. PICK y \in Space :
        /\ \E G : y = Munmap(c, G)
        /\ \/ t = y
           \/ \E P \in SUBSET Page : \E a : WithNew(y, P, a, t) /\ \A p \in P : a[p] \in Attr
  BY DEF MovedBreak
<1>2. Content(s, y)
  BY <1>1, MunmapContent
<1> QED
  BY <1>1, <1>2, WithNewContent

\* clear_refs when the contents are those of the checkpoint.
LEMMA ClearContent ==
    ASSUME NEW s \in Space, TameSpace(s), NEW c \in Space, c.vma = s.vma, c.val = s.val,
           Backed(c), ClosedEmpty(s, c), NEW t, t = ClearSoftDirty(c)
    PROVE  Content(s, t)
<1>1. /\ t.vma = s.vma /\ t.val = s.val /\ t.paged = c.paged
      /\ c.paged \in SUBSET Page
  BY ClearFacts, SpaceFields
<1>2. \A p \in Page \ s.paged : s.val[p] = Backing(s.vma[p])
  BY DEF TameSpace, Backed
<1>3. Backed(t) /\ ClosedEmpty(s, t)
  BY <1>1 DEF Backed, ClosedEmpty, Mapped
<1>4. CleanKept(s, t)
  BY <1>1, <1>2 DEF CleanKept
<1> QED
  BY <1>3, <1>4 DEF Content

-------------------------------------------------------------------------------
(* What the function does to its memory keeps Laid and Content. *)

LEMMA SameLayout ==
    ASSUME NEW s, NEW c, Laid(s, c), NEW t, t.vma = c.vma, t.cut = c.cut
    PROVE  Laid(s, t)
<1>1. Mapped(t) = Mapped(c) /\ \A T : Tagged(t, T) = Tagged(c, T)
  BY DEF Mapped, Tagged
<1>2. KeptOutside(s, t) /\ NewOutside(s, t) /\ PlainInside(t)
  BY <1>1 DEF Laid, KeptOutside, NewOutside, PlainInside, SpecialAt
<1>3. HeapMoved(s, t) /\ StackGrown(s, t)
  <2>1. HeapMoved(s, c) /\ StackGrown(s, c)
    BY DEF Laid
  <2>2. HeapInOnePiece(t)
    BY <1>1, <2>1 DEF HeapMoved, HeapInOnePiece
  <2>3. HeapMoved(s, t)
    BY <1>1, <2>1, <2>2 DEF HeapMoved
  <2>4. StackGrown(s, t)
    BY <1>1, <2>1 DEF StackGrown
  <2> QED
    BY <2>3, <2>4
<1>4. Fused(t, "file") /\ Fused(t, "[heap]") /\ Fused(t, "[stack]") /\ CutsAllowed(t)
  BY DEF Laid, Fused, CutsAllowed
<1> QED
  BY <1>1, <1>2, <1>3, <1>4 DEF Laid

\* Only a page that was open at the checkpoint, or is new, is read or written.
LEMMA OpenPage ==
    ASSUME Tame, NEW s \in Space, TameSpace(s), NEW c \in Space, Laid(s, c),
           NEW p \in Mapped(c), Accessible(c.vma[p]), p \in Mapped(s)
    PROVE  Accessible(s.vma[p])
<1> SUFFICES ASSUME ~Accessible(s.vma[p]) PROVE FALSE
  OBVIOUS
<1>1. p \in Page /\ p \notin MapArea
  BY DEF TameSpace, Mapped
<1>2. s.vma[p].tag # "[heap]"
  <2>1. Accessible(HeapAttr)
    BY DEF Accessible, HeapAttr
  <2> QED
    BY <1>1, <2>1 DEF TameSpace, Tagged
<1>3. c.vma[p] = s.vma[p]
  BY <1>1, <1>2 DEF Laid, KeptOutside
<1> QED
  BY <1>3

LEMMA StoreKeeps ==
    ASSUME Tame, NEW s \in Space, TameSpace(s), NEW c \in Space, Laid(s, c), Content(s, c),
           NEW p \in Mapped(c), "w" \in c.vma[p].prot,
           NEW t, t = Store(c, {p}, [q \in Page |-> NewVal])
    PROVE  t \in Space /\ Laid(s, t) /\ Content(s, t)
<1> DEFINE v == [q \in Page |-> NewVal]
<1>1. p \in Page /\ {p} \in SUBSET Page /\ \A q \in {p} : v[q] \in Val
  BY BackingTyped DEF Mapped
<1> DEFINE P == {p}
<1> HIDE DEF v, P
<1>2. t = Store(c, P, v) /\ P \in SUBSET Page /\ \A q \in P : v[q] \in Val
  BY <1>1 DEF v, P
<1>11. WithStored(c, P, v, t)
  BY <1>2, StoreFacts
<1>3. /\ t \in Space /\ t.vma = c.vma /\ t.cut = c.cut /\ t.fresh = c.fresh
      /\ \A q \in Page : t.val[q] = IF q \in {p} THEN v[q] ELSE c.val[q]
      /\ t.paged = c.paged \cup {p} /\ t.sd = c.sd \cup {p}
  BY <1>11 DEF P, WithStored
<1>4. Laid(s, t)
  BY <1>3, SameLayout
<1>5. Mapped(t) = Mapped(c) /\ c.paged \in SUBSET Page
  BY <1>3, SpaceFields DEF Mapped
<1>6. Backed(t)
  BY <1>3, <1>5 DEF Backed, Content
<1>7. SoftDirty(t, p) /\ \A q \in Page \ {p} : SoftDirty(t, q) <=> SoftDirty(c, q)
  BY <1>3 DEF SoftDirty
<1>8. CleanKept(s, t)
  BY <1>3, <1>5, <1>7 DEF CleanKept, Content
<1>9. ClosedEmpty(s, t)
  <2>1. p \in Mapped(s) => Accessible(s.vma[p])
    BY OpenPage DEF Accessible
  <2> QED
    BY <1>3, <2>1 DEF ClosedEmpty, Content
<1> QED
  BY <1>3, <1>4, <1>6, <1>8, <1>9 DEF Content

LEMMA LoadKeeps ==
    ASSUME Tame, NEW s \in Space, TameSpace(s), NEW c \in Space, Laid(s, c), Content(s, c),
           NEW p \in Mapped(c), "r" \in c.vma[p].prot,
           ~ (IsFreed(c, p) /\ p \in s.paged),
           NEW t, t = Load(c, p)
    PROVE  t \in Space /\ Laid(s, t) /\ Content(s, t)
<1>1. p \in Page /\ c.paged \in SUBSET Page
  BY SpaceFields DEF Mapped
<1>2. /\ t \in Space /\ t.vma = c.vma /\ t.cut = c.cut /\ t.fresh = c.fresh
      /\ t.val = c.val /\ t.paged = c.paged \cup {p} /\ t.sd = c.sd
  BY <1>1, LoadFacts
<1>3. Laid(s, t)
  BY <1>2, SameLayout
<1>4. Mapped(t) = Mapped(c) /\ \A q : SoftDirty(t, q) <=> SoftDirty(c, q)
  BY <1>2 DEF Mapped, SoftDirty
<1>5. Backed(t)
  BY <1>2, <1>4 DEF Backed, Content
<1>6. CleanKept(s, t)
  <2> SUFFICES ASSUME NEW q \in t.paged, ~SoftDirty(t, q)
               PROVE  t.val[q] = IF q \in s.paged THEN s.val[q] ELSE Backing(t.vma[q])
    BY DEF CleanKept
  <2>1. CASE q \in c.paged
    BY <1>2, <1>4, <2>1 DEF CleanKept, Content
  <2>2. CASE q \notin c.paged
    <3>1. q = p /\ q \notin s.paged
      BY <1>2, <1>4, <2>2 DEF IsFreed
    <3>2. c.val[q] = Backing(c.vma[q])
      BY <1>1, <2>2, <3>1 DEF Content, Backed
    <3> QED
      BY <1>2, <3>1, <3>2
  <2> QED
    BY <2>1, <2>2
<1>7. ClosedEmpty(s, t)
  <2>1. p \in Mapped(s) => Accessible(s.vma[p])
    BY OpenPage DEF Accessible
  <2> QED
    BY <1>2, <2>1 DEF ClosedEmpty, Content
<1> QED
  BY <1>2, <1>3, <1>5, <1>6, <1>7 DEF Content

LEMMA DiscardKeeps ==
    ASSUME NEW s \in Space, NEW c \in Space, Laid(s, c), Content(s, c),
           NEW p \in Mapped(c), NEW t, t = DontNeed(c, {p})
    PROVE  t \in Space /\ Laid(s, t) /\ Content(s, t)
<1>1. p \in Page /\ c.paged \in SUBSET Page
  BY SpaceFields DEF Mapped
<1>2. /\ t \in Space /\ t.vma = c.vma /\ t.cut = c.cut /\ t.fresh = c.fresh
      /\ \A q \in Page : t.val[q] = IF q \in {p} THEN Backing(c.vma[q]) ELSE c.val[q]
      /\ t.paged = c.paged \ {p} /\ t.sd = c.sd \ {p}
  BY DontNeedFacts
<1>3. Laid(s, t)
  BY <1>2, SameLayout
<1>4. Mapped(t) = Mapped(c) /\ \A q : q # p => (SoftDirty(t, q) <=> SoftDirty(c, q))
  BY <1>2 DEF Mapped, SoftDirty
<1>5. Backed(t)
  <2>1. c.paged \subseteq Mapped(c) /\ \A q \in Page \ c.paged : c.val[q] = Backing(c.vma[q])
    BY DEF Backed, Content
  <2>2. \A q \in Page \ t.paged : t.val[q] = Backing(t.vma[q])
    BY <1>2, <2>1
  <2> QED
    BY <1>2, <1>4, <2>1, <2>2 DEF Backed
<1>6. CleanKept(s, t)
  BY <1>1, <1>2, <1>4 DEF CleanKept, Content
<1>7. ClosedEmpty(s, t)
  BY <1>2 DEF ClosedEmpty, Content
<1> QED
  BY <1>2, <1>3, <1>5, <1>6, <1>7 DEF Content

\* A change in the area for mappings, of no file.
ChangedInside(c, P, t) ==
    /\ t \in Space /\ CutsAllowed(t) /\ Fused(t, "file")
    /\ \A p \in Page \ P : t.vma[p] = c.vma[p]
    /\ \A p \in P : t.vma[p].tag \in {"anon", "file", "unmapped"}
    /\ \A p \in P : t.vma[p].tag = "file" <=> c.vma[p].tag = "file"

LEMMA ChangeInside ==
    ASSUME Tame, NEW s \in Space, TameSpace(s), NEW c \in Space, Laid(s, c),
           NEW P \in SUBSET MapArea, NEW t, ChangedInside(c, P, t)
    PROVE  Laid(s, t)
<1>0. /\ t \in Space /\ CutsAllowed(t) /\ Fused(t, "file")
      /\ \A p \in Page \ P : t.vma[p] = c.vma[p]
      /\ \A p \in P : t.vma[p].tag \in {"anon", "file", "unmapped"}
      /\ \A p \in P : t.vma[p].tag = "file" <=> c.vma[p].tag = "file"
  BY DEF ChangedInside
<1> USE <1>0
<1>1. P \in SUBSET Page /\ MapArea \in SUBSET Page
  BY RestoreAssumption
<1>2. \A p \in P : c.vma[p].tag \in {"anon", "file", "unmapped"}
  BY DEF Laid, PlainInside
<1>3. ASSUME NEW T \in {"[heap]", "[stack]"}
      PROVE  Tagged(t, T) = Tagged(c, T) /\ \A p \in Tagged(c, T) : t.vma[p] = c.vma[p]
  BY <1>1, <1>2 DEF Tagged
<1>4. Tagged(t, "file") = Tagged(s, "file")
  <2>1. Tagged(t, "file") = Tagged(c, "file")
    BY <1>1 DEF Tagged
  <2> QED
    BY <2>1 DEF Laid
<1>5. KeptOutside(s, t) /\ NewOutside(s, t) /\ PlainInside(t)
  <2>1. \A p \in Page \ MapArea : t.vma[p] = c.vma[p] /\ (p \in Mapped(t) <=> p \in Mapped(c))
    BY DEF Mapped
  <2>2. KeptOutside(s, t)
    BY <2>1 DEF Laid, KeptOutside
  <2>3. NewOutside(s, t)
    BY <2>1 DEF Laid, NewOutside, SpecialAt
  <2>4. PlainInside(t)
    BY <1>1 DEF Laid, PlainInside
  <2> QED
    BY <2>2, <2>3, <2>4
<1>6. HeapMoved(s, t)
  <2>1. HeapMoved(s, c) /\ Tagged(t, "[heap]") = Tagged(c, "[heap]")
        /\ \A p \in Tagged(c, "[heap]") : t.vma[p] = c.vma[p]
    BY <1>3 DEF Laid
  <2>2. HeapInOnePiece(t)
    BY <2>1 DEF HeapMoved, HeapInOnePiece
  <2>3. ASSUME NEW p \in Tagged(s, "[heap]") PROVE p \notin Mapped(t) \/ t.vma[p].tag = "[heap]"
    <3>1. p \in Page /\ (p \notin Mapped(c) \/ c.vma[p].tag = "[heap]")
      BY <2>1 DEF HeapMoved, Tagged
    <3>2. p \notin P
      BY PlacesApart
    <3> QED
      BY <3>1, <3>2 DEF Mapped
  <2> QED
    BY <2>1, <2>2, <2>3 DEF HeapMoved
<1>7. StackGrown(s, t)
  BY <1>3 DEF Laid, StackGrown
<1>8. Fused(t, "[heap]") /\ Fused(t, "[stack]")
  <2> SUFFICES ASSUME NEW T \in {"[heap]", "[stack]"} PROVE Fused(t, T)
    OBVIOUS
  <2>1. /\ Tagged(t, T) = Tagged(c, T) /\ \A p \in Tagged(c, T) : t.vma[p] = c.vma[p]
        /\ Fused(c, T)
    BY <1>3 DEF Laid
  <2>2. \A p \in Page : p > 0 => p - 1 \in Page
    BY PageAssumption DEF Page
  <2> QED
    BY <2>1, <2>2 DEF Fused, Tagged
<1> QED
  BY <1>4, <1>5, <1>6, <1>7, <1>8 DEF Laid

LEMMA MmapKeeps ==
    ASSUME Tame, NEW s \in Space, TameSpace(s), NEW c \in Space, Laid(s, c), Content(s, c),
           NEW P \in SUBSET MapArea, P \cap Tagged(c, "file") = {}, NEW prot \in Prot,
           NEW t \in Mmap(c, P, [p \in Page |-> [prot |-> prot, tag |-> "anon"]])
    PROVE  t \in Space /\ Laid(s, t) /\ Content(s, t)
<1> DEFINE a == [p \in Page |-> [prot |-> prot, tag |-> "anon"]]
<1>1. P \in SUBSET Page /\ t \in Mmap(c, P, a) /\ CutsAllowed(c) /\ Unmapped \notin Attr
  BY RestoreAssumption DEF Laid, Tame, Attr, Unmapped
<1>2. \A p \in P : a[p] \in Attr /\ a[p].tag = "anon"
  BY <1>1 DEF Attr, Tame
<1> HIDE DEF a
<1>3. (\A p \in P : a[p] \in Attr) /\ (\A p \in P : a[p].tag = "anon")
  BY <1>2
<1>4. WithNew(c, P, a, t) /\ CutsAllowed(t)
  BY <1>1, <1>3, MmapFacts
<1>5. t \in Space /\ \A p \in Page : t.vma[p] = IF p \in P THEN a[p] ELSE c.vma[p]
  BY <1>4 DEF WithNew
<1>6. Content(s, t)
  BY <1>1, <1>3, <1>4, WithNewContent
<1>7. \A p \in Page : t.vma[p].tag = "file" => t.vma[p] = c.vma[p] /\ c.vma[p].tag = "file"
  BY <1>2, <1>5
<1>8. Fused(t, "file")
  <2>1. \A p \in Page : p > 0 => p - 1 \in Page
    BY PageAssumption DEF Page
  <2> QED
    BY <1>7, <2>1 DEF Fused, Laid
<1>9. Laid(s, t)
  <2>1. \A p \in Page \ P : t.vma[p] = c.vma[p]
    BY <1>5
  <2>2. \A p \in P : t.vma[p].tag = "anon" /\ c.vma[p].tag # "file"
    BY <1>1, <1>2, <1>5 DEF Tagged
  <2>3. ChangedInside(c, P, t)
    BY <1>4, <1>5, <1>8, <2>1, <2>2 DEF ChangedInside
  <2> QED
    BY <2>3, ChangeInside
<1> QED
  BY <1>5, <1>6, <1>9

LEMMA MunmapKeeps ==
    ASSUME Tame, NEW s \in Space, TameSpace(s), NEW c \in Space, Laid(s, c), Content(s, c),
           NEW P \in SUBSET MapArea, P \cap Tagged(c, "file") = {},
           NEW t, t = Munmap(c, P)
    PROVE  t \in Space /\ Laid(s, t) /\ Content(s, t)
<1>1. P \in SUBSET Page /\ CutsAllowed(c) /\ Unmapped.tag = "unmapped"
  BY RestoreAssumption DEF Laid, Unmapped
<1>2. t \in Space /\ \A p \in Page : t.vma[p] = IF p \in P THEN Unmapped ELSE c.vma[p]
  BY MunmapFacts
<1>3. CutsAllowed(t)
  BY <1>1, MunmapCuts
<1>4. Content(s, t)
  BY MunmapContent
<1>5. \A p \in Page : t.vma[p].tag = "file" => t.vma[p] = c.vma[p] /\ c.vma[p].tag = "file"
  BY <1>1, <1>2
<1>6. Fused(t, "file")
  <2>1. \A p \in Page : p > 0 => p - 1 \in Page
    BY PageAssumption DEF Page
  <2> QED
    BY <1>5, <2>1 DEF Fused, Laid
<1>7. Laid(s, t)
  <2>1. \A p \in Page \ P : t.vma[p] = c.vma[p]
    BY <1>2
  <2>2. \A p \in P : t.vma[p].tag = "unmapped" /\ c.vma[p].tag # "file"
    BY <1>1, <1>2 DEF Tagged
  <2>3. ChangedInside(c, P, t)
    BY <1>2, <1>3, <1>6, <2>1, <2>2 DEF ChangedInside
  <2> QED
    BY <2>3, ChangeInside
<1> QED
  BY <1>2, <1>4, <1>7

\* A page of a file and its neighbour in the file are in one area.
LEMMA NeighboursInArea ==
    ASSUME NEW c, CutsAllowed(c), Fused(c, "file"), NEW p \in Page, p > 0,
           p \in Tagged(c, "file"), p - 1 \in Tagged(c, "file")
    PROVE  p \in AreaOf(c, p - 1) /\ p - 1 \in AreaOf(c, p)
<1>1. ~StartsAt(c, p)
  BY InnerPage
<1>2. p \in Mapped(c) /\ p - 1 \in Mapped(c)
  BY TaggedMapped DEF Tagged
<1>3. c.vma[p] # Unmapped
  BY <1>2 DEF Mapped
<1>4. \A x \in Page : (p - 1 < x /\ x <= p) \/ (p < x /\ x <= p - 1) => x = p
  BY DEF Page
<1>5. \A x \in Page : (p < x /\ x <= p - 1) \/ (p - 1 < x /\ x <= p) => x = p
  BY DEF Page
<1> QED
  BY <1>1, <1>2, <1>3, <1>4, <1>5 DEF AreaOf

LEMMA MprotectKeeps ==
    ASSUME Tame, NEW s \in Space, TameSpace(s), NEW c \in Space, Laid(s, c), Content(s, c),
           NEW P \in SUBSET MapArea, P \subseteq Mapped(c), NEW prot \in Prot,
           \A p \in P \cap Tagged(c, "file") : AreaOf(c, p) \subseteq P,
           NEW t \in Mprotect(c, P, [p \in Page |-> prot])
    PROVE  t \in Space /\ Laid(s, t) /\ Content(s, t)
<1> DEFINE a == [p \in Page |-> prot]
<1>1. /\ P \in SUBSET Page /\ P \in SUBSET Mapped(c) /\ t \in Mprotect(c, P, a)
      /\ \A p \in P : a[p] = prot /\ a[p] \in Prot
      /\ CutsAllowed(c) /\ Fused(c, "file") /\ "unmapped" \notin Tag /\ Unmapped \notin Attr
  BY RestoreAssumption DEF Laid, Tame, Attr, Unmapped
<1> HIDE DEF a
<1>2. \A p \in Page : p > 0 => p - 1 \in Page
  BY PageAssumption DEF Page
<1>3. ASSUME NEW p \in Page, p > 0, c.vma[p].tag = "file", c.vma[p - 1].tag = "file"
      PROVE  p \in P <=> p - 1 \in P
  BY <1>1, <1>2, <1>3, NeighboursInArea DEF Tagged
<1>4. EndsFreely(c, P)
  <2> SUFFICES ASSUME NEW p \in Page, p > 0, ~ (p \in P <=> p - 1 \in P),
                      c.vma[p].tag = c.vma[p - 1].tag
               PROVE  c.vma[p].tag \in {"anon", "unmapped"}
    BY DEF EndsFreely
  <2>1. PICK q \in {p, p - 1} : q \in P
    OBVIOUS
  <2>2. c.vma[p].tag = c.vma[q].tag
    OBVIOUS
  <2>3. c.vma[q].tag \in {"anon", "file", "unmapped"}
    BY <2>1 DEF Laid, PlainInside
  <2> QED
    BY <1>3, <2>2, <2>3
<1>5. WithProt(c, P, a, t) /\ CutsAllowed(t)
  BY <1>1, <1>4, MprotectFacts
<1>6. /\ t \in Space /\ \A p \in Page \ P : t.vma[p] = c.vma[p]
      /\ \A p \in P : t.vma[p] \in Attr /\ t.vma[p].tag = c.vma[p].tag /\ t.vma[p].prot = prot
  BY <1>1, <1>5 DEF WithProt
<1>7. Content(s, t)
  BY <1>1, <1>5, WithProtContent
<1>8. Fused(t, "file")
  <2> SUFFICES ASSUME NEW p \in Page, p > 0, t.vma[p].tag = "file", t.vma[p - 1].tag = "file"
               PROVE  t.vma[p] = t.vma[p - 1]
    BY DEF Fused
  <2>1. p - 1 \in Page /\ c.vma[p].tag = "file" /\ c.vma[p - 1].tag = "file"
    BY <1>2, <1>6
  <2>2. c.vma[p] = c.vma[p - 1] /\ (p \in P <=> p - 1 \in P)
    BY <1>1, <1>3, <2>1 DEF Fused
  <2>3. CASE p \in P
    BY <1>6, <2>2, <2>3, AttrEqual
  <2> QED
    BY <1>6, <2>1, <2>2, <2>3
<1>9. Laid(s, t)
  <2>1. \A p \in P : t.vma[p].tag = c.vma[p].tag
    BY <1>6
  <2>2. \A p \in P : c.vma[p].tag \in {"anon", "file", "unmapped"}
    BY DEF Laid, PlainInside
  <2>3. ChangedInside(c, P, t)
    BY <1>5, <1>6, <1>8, <2>1, <2>2 DEF ChangedInside
  <2> QED
    BY <2>3, ChangeInside
<1> QED
  BY <1>6, <1>7, <1>9

\* A change of the heap only.
ChangedHeap(s, c, t) ==
    /\ t \in Space /\ CutsAllowed(t) /\ HeapInOnePiece(t) /\ Fused(t, "[heap]")
    /\ \A p \in Page : \/ t.vma[p] = c.vma[p]
                       \/ /\ c.vma[p].tag \in {"[heap]", "unmapped"}
                          /\ t.vma[p].tag \in {"[heap]", "unmapped"}
    /\ \/ Tagged(t, "[heap]") = Tagged(s, "[heap]")
       \/ \A p \in Tagged(t, "[heap]") : t.vma[p] = HeapAttr

LEMMA ChangeHeap ==
    ASSUME Tame, NEW s \in Space, TameSpace(s), NEW c \in Space, Laid(s, c),
           NEW t, ChangedHeap(s, c, t)
    PROVE  Laid(s, t)
<1>1. /\ t \in Space /\ CutsAllowed(t) /\ HeapInOnePiece(t) /\ Fused(t, "[heap]")
      /\ \A p \in Page : \/ t.vma[p] = c.vma[p]
                         \/ /\ c.vma[p].tag \in {"[heap]", "unmapped"}
                            /\ t.vma[p].tag \in {"[heap]", "unmapped"}
  BY DEF ChangedHeap
<1>2. \A p \in Page : /\ p \in Mapped(s) <=> s.vma[p].tag # "unmapped"
                      /\ p \in Mapped(c) <=> c.vma[p].tag # "unmapped"
                      /\ p \in Mapped(t) <=> t.vma[p].tag # "unmapped"
  BY <1>1, TagKnown
<1>3. KeptOutside(s, t)
  BY <1>1, <1>2 DEF KeptOutside, Laid
<1>4. NewOutside(s, t)
  BY <1>1, <1>2 DEF NewOutside, Laid, SpecialAt
<1>5. PlainInside(t)
  <2> SUFFICES ASSUME NEW p \in MapArea PROVE t.vma[p].tag \in {"anon", "file", "unmapped"}
    BY DEF PlainInside
  <2>1. p \in Page /\ c.vma[p].tag \in {"anon", "file", "unmapped"}
    BY RestoreAssumption DEF Laid, PlainInside
  <2>2. t.vma[p].tag # "[heap]"
    BY <1>1, <2>1, PlacesApart DEF Tagged
  <2> QED
    BY <1>1, <2>1, <2>2
<1>6. ASSUME NEW T \in {"file", "[stack]"}
      PROVE  /\ Tagged(t, T) = Tagged(c, T) /\ \A p \in Tagged(t, T) : t.vma[p] = c.vma[p]
             /\ Fused(t, T)
  <2>1. \A p \in Page : /\ t.vma[p].tag = T <=> c.vma[p].tag = T
                        /\ t.vma[p].tag = T => t.vma[p] = c.vma[p]
    BY <1>1
  <2>2. \A p \in Page : p > 0 => p - 1 \in Page
    BY PageAssumption DEF Page
  <2>3. Fused(c, T)
    BY DEF Laid
  <2>4. Fused(t, T)
    BY <2>1, <2>2, <2>3 DEF Fused
  <2> QED
    BY <2>1, <2>4 DEF Tagged
<1>7. StackGrown(s, t) /\ Tagged(t, "file") = Tagged(s, "file")
  BY <1>6 DEF Laid, StackGrown
<1>8. HeapMoved(s, t)
  <2>1. ASSUME NEW p \in Tagged(s, "[heap]") PROVE p \notin Mapped(t) \/ t.vma[p].tag = "[heap]"
    <3>1. p \in Page /\ (p \notin Mapped(c) \/ c.vma[p].tag = "[heap]")
      BY DEF Laid, HeapMoved, Tagged
    <3> QED
      BY <1>1, <1>2, <3>1
  <2> QED
    BY <2>1 DEF HeapMoved, ChangedHeap
<1> QED
  BY <1>1, <1>3, <1>4, <1>5, <1>6, <1>7, <1>8 DEF Laid

LEMMA BrkKeeps ==
    ASSUME Tame, NEW s \in Space, TameSpace(s), NEW c \in Space, Laid(s, c), Content(s, c),
           \A p \in HeapPages(c) : c.vma[p] = HeapAttr,
           NEW end \in (HeapStart + 1)..HeapMax, BrkPossible(c, end),
           NEW t, t = Brk(c, end)
    PROVE  t \in Space /\ Laid(s, t) /\ Content(s, t)
<1>1. HeapAttr \in Attr /\ Unmapped \notin Attr /\ CutsAllowed(c)
      /\ Unmapped.tag = "unmapped" /\ HeapAttr.tag = "[heap]"
  BY HeapAttrTyped DEF Tame, Attr, Unmapped, Laid, HeapAttr
<1>2. /\ end \in Nat /\ end <= LastPage + 1 /\ HeapStart \in Nat
      /\ \A p \in HeapStart..(end - 1) : p \in Page
  BY PageAssumption, RestoreAssumption DEF Page
<1>3. /\ t \in Space /\ CutsAllowed(t) /\ MovedBreak(c, t)
      /\ \A p \in Page : t.vma[p] =
              IF c.vma[p].tag = "[heap]" /\ p >= end THEN Unmapped
              ELSE IF p \in HeapStart..(end - 1) /\ c.vma[p] = Unmapped THEN HeapAttr
              ELSE c.vma[p]
  BY <1>1, <1>2, BrkFacts
<1>4. \A p \in Page : c.vma[p].tag = "[heap]" => c.vma[p] = HeapAttr
  BY DEF HeapPages
<1>5. \A p \in HeapStart..(end - 1) : c.vma[p].tag = "[heap]" \/ c.vma[p] = Unmapped
  BY DEF BrkPossible, HeapPages
<1>6. PICK f \in (HeapStart + 1)..HeapMax : Tagged(c, "[heap]") = HeapStart..(f - 1)
  BY DEF Laid, HeapMoved, HeapInOnePiece
<1>7. \A p \in Page : c.vma[p].tag = "[heap]" => p >= HeapStart /\ p \in Nat
  BY <1>6, PageAssumption DEF Tagged, Page
<1>8. ASSUME NEW p \in Page
      PROVE  /\ t.vma[p].tag = "[heap]" <=> p \in HeapStart..(end - 1)
             /\ t.vma[p].tag = "[heap]" => t.vma[p] = HeapAttr
             /\ \/ t.vma[p] = c.vma[p]
                \/ /\ c.vma[p].tag \in {"[heap]", "unmapped"}
                   /\ t.vma[p].tag \in {"[heap]", "unmapped"}
  <2>1. CASE p \in HeapStart..(end - 1)
    BY <1>1, <1>2, <1>3, <1>4, <1>5, <2>1
  <2>2. CASE p \notin HeapStart..(end - 1)
    <3>1. c.vma[p].tag = "[heap]" => p >= end
      BY <1>2, <1>7, <2>2
    <3> QED
      BY <1>1, <1>3, <2>2, <3>1
  <2> QED
    BY <2>1, <2>2
<1>9. Tagged(t, "[heap]") = HeapStart..(end - 1)
  BY <1>2, <1>8 DEF Tagged
<1>10. HeapInOnePiece(t)
  BY <1>9 DEF HeapInOnePiece
<1>11. Fused(t, "[heap]")
  <2>1. \A p \in Page : p > 0 => p - 1 \in Page
    BY PageAssumption DEF Page
  <2> QED
    BY <1>8, <2>1 DEF Fused
<1>12. ChangedHeap(s, c, t)
  BY <1>3, <1>8, <1>10, <1>11 DEF ChangedHeap, Tagged
<1>13. Laid(s, t)
  BY <1>12, ChangeHeap
<1>14. Content(s, t)
  BY <1>1, <1>3, MovedBreakContent
<1> QED
  BY <1>3, <1>13, <1>14

LEMMA MprotectHeapKeeps ==
    ASSUME Tame, NEW s \in Space, TameSpace(s), NEW c \in Space, Laid(s, c), Content(s, c),
           NEW P, P = HeapPages(c), P = Tagged(s, "[heap]"), NEW prot \in Prot,
           NEW t \in Mprotect(c, P, [p \in Page |-> prot])
    PROVE  t \in Space /\ Laid(s, t) /\ Content(s, t)
<1> DEFINE a == [p \in Page |-> prot]
<1>1. \A p \in P : p \in Page /\ c.vma[p].tag = "[heap]" /\ p \in Mapped(c)
  BY TaggedMapped DEF HeapPages
<1>2. /\ P \in SUBSET Mapped(c) /\ t \in Mprotect(c, P, a)
      /\ \A p \in P : a[p] = prot /\ a[p] \in Prot
      /\ CutsAllowed(c) /\ "unmapped" \notin Tag /\ Unmapped \notin Attr
  BY <1>1 DEF Laid, Tame, Attr, Unmapped
<1> HIDE DEF a
<1>3. \A p \in Page : (p > 0 => p - 1 \in Page) /\ (p \in P <=> c.vma[p].tag = "[heap]")
  BY PageAssumption DEF Page, HeapPages
<1>4. EndsFreely(c, P)
  BY <1>3 DEF EndsFreely
<1>5. WithProt(c, P, a, t) /\ CutsAllowed(t)
  BY <1>2, <1>4, MprotectFacts
<1>6. /\ t \in Space /\ \A p \in Page \ P : t.vma[p] = c.vma[p]
      /\ \A p \in P : t.vma[p] \in Attr /\ t.vma[p].tag = c.vma[p].tag /\ t.vma[p].prot = prot
  BY <1>2, <1>5 DEF WithProt
<1>7. Content(s, t)
  BY <1>2, <1>5, WithProtContent
<1>8. Tagged(t, "[heap]") = P /\ Tagged(c, "[heap]") = P
  BY <1>3, <1>6 DEF Tagged
<1>9. Fused(t, "[heap]")
  <2> SUFFICES ASSUME NEW p \in Page, p > 0,
                      t.vma[p].tag = "[heap]", t.vma[p - 1].tag = "[heap]"
               PROVE  t.vma[p] = t.vma[p - 1]
    BY DEF Fused
  <2>1. p \in P /\ p - 1 \in P
    BY <1>3, <1>8 DEF Tagged
  <2> QED
    BY <1>6, <1>8, <2>1, AttrEqual DEF Tagged
<1>10. HeapInOnePiece(t)
  <2>1. HeapInOnePiece(c)
    BY DEF Laid, HeapMoved
  <2> QED
    BY <1>8, <2>1 DEF HeapInOnePiece
<1>11. \A p \in Page : \/ t.vma[p] = c.vma[p]
                       \/ c.vma[p].tag = "[heap]" /\ t.vma[p].tag = "[heap]"
  BY <1>3, <1>6
<1>12. ChangedHeap(s, c, t)
  BY <1>5, <1>6, <1>8, <1>9, <1>10, <1>11 DEF ChangedHeap
<1>13. Laid(s, t)
  BY <1>12, ChangeHeap
<1> QED
  BY <1>6, <1>7, <1>13

\* The page below the stack becomes one of it, and has been written.
LEMMA GrowStackKeeps ==
    ASSUME Tame, NEW s \in Space, TameSpace(s), NEW c \in Space, Laid(s, c), Content(s, c),
           NEW p \in Page, p >= StackMin, c.vma[p] = Unmapped,
           p + 1 \in Page, c.vma[p + 1].tag = "[stack]",
           NEW t, t = [Store(c, {p}, [q \in Page |-> NewVal]) EXCEPT !.vma[p] = c.vma[p + 1]]
    PROVE  t \in Space /\ Laid(s, t) /\ Content(s, t)
<1> DEFINE v == [q \in Page |-> NewVal]
           S == {p}
           u == Store(c, S, v)
<1>1. S \in SUBSET Page /\ \A q \in S : v[q] \in Val
  BY BackingTyped
<1>2. t = [u EXCEPT !.vma[p] = c.vma[p + 1]]
  OBVIOUS
<1> HIDE DEF v, S
<1>3. WithStored(c, S, v, u)
  BY <1>1, StoreFacts
<1> HIDE DEF u
<1>4. /\ u \in Space /\ u.vma = c.vma /\ u.cut = c.cut /\ u.fresh = c.fresh
      /\ \A q \in Page : q # p => u.val[q] = c.val[q]
      /\ u.paged = c.paged \cup {p} /\ u.sd = c.sd \cup {p}
  BY <1>3 DEF WithStored, S
<1>5. p + 1 \in Mapped(c) /\ c.vma[p + 1] \in Attr
  <2>1. p + 1 \in Mapped(c)
    BY TaggedMapped
  <2> QED
    BY <2>1, TagKnown
<1>7. /\ c.vma \in [Page -> Attr \cup {Unmapped}] /\ c.cut \in SUBSET Page
      /\ u.val \in [Page -> Val] /\ c.paged \in SUBSET Page
      /\ c.sd \in SUBSET Page /\ c.fresh \in SUBSET Page
  BY <1>4, SpaceFields
<1> DEFINE w == [c.vma EXCEPT ![p] = c.vma[p + 1]]
<1>8. /\ w \in [Page -> Attr \cup {Unmapped}]
      /\ \A q \in Page : w[q] = IF q = p THEN c.vma[p + 1] ELSE c.vma[q]
  <2> DEFINE x == c.vma[p + 1]
             m == c.vma
  <2>1. m \in [Page -> Attr \cup {Unmapped}] /\ x \in Attr \cup {Unmapped}
    BY <1>5, <1>7
  <2>2. w = [m EXCEPT ![p] = x]
    OBVIOUS
  <2> HIDE DEF m, x
  <2>3. \A q \in Page : w[q] = IF q = p THEN x ELSE m[q]
    BY <2>1, <2>2
  <2>4. w \in [Page -> Attr \cup {Unmapped}]
    BY <2>1, <2>2
  <2> QED
    BY <2>3, <2>4 DEF m, x
<1>17. t = [u EXCEPT !.vma = w]
  <2>1. u.vma = c.vma
    BY <1>4
  <2>2. t = [u EXCEPT !.vma = [u.vma EXCEPT ![p] = c.vma[p + 1]]]
    BY <1>2
  <2> QED
    BY <2>1, <2>2
<1> HIDE DEF w
<1>6. /\ t.vma = w /\ t.cut = c.cut /\ t.fresh = c.fresh
      /\ t.val = u.val /\ t.paged = c.paged \cup {p} /\ t.sd = c.sd \cup {p}
      /\ t = [vma |-> t.vma, cut |-> t.cut, val |-> t.val, paged |-> t.paged,
              sd |-> t.sd, fresh |-> t.fresh]
  <2>1. u = [vma |-> u.vma, cut |-> u.cut, val |-> u.val, paged |-> u.paged,
             sd |-> u.sd, fresh |-> u.fresh]
    BY <1>4, SpaceFields
  <2> QED
    BY <1>4, <1>17, <2>1
<1>9. t \in Space
  <2>1. t.cut \in SUBSET Page /\ t.paged \in SUBSET Page /\ t.sd \in SUBSET Page
        /\ t.fresh \in SUBSET Page /\ t.val \in [Page -> Val]
    BY <1>6, <1>7
  <2> QED
    BY <1>6, <1>8, <2>1, SpaceMade DEF Space
<1>10. \A q \in Page : t.vma[q] = IF q = p THEN c.vma[p + 1] ELSE c.vma[q]
  BY <1>6, <1>8
<1>11. p \notin Mapped(c) /\ Unmapped.tag = "unmapped"
  BY DEF Mapped, Unmapped
<1>12. p \notin MapArea /\ s.vma[p] = Unmapped
  <2>1. p \in StackMin..LastPage
    BY PageAssumption, RestoreAssumption DEF Page
  <2>2. p \notin MapArea
    BY <2>1 DEF Tame
  <2>3. s.vma[p].tag # "[heap]"
    BY <2>1, PlacesApart DEF Tagged
  <2> QED
    BY <1>11, <2>2, <2>3, PageCases
<1>13. \A q \in Page : t.vma[q].tag # "[stack]" => t.vma[q] = c.vma[q]
  BY <1>10
<1>14. ASSUME NEW T \in {"file", "[heap]"}
       PROVE  /\ Tagged(t, T) = Tagged(c, T) /\ Fused(t, T)
              /\ \A q \in Tagged(t, T) : t.vma[q] = c.vma[q]
  <2>1. \A q \in Page : /\ t.vma[q].tag = T <=> c.vma[q].tag = T
                        /\ t.vma[q].tag = T => t.vma[q] = c.vma[q]
    BY <1>10, <1>11
  <2>2. \A q \in Page : q > 0 => q - 1 \in Page
    BY PageAssumption DEF Page
  <2>3. Fused(c, T)
    BY DEF Laid
  <2>4. Fused(t, T)
    BY <2>1, <2>2, <2>3 DEF Fused
  <2> QED
    BY <2>1, <2>4 DEF Tagged
<1>15. Laid(s, t)
  <2>1. PICK b, a, e \in StackMin..LastPage :
          b <= a /\ a <= e /\ Tagged(s, "[stack]") = a..e /\ Tagged(c, "[stack]") = b..e
    BY DEF Laid, StackGrown
  <2>2. b \in Int /\ e \in Int /\ StackMin \in Nat /\ p \in Nat
    BY PageAssumption, RestoreAssumption DEF Page
  <2>3. p + 1 \in b..e /\ p \notin b..e
    BY <1>11, <2>1 DEF Tagged
  <2>4. p + 1 = b /\ p \in StackMin..LastPage
    BY <2>2, <2>3, PageAssumption DEF Page
  <2>5. Tagged(t, "[stack]") = Tagged(c, "[stack]") \cup {p}
    BY <1>10 DEF Tagged
  <2>6. Tagged(t, "[stack]") = p..e
    <3>1. p <= e
      BY <2>2, <2>3
    <3>2. (b..e) \cup {p} = p..e
      BY <2>2, <2>4, <3>1
    <3> QED
      BY <2>1, <2>5, <3>2
  <2>7. StackGrown(s, t)
    <3>1. p <= a
      BY <2>1, <2>2, <2>4
    <3> QED
      BY <2>1, <2>4, <2>6, <3>1 DEF StackGrown
  <2>8. Fused(t, "[stack]")
    <3> SUFFICES ASSUME NEW q \in Page, q > 0, t.vma[q].tag = "[stack]",
                        t.vma[q - 1].tag = "[stack]"
                 PROVE  t.vma[q] = t.vma[q - 1]
      BY DEF Fused
    <3>1. q - 1 \in Page /\ q \in Nat
      BY PageAssumption DEF Page
    <3>2. q \in p..e /\ q - 1 \in p..e
      BY <2>6, <3>1 DEF Tagged
    <3>3. CASE q - 1 = p
      <4>1. q = p + 1 /\ q # p
        BY <2>2, <3>1, <3>3
      <4> QED
        BY <1>10, <3>3, <4>1
    <3>4. CASE q - 1 # p
      <4>1. q # p
        BY <2>2, <3>1, <3>2
      <4>2. t.vma[q] = c.vma[q] /\ t.vma[q - 1] = c.vma[q - 1]
        BY <1>10, <3>1, <3>4, <4>1
      <4> QED
        BY <3>1, <4>2 DEF Laid, Fused
    <3> QED
      BY <3>3, <3>4
  <2>9. CutsAllowed(t)
    <3> SUFFICES ASSUME NEW q \in c.cut
                 PROVE  q > 0 /\ t.vma[q] = t.vma[q - 1] /\ t.vma[q].tag = "anon"
      BY <1>6 DEF CutsAllowed
    <3>1. q \in Page /\ q > 0 /\ c.vma[q] = c.vma[q - 1] /\ c.vma[q].tag = "anon"
      BY <1>7 DEF Laid, CutsAllowed
    <3>2. q - 1 \in Page
      BY <3>1, PageAssumption DEF Page
    <3> QED
      BY <1>10, <1>11, <3>1, <3>2
  <2>10. KeptOutside(s, t)
    BY <1>10, <1>12 DEF KeptOutside, Laid, Mapped
  <2>11. NewOutside(s, t)
    BY <1>10 DEF NewOutside, Laid, Mapped, SpecialAt
  <2>12. PlainInside(t)
    BY <1>10, <1>12, RestoreAssumption DEF PlainInside, Laid
  <2>13. HeapMoved(s, t)
    <3>1. HeapInOnePiece(t)
      BY <1>14 DEF Laid, HeapMoved, HeapInOnePiece
    <3>2. \A q \in Tagged(s, "[heap]") : q \notin Mapped(t) \/ t.vma[q].tag = "[heap]"
      <4> SUFFICES ASSUME NEW q \in Tagged(s, "[heap]")
                   PROVE  q \notin Mapped(t) \/ t.vma[q].tag = "[heap]"
        OBVIOUS
      <4>1. q \in Page /\ q # p
        BY <1>11, <1>12 DEF Tagged
      <4>2. q \notin Mapped(c) \/ c.vma[q].tag = "[heap]"
        BY DEF Laid, HeapMoved
      <4> QED
        BY <1>10, <4>1, <4>2 DEF Mapped
    <3>3. \/ Tagged(t, "[heap]") = Tagged(s, "[heap]")
          \/ \A q \in Tagged(t, "[heap]") : t.vma[q] = HeapAttr
      BY <1>14 DEF Laid, HeapMoved
    <3> QED
      BY <3>1, <3>2, <3>3 DEF HeapMoved
  <2> QED
    BY <1>14, <2>7, <2>8, <2>9, <2>10, <2>11, <2>12, <2>13 DEF Laid
<1>16. Content(s, t)
  <2>1. Mapped(t) = Mapped(c) \cup {p}
    BY <1>5, <1>10 DEF Mapped, Attr, Unmapped, Tame
  <2>2. Backed(t)
    <3>1. c.paged \subseteq Mapped(c) /\ \A q \in Page \ c.paged : c.val[q] = Backing(c.vma[q])
      BY DEF Backed, Content
    <3>2. \A q \in Page \ t.paged : t.val[q] = Backing(t.vma[q])
      <4> SUFFICES ASSUME NEW q \in Page \ t.paged PROVE t.val[q] = Backing(t.vma[q])
        OBVIOUS
      <4>1. q # p /\ q \notin c.paged
        BY <1>6
      <4>2. t.val[q] = c.val[q] /\ t.vma[q] = c.vma[q]
        BY <1>4, <1>6, <1>10, <4>1
      <4> QED
        BY <3>1, <4>1, <4>2
    <3> QED
      BY <1>6, <2>1, <3>1, <3>2 DEF Backed
  <2>3. SoftDirty(t, p) /\ \A q : q # p => (SoftDirty(t, q) <=> SoftDirty(c, q))
    BY <1>6 DEF SoftDirty
  <2>4. CleanKept(s, t)
    <3> SUFFICES ASSUME NEW q \in t.paged, ~SoftDirty(t, q)
                 PROVE  t.val[q] = IF q \in s.paged THEN s.val[q] ELSE Backing(t.vma[q])
      BY DEF CleanKept
    <3>1. q # p /\ q \in c.paged /\ q \in Page /\ ~SoftDirty(c, q)
      BY <1>6, <1>7, <2>3
    <3>2. t.val[q] = c.val[q]
      BY <1>4, <1>6, <3>1
    <3>3. t.vma[q] = c.vma[q]
      BY <1>10, <3>1
    <3> QED
      BY <3>1, <3>2, <3>3 DEF CleanKept, Content
  <2>5. ClosedEmpty(s, t)
    BY <1>6, <1>12 DEF ClosedEmpty, Content, Mapped
  <2> QED
    BY <2>2, <2>4, <2>5 DEF Content
<1> QED
  BY <1>9, <1>15, <1>16

-------------------------------------------------------------------------------
(* The index into the copied frames. *)

Upto(P, p) == {q \in P : q <= p}

LEMMA FewerPages ==
    ASSUME NEW S, S \subseteq Page, NEW T, T \subseteq S
    PROVE  /\ Cardinality(T) \in Nat /\ Cardinality(S) \in Nat
           /\ Cardinality(T) <= Cardinality(S)
           /\ Cardinality(T) = Cardinality(S) => T = S
<1>1. T \in SUBSET S /\ T \subseteq Page
  OBVIOUS
<1>2. IsFiniteSet(S) /\ Cardinality(S) \in Nat /\ Cardinality(T) \in Nat
  BY <1>1, PagesFinite
<1> QED
  BY <1>1, <1>2, FS_Subset

LEMMA NthIs ==
    ASSUME NEW P \in SUBSET Page, NEW p \in P
    PROVE  /\ Cardinality(Upto(P, p)) \in 1..Cardinality(P)
           /\ Nth(P, Cardinality(Upto(P, p))) = p
<1>1. \A x \in P : x \in Nat /\ Upto(P, x) \subseteq P /\ x \in Upto(P, x)
  BY PageAssumption DEF Page, Upto
<1>2. \A x \in P : Cardinality(Upto(P, x)) \in Nat /\ Cardinality(Upto(P, x)) <= Cardinality(P)
                   /\ Cardinality(P) \in Nat
  BY <1>1, FewerPages
<1>3. Cardinality(Upto(P, p)) # 0
  <2>1. IsFiniteSet(Upto(P, p))
    BY <1>1, PagesFinite
  <2> QED
    BY <1>1, <2>1, FS_EmptySet
<1>4. ASSUME NEW x \in P, NEW y \in P, x < y
      PROVE  Cardinality(Upto(P, x)) # Cardinality(Upto(P, y))
  <2>1. Upto(P, x) \subseteq Upto(P, y) /\ y \notin Upto(P, x)
    BY <1>1, <1>4 DEF Upto
  <2>2. Upto(P, x) # Upto(P, y) /\ Upto(P, y) \subseteq Page
    BY <1>1, <2>1
  <2> QED
    BY <2>1, <2>2, FewerPages
<1>5. \A x \in P : Cardinality(Upto(P, x)) = Cardinality(Upto(P, p)) => x = p
  BY <1>1, <1>4
<1> DEFINE n == Cardinality(Upto(P, p))
<1>6. Nth(P, n) = CHOOSE x \in P : Cardinality(Upto(P, x)) = n
  BY DEF Nth, Upto
<1>7. Nth(P, n) \in P /\ Cardinality(Upto(P, Nth(P, n))) = n
  <2> HIDE DEF Upto
  <2>1. p \in P /\ Cardinality(Upto(P, p)) = n
    OBVIOUS
  <2> HIDE DEF n
  <2> QED
    BY <1>6, <2>1
<1>8. Nth(P, n) = p
  BY <1>5, <1>7
<1>9. n \in 1..Cardinality(P)
  BY <1>2, <1>3
<1> QED
  BY <1>8, <1>9

\* restore_soft_dirty_memory finds in wmem what the checkpoint copied there.
LEMMA WmemAtIs ==
    ASSUME NEW s \in Space, snapshot.paged = s.paged,
           snapshot.wmem = populate_memory_copy_info(s),
           NEW m, m.addr_start \in Nat, NEW p \in s.paged, m.addr_start <= p
    PROVE  WmemAt(m, p) = s.val[p]
<1> DEFINE P == s.paged
           before == {q \in P : q < m.addr_start}
           within == {q \in P : m.addr_start <= q /\ q <= p}
<1>1. P \in SUBSET Page /\ p \in P /\ \A q \in P : q \in Nat
  BY SpaceFields, PageAssumption DEF Page
<1>2. before \cup within = Upto(P, p) /\ before \cap within = {}
  BY <1>1 DEF Upto
<1>3. before \subseteq Page /\ within \subseteq Page
  BY <1>1
<1>4. first_wmem_index(m) = Cardinality(before) /\ paged_index(m, p) = Cardinality(within)
  BY DEF first_wmem_index, paged_index
<1> HIDE DEF before, within, P
<1>5. Cardinality(before) + Cardinality(within) = Cardinality(Upto(P, p))
  <2>1. /\ IsFiniteSet(before) /\ IsFiniteSet(within)
        /\ Cardinality(before) \in Nat /\ Cardinality(within) \in Nat
    BY <1>3, PagesFinite
  <2>2. Cardinality(before \cap within) = 0
    BY <1>2, FS_EmptySet
  <2>3. Cardinality(before \cup within)
          = Cardinality(before) + Cardinality(within) - Cardinality(before \cap within)
    BY <2>1, FS_Union
  <2>4. Cardinality(before \cup within) = Cardinality(Upto(P, p))
    BY <1>2, Zenon
  <2> DEFINE b == Cardinality(before)
             w == Cardinality(within)
             u == Cardinality(before \cup within)
             i == Cardinality(before \cap within)
  <2>5. u = b + w - i /\ i = 0 /\ b \in Nat /\ w \in Nat
    BY <2>1, <2>2, <2>3
  <2> HIDE DEF b, w, u, i
  <2>6. b + w = u
    BY <2>5
  <2> QED
    BY <2>4, <2>6 DEF b, w, u
<1>6. Cardinality(Upto(P, p)) \in 1..Cardinality(P) /\ Nth(P, Cardinality(Upto(P, p))) = p
  BY <1>1, NthIs
<1>7. WmemAt(m, p) = snapshot.wmem[Cardinality(Upto(P, p))]
  BY <1>4, <1>5 DEF WmemAt
<1>8. snapshot.wmem = [n \in 1..Cardinality(P) |-> s.val[Nth(P, n)]]
  BY DEF populate_memory_copy_info, P
<1> QED
  BY <1>6, <1>7, <1>8

-------------------------------------------------------------------------------
(* The restore of the content.                                                *)

\* Clearing the counters leaves the maps as a capture without pages finds them.
LEMMA CountersCleared ==
    ASSUME NEW s, NEW Sd, NEW Freed
    PROVE  clear_counters(MapsWith(s, Sd, Freed)) = MapsWith(s, {}, {})
<1> DEFINE Starts == {q \in Page : StartsAt(s, q)}
           map(p, D, E) == [addr_start |-> p, addr_end |-> p + Cardinality(AreaOf(s, p)),
                            prot |-> s.vma[p].prot, tag |-> s.vma[p].tag,
                            soft_dirty_count |-> Cardinality(AreaOf(s, p) \cap D),
                            freed_count |-> Cardinality(AreaOf(s, p) \cap E)]
           zeroed(m) == [m EXCEPT !.soft_dirty_count = 0, !.freed_count = 0]
<1>1. \A D, E : MapsWith(s, D, E) = {map(p, D, E) : p \in Starts}
  BY DEF MapsWith
<1>2. ASSUME NEW p \in Starts PROVE zeroed(map(p, Sd, Freed)) = map(p, {}, {})
  <2>1. Cardinality(AreaOf(s, p) \cap {}) = 0
    <3>1. AreaOf(s, p) \cap {} = {}
      OBVIOUS
    <3> QED
      BY <3>1, FS_EmptySet
  <2> DEFINE end == p + Cardinality(AreaOf(s, p))
             dirty == Cardinality(AreaOf(s, p) \cap Sd)
             freed == Cardinality(AreaOf(s, p) \cap Freed)
             attr == s.vma[p]
             rec(d, e) == [addr_start |-> p, addr_end |-> end,
                           prot |-> attr.prot, tag |-> attr.tag,
                           soft_dirty_count |-> d, freed_count |-> e]
  <2>2. map(p, Sd, Freed) = rec(dirty, freed) /\ map(p, {}, {}) = rec(0, 0)
    BY <2>1
  <2> HIDE DEF map, end, dirty, freed, attr
  <2>3. /\ [rec(dirty, freed) EXCEPT !.soft_dirty_count = 0] = rec(0, freed)
        /\ [rec(0, freed) EXCEPT !.freed_count = 0] = rec(0, 0)
    OBVIOUS
  <2> HIDE DEF rec
  <2>4. zeroed(rec(dirty, freed)) = [[rec(dirty, freed) EXCEPT !.soft_dirty_count = 0]
                                        EXCEPT !.freed_count = 0]
    OBVIOUS
  <2> QED
    BY <2>2, <2>3, <2>4, Zenon
<1> HIDE DEF map, Starts
<1>3. clear_counters(MapsWith(s, Sd, Freed)) = {zeroed(m) : m \in MapsWith(s, Sd, Freed)}
  BY DEF clear_counters
<1> HIDE DEF zeroed
<1>4. {zeroed(m) : m \in {map(p, Sd, Freed) : p \in Starts}} = {map(p, {}, {}) : p \in Starts}
  BY <1>2
<1> QED
  BY <1>1, <1>3, <1>4

\* The maps of the snapshot: those of the checkpoint, with no counts.
LEMMA SnapshotMaps ==
    ASSUME NEW s \in Space, NEW m \in capture_maps(ClearSoftDirty(s))
    PROVE  IsMapOf(s, m) /\ m.soft_dirty_count = 0 /\ m.freed_count = 0
<1> DEFINE t == ClearSoftDirty(s)
<1>1. t.vma = s.vma /\ t.cut = s.cut
  BY ClearFacts
<1>2. m \in MapsWith(t, {}, {})
  BY DEF capture_maps
<1> HIDE DEF t
<1>3. /\ IsMapOf(t, m)
      /\ m.soft_dirty_count = Cardinality(PagesOf(m) \cap {})
      /\ m.freed_count = Cardinality(PagesOf(m) \cap {})
  BY <1>2, MapsAreAreas
<1>4. PagesOf(m) \cap {} = {}
  OBVIOUS
<1>5. IsMapOf(s, m)
  BY <1>1, <1>3 DEF IsMapOf, StartsAt
<1> QED
  BY <1>3, <1>4, <1>5, FS_EmptySet

LEMMA SnapshotPicture ==
    ASSUME NEW s \in Space PROVE IsPicture(s, capture_maps(ClearSoftDirty(s)))
<1> DEFINE t == ClearSoftDirty(s)
<1>1. t.vma = s.vma
  BY ClearFacts
<1>2. IsPicture(t, capture_maps(t))
  BY PicturesTaken DEF capture_maps
<1> HIDE DEF t
<1>3. Mapped(t) = Mapped(s)
  BY <1>1 DEF Mapped
<1>4. \A m \in capture_maps(t) : IsMapOf(s, m)
  BY SnapshotMaps DEF t
<1>5. IsPicture(s, capture_maps(t))
  BY <1>2, <1>3, <1>4 DEF IsPicture
<1> QED
  BY <1>5 DEF t

LEMMA CurrentMaps ==
    ASSUME NEW x \in Space, NEW n \in capture_pages(x)
    PROVE  /\ IsMapOf(x, n)
           /\ n.soft_dirty_count = Cardinality({p \in PagesOf(n) : SoftDirty(x, p)})
           /\ n.freed_count = Cardinality({p \in PagesOf(n) : IsFreed(x, p)})
<1> DEFINE Sd == x.sd \cup x.fresh
           Freed == {p \in Page : IsFreed(x, p)}
<1>1. /\ IsMapOf(x, n)
      /\ n.soft_dirty_count = Cardinality(PagesOf(n) \cap Sd)
      /\ n.freed_count = Cardinality(PagesOf(n) \cap Freed)
  BY MapsAreAreas DEF capture_pages
<1>2. PagesOf(n) \cap Sd = {p \in PagesOf(n) : SoftDirty(x, p)}
  BY DEF SoftDirty
<1>3. PagesOf(n) \cap Freed = {p \in PagesOf(n) : IsFreed(x, p)}
  BY <1>1 DEF IsMapOf
<1> QED
  BY <1>1, <1>2, <1>3

\* A map with the counters of the snapshot, which are 0, has a clean frame for
\* each of its pages.
LEMMA SameCountsCleanFrames ==
    ASSUME NEW s \in Space, NEW x \in Space,
           NEW m \in capture_maps(ClearSoftDirty(s)), m \in capture_pages(x),
           NEW p \in PagesOf(m)
    PROVE  ~SoftDirty(x, p) /\ p \in x.paged
<1> DEFINE Q == PagesOf(m)
           dirty == {q \in Q : SoftDirty(x, q)}
           freed == {q \in Q : IsFreed(x, q)}
<1>1. m.soft_dirty_count = 0 /\ m.freed_count = 0 /\ IsMapOf(s, m)
  BY SnapshotMaps
<1>2. m.soft_dirty_count = Cardinality(dirty) /\ m.freed_count = Cardinality(freed)
  BY CurrentMaps
<1>3. Q \subseteq Page
  BY <1>1 DEF IsMapOf
<1> HIDE DEF Q
<1>4. IsFiniteSet(dirty) /\ IsFiniteSet(freed)
  BY <1>3, PagesFinite
<1>5. dirty = {} /\ freed = {}
  BY <1>1, <1>4, <1>2, FS_EmptySet
<1>6. p \in Q
  BY DEF Q
<1> QED
  BY <1>5, <1>6 DEF IsFreed

\* What is filed as modified is a map of the checkpoint, but for its counters.
LEMMA ModifiedIsMap ==
    ASSUME NEW s, NEW I, NEW F, IsPicture(s, I), NEW r \in ModifiedMaps(I, F)
    PROVE  IsMapOf(s, r)
<1>1. PICK m \in I : SameRange(r, m) /\ r.prot = m.prot /\ r.tag = m.tag
  <2>1. CASE r \in {AllDirty(m) : m \in MissingFrom(I, F)}
    <3>1. PICK m \in I : r = AllDirty(m)
      BY <2>1 DEF MissingFrom
    <3> QED
      BY <3>1 DEF AllDirty, SameRange
  <2>2. CASE r \in ReprotectedMaps(I, F)
    <3>1. PICK w \in I \X F : r = WithDirtyCount(w[1], w[2])
      BY <2>2 DEF ReprotectedMaps
    <3> QED
      BY <3>1 DEF WithDirtyCount, SameRange
  <2>3. CASE r \in {WithCounts(q[1], q[2]) :
             q \in {w \in I \X F : /\ SameRange(w[1], w[2])
                                   /\ w[1].prot = w[2].prot
                                   /\ ~map_regions_equal(w[1], w[2])}}
    <3>1. PICK w \in I \X F : r = WithCounts(w[1], w[2])
      BY <2>3
    <3> QED
      BY <3>1 DEF WithCounts, SameRange
  <2> QED
    BY <2>1, <2>2, <2>3 DEF ModifiedMaps
<1>2. IsMapOf(s, m)
  BY DEF IsPicture
<1>3. r.addr_start = m.addr_start /\ r.addr_end = m.addr_end /\ PagesOf(r) = PagesOf(m)
  BY <1>1 DEF SameRange, PagesOf
<1> QED
  BY <1>1, <1>2, <1>3 DEF IsMapOf

\* A map of the checkpoint is filed as modified, or is there as it was, its
\* counters included.
LEMMA ModifiedOrSame ==
    ASSUME NEW I, NEW F, NEW m \in I
    PROVE  \/ m \in F
           \/ \E r \in ModifiedMaps(I, F) : PagesOf(r) = PagesOf(m) /\ r.prot = m.prot
<1>1. CASE \A n \in F : ~SameRange(m, n)
  <2>1. AllDirty(m) \in ModifiedMaps(I, F)
    BY <1>1 DEF ModifiedMaps, MissingFrom
  <2>2. PagesOf(AllDirty(m)) = PagesOf(m) /\ AllDirty(m).prot = m.prot
    BY DEF AllDirty, PagesOf
  <2> QED
    BY <2>1, <2>2
<1>2. ASSUME NEW n \in F, SameRange(m, n), m # n
      PROVE  \E r \in ModifiedMaps(I, F) : PagesOf(r) = PagesOf(m) /\ r.prot = m.prot
  <2>1. CASE m.prot # n.prot
    <3>1. <<m, n>> \in {w \in I \X F : SameRange(w[1], w[2]) /\ w[1].prot # w[2].prot}
      BY <1>2, <2>1
    <3>2. WithDirtyCount(<<m, n>>[1], <<m, n>>[2]) \in ReprotectedMaps(I, F)
      BY <3>1 DEF ReprotectedMaps
    <3>3. WithDirtyCount(m, n) \in ModifiedMaps(I, F)
      BY <3>2 DEF ModifiedMaps
    <3>4. PagesOf(WithDirtyCount(m, n)) = PagesOf(m) /\ WithDirtyCount(m, n).prot = m.prot
      BY DEF WithDirtyCount, PagesOf
    <3> QED
      BY <3>3, <3>4
  <2>2. CASE m.prot = n.prot
    <3> DEFINE W == {w \in I \X F : /\ SameRange(w[1], w[2])
                                    /\ w[1].prot = w[2].prot
                                    /\ ~map_regions_equal(w[1], w[2])}
    <3>1. <<m, n>> \in W
      BY <1>2, <2>2 DEF map_regions_equal
    <3> HIDE DEF W
    <3>2. WithCounts(<<m, n>>[1], <<m, n>>[2]) \in {WithCounts(q[1], q[2]) : q \in W}
      BY <3>1
    <3>3. WithCounts(m, n) \in ModifiedMaps(I, F)
      BY <3>2 DEF ModifiedMaps, W
    <3>4. PagesOf(WithCounts(m, n)) = PagesOf(m) /\ WithCounts(m, n).prot = m.prot
      BY DEF WithCounts, PagesOf
    <3> QED
      BY <3>3, <3>4
  <2> QED
    BY <2>1, <2>2
<1> QED
  BY <1>1, <1>2

\* When the contents are restored the layout is that of the checkpoint, and the
\* pages have been compared.
Recaptured ==
    /\ saved \in Space /\ TameSpace(saved) /\ space \in Space
    /\ space.vma = saved.vma /\ Content(saved, space)
    /\ snapshot.maps = capture_maps(ClearSoftDirty(saved))
    /\ snapshot.paged = saved.paged /\ snapshot.wmem = populate_memory_copy_info(saved)
    /\ curr = capture_pages(space)
    /\ p_diff.modified = ModifiedMaps(snapshot.maps, curr)

LEMMA PicturesAgree ==
    ASSUME Recaptured
    PROVE  /\ IsPicture(saved, snapshot.maps) /\ IsPicture(space, curr)
           /\ Span(snapshot.maps) = Mapped(saved) /\ Span(curr) = Mapped(saved)
<1>1. IsPicture(saved, snapshot.maps) /\ IsPicture(space, curr)
  BY SnapshotPicture, PicturesTaken DEF Recaptured, capture_pages
<1>2. \A s, M : IsPicture(s, M) => Span(M) = Mapped(s)
  BY DEF IsPicture, Span, IsMapOf, Mapped
<1>3. Mapped(space) = Mapped(saved)
  BY DEF Recaptured, Mapped
<1> QED
  BY <1>1, <1>2, <1>3

\* What is copied back is what was copied, to the pages it was copied from.
LEMMA RestoredMap ==
    ASSUME Recaptured, NEW m \in Restored
    PROVE  /\ IsMapOf(saved, m)
           /\ PagesOf(m) \subseteq Page /\ PagesOf(m) \subseteq Mapped(saved)
           /\ \A p \in PagesOf(m) : p \in saved.paged => WmemAt(m, p) = saved.val[p]
<1>1. m \in ModifiedMaps(snapshot.maps, curr)
  BY DEF Restored, Recaptured
<1>2. IsMapOf(saved, m)
  BY <1>1, PicturesAgree, ModifiedIsMap
<1>3. PagesOf(m) \subseteq Page /\ PagesOf(m) \subseteq Mapped(saved)
  BY <1>2 DEF IsMapOf, Mapped
<1>4. ASSUME NEW p \in PagesOf(m), p \in saved.paged PROVE WmemAt(m, p) = saved.val[p]
  <2>1. m.addr_start \in Nat /\ m.addr_start <= p
    BY <1>2, PageAssumption DEF IsMapOf, PagesOf, Page
  <2> QED
    BY <1>4, <2>1, WmemAtIs DEF Recaptured
<1> QED
  BY <1>2, <1>3, <1>4

\* The local definitions of restore_soft_dirty_memory: whole, parts, P, the pages
\* it discards, from.
Whole   == {m \in Restored : WholeMap(m)}
Parts   == Restored \ Whole
Written == Span(Whole) \cup UNION {ToWrite(m) : m \in Parts}
Thrown  == UNION {ToDiscard(m) : m \in Parts}
From    == [p \in Written |-> LET m == CHOOSE n \in Restored : p \in PagesOf(n)
                              IN  WmemAt(m, p)]

\* What is written has a frame in the snapshot, what is discarded has none, and
\* the rest is as it was.
LEMMA WrittenFromSnapshot ==
    ASSUME Recaptured
    PROVE  /\ Written \in SUBSET Page
           /\ \A p \in Written : p \in saved.paged /\ From[p] = saved.val[p]
<1>1. ASSUME NEW p \in Written
      PROVE  /\ p \in Page /\ p \in saved.paged
             /\ \E m \in Restored : p \in PagesOf(m)
  <2>1. CASE p \in Span(Whole)
    <3>1. PICK m \in Whole : p \in PagesOf(m)
      BY <2>1 DEF Span
    <3>2. m \in Restored /\ PagesOf(m) \subseteq snapshot.paged
      BY DEF Whole, WholeMap
    <3> QED
      BY <3>1, <3>2, RestoredMap DEF Recaptured
  <2>2. CASE p \notin Span(Whole)
    <3>1. PICK m \in Parts : p \in ToWrite(m)
      BY <2>2 DEF Written
    <3>2. m \in Restored /\ p \in PagesOf(m) /\ p \in snapshot.paged
      BY <3>1 DEF Parts, ToWrite, ToDiscard
    <3> QED
      BY <3>2, RestoredMap DEF Recaptured
  <2> QED
    BY <2>1, <2>2
<1>2. ASSUME NEW p \in Written PROVE From[p] = saved.val[p]
  <2> DEFINE m == CHOOSE n \in Restored : p \in PagesOf(n)
  <2>1. m \in Restored /\ p \in PagesOf(m)
    BY <1>1
  <2>2. From[p] = WmemAt(m, p)
    BY DEF From
  <2> HIDE DEF m
  <2> QED
    BY <1>1, <2>1, <2>2, RestoredMap
<1> QED
  BY <1>1, <1>2

LEMMA ThrownHadNoFrame ==
    ASSUME Recaptured PROVE Thrown \in SUBSET Page /\ Thrown \cap saved.paged = {}
<1> SUFFICES ASSUME NEW p \in Thrown PROVE p \in Page /\ p \notin saved.paged
  OBVIOUS
<1>1. PICK m \in Parts : p \in ToDiscard(m)
  BY DEF Thrown
<1>2. m \in Restored /\ p \in PagesOf(m) /\ p \notin snapshot.paged
  BY <1>1 DEF Parts, ToDiscard
<1> QED
  BY <1>2, RestoredMap DEF Recaptured

LEMMA RestIsAsItWas ==
    ASSUME Recaptured, NEW p \in Page, p \notin Written, p \notin Thrown
    PROVE  /\ space.val[p] = saved.val[p]
           /\ p \in space.paged \ saved.paged => ~SoftDirty(space, p)
<1>1. /\ saved \in Space /\ TameSpace(saved) /\ space \in Space
      /\ space.vma = saved.vma /\ Content(saved, space) /\ snapshot.paged = saved.paged
      /\ snapshot.maps = capture_maps(ClearSoftDirty(saved)) /\ curr = capture_pages(space)
  BY DEF Recaptured
<1>2. /\ \A q \in Page \ saved.paged : saved.val[q] = Backing(saved.vma[q])
      /\ \A q \in Page \ space.paged : space.val[q] = Backing(saved.vma[q])
      /\ saved.paged \subseteq Mapped(saved) /\ space.paged \subseteq Mapped(saved)
  BY <1>1 DEF TameSpace, Content, Backed, Mapped
<1>3. CASE p \notin saved.paged /\ p \notin space.paged
  BY <1>2, <1>3
<1>4. CASE p \in space.paged /\ ~SoftDirty(space, p)
  <2>1. space.val[p] = IF p \in saved.paged THEN saved.val[p] ELSE Backing(saved.vma[p])
    BY <1>1, <1>4 DEF Content, CleanKept
  <2> QED
    BY <1>2, <1>4, <2>1
<1>5. CASE p \in Mapped(saved)
  <2>1. PICK m \in snapshot.maps : p \in PagesOf(m)
    BY <1>5, PicturesAgree DEF IsPicture
  <2>2. CASE m \in curr
    <3>1. ~SoftDirty(space, p) /\ p \in space.paged
      BY <1>1, <2>1, <2>2, SameCountsCleanFrames
    <3> QED
      BY <1>4, <3>1
  <2>3. CASE m \notin curr
    <3>1. PICK r \in ModifiedMaps(snapshot.maps, curr) :
            PagesOf(r) = PagesOf(m) /\ r.prot = m.prot
      BY <2>3, ModifiedOrSame
    <3>2. p \in PagesOf(r) /\ r \in p_diff.modified
      BY <2>1, <3>1 DEF Recaptured
    <3>3. CASE r \notin Restored
      <4>1. ~Accessible(r)
        BY <3>2, <3>3 DEF Restored, Accessible
      <4>2. saved.vma[p].prot = m.prot
        BY <2>1, PicturesAgree DEF IsPicture, IsMapOf
      <4>3. ~Accessible(saved.vma[p])
        BY <3>1, <4>1, <4>2 DEF Accessible
      <4>4. p \notin saved.paged /\ p \notin space.paged
        BY <1>1, <1>5, <4>3 DEF TameSpace, Content, ClosedEmpty
      <4> QED
        BY <1>3, <4>4
    <3>4. CASE r \in Whole
      BY <3>2, <3>4 DEF Written, Span
    <3>5. CASE r \in Parts
      <4>1. p \notin ToDiscard(r) /\ p \notin ToWrite(r)
        BY <3>5 DEF Written, Thrown
      <4>2. p \in saved.paged \/ p \notin space.paged
        BY <1>1, <3>2, <4>1 DEF ToDiscard
      <4>3. \/ ~SoftDirty(space, p) /\ ~IsFreed(space, p)
            \/ p \notin saved.paged /\ p \notin space.paged
        BY <1>1, <3>2, <4>1 DEF ToWrite
      <4> QED
        BY <1>3, <1>4, <4>2, <4>3 DEF IsFreed
    <3> QED
      BY <3>3, <3>4, <3>5 DEF Parts
  <2> QED
    BY <2>2, <2>3
<1> QED
  BY <1>2, <1>3, <1>5

LEMMA IndicesAgree ==
    ASSUME Recaptured, NEW p \in Span(Parts) PROVE SamePageIndex(p)
<1>1. PICK m \in Restored : p \in PagesOf(m)
  BY DEF Span, Parts
<1>2. p \in Mapped(saved)
  BY <1>1, RestoredMap
<1> QED
  BY <1>2, PicturesAgree DEF SamePageIndex

-------------------------------------------------------------------------------
(* The inductive invariant. *)

Snapped ==
    snapshot = [maps |-> capture_maps(ClearSoftDirty(saved)), paged |-> saved.paged,
                wmem |-> populate_memory_copy_info(saved)]

Diffed == p_diff = diff_process_states(snapshot.maps, curr)

HeldNow(c) == Held(saved, c, snapshot.maps, curr)

Settling == {"diffed", "unmapped", "remapped", "protected", "heap_done"}
Settled  == {"stack_done", "recaptured", "written", "discarded"}

\* The layout, on its way back to the one of the checkpoint.
Layout ==
    /\ pc = "running" => Laid(saved, space)
    /\ pc = "diffed" => HeldNow(space)
    /\ pc = "unmapped" =>
         \E c : HeldNow(c) /\ ClearedIn(space, c, snapshot.maps, curr)
    /\ pc = "remapped" =>
         \E c : HeldNow(c) /\ RemadeIn(space, saved, c, snapshot.maps, curr)
    /\ pc = "protected" => \E c : HeldNow(c) /\ ReprotectedIn(space, saved, c)
    /\ pc = "heap_done" => \E c : HeldNow(c) /\ HeapBackIn(space, saved, c)
    /\ pc \in Settled => space.vma = saved.vma
    /\ pc \in {"diffed", "unmapped", "remapped", "recaptured"} => Diffed
    /\ pc = "recaptured" => curr = capture_pages(space)

\* The content, on its way back.
Contents ==
    /\ pc \in {"running", "stack_done", "recaptured"} \cup Settling => Content(saved, space)
    /\ pc \in {"written", "discarded"} => Backed(space) /\ ClosedEmpty(saved, space)
    /\ pc = "written" =>
         /\ madvises \cap saved.paged = {}
         /\ \A p \in Page \ madvises : space.val[p] = saved.val[p]
         /\ \A p \in space.paged \ saved.paged : p \in space.sd => p \in madvises
    /\ pc = "discarded" => space.val = saved.val
    /\ JustRestored => space.vma = saved.vma /\ space.val = saved.val

Steady ==
    /\ TypeOK
    /\ saved \in InitialSpaces
    /\ pc # "aborted"
    /\ pc \notin {"start", "running"} => restores < MaxRestores
    /\ pc = "start" => space = saved
    /\ pc # "start" => Snapped /\ CutsAllowed(space)

IInv == Steady /\ Layout /\ Contents

LEMMA SavedKnown ==
    ASSUME Tame, Steady PROVE saved \in Space /\ TameSpace(saved) /\ space \in Space
  BY RestoreAssumption DEF Tame, Steady, TypeOK

LEMMA MapsAreRegions ==
    ASSUME NEW s \in Space, NEW Sd, NEW Freed PROVE MapsWith(s, Sd, Freed) \subseteq Region
<1> SUFFICES ASSUME NEW m \in MapsWith(s, Sd, Freed) PROVE m \in Region
  OBVIOUS
<1>1. PICK p \in Page :
         /\ StartsAt(s, p)
         /\ m = [addr_start |-> p, addr_end |-> p + Cardinality(AreaOf(s, p)),
                 prot |-> s.vma[p].prot, tag |-> s.vma[p].tag,
                 soft_dirty_count |-> Cardinality(AreaOf(s, p) \cap Sd),
                 freed_count |-> Cardinality(AreaOf(s, p) \cap Freed)]
  BY DEF MapsWith
<1>2. s.vma[p].prot \in Prot /\ s.vma[p].tag \in Tag
  BY <1>1, SpaceFields DEF StartsAt, Attr
<1> DEFINE A == AreaOf(s, p)
<1>3. /\ Cardinality(A) \in Nat
      /\ Cardinality(A \cap Sd) \in Nat /\ Cardinality(A \cap Freed) \in Nat
  <2>1. A \subseteq Page
    BY DEF AreaOf, Mapped
  <2> QED
    BY <2>1, PagesFinite
<1> HIDE DEF A
<1>4. p \in Nat /\ p + Cardinality(A) \in Nat
  BY <1>3, PageAssumption DEF Page
<1> QED
  BY <1>1, <1>2, <1>3, <1>4 DEF Region, A

\* The maps differ from nothing: the layout of the checkpoint is Laid.
LEMMA LaidAtCheckpoint ==
    ASSUME Tame, NEW s \in Space, TameSpace(s),
           NEW t \in Space, t.vma = s.vma, CutsAllowed(t)
    PROVE  Laid(s, t)
<1>1. Mapped(t) = Mapped(s) /\ \A T : Tagged(t, T) = Tagged(s, T)
  BY DEF Mapped, Tagged
<1>2. KeptOutside(s, t)
  BY DEF KeptOutside
<1>3. NewOutside(s, t)
  BY <1>1 DEF NewOutside
<1>4. PlainInside(t)
  <2> SUFFICES ASSUME NEW p \in MapArea PROVE s.vma[p].tag \in {"anon", "file", "unmapped"}
    BY DEF PlainInside
  <2>1. p \in Page
    BY RestoreAssumption
  <2>2. s.vma[p].tag # "[heap]"
    BY <2>1, PlacesApart DEF Tagged
  <2>3. s.vma[p].tag # "[stack]"
    BY <2>1, StackApart DEF Tagged, TameSpace
  <2> QED
    BY <2>1, <2>2, <2>3, TagKnown
<1>5. HeapMoved(s, t)
  <2>1. HeapInOnePiece(t)
    BY <1>1 DEF TameSpace, HeapInOnePiece
  <2>2. \A p \in Tagged(s, "[heap]") : t.vma[p].tag = "[heap]"
    BY DEF Tagged
  <2> QED
    BY <1>1, <2>1, <2>2 DEF HeapMoved
<1>6. StackGrown(s, t)
  <2>1. PICK a, e \in StackMin..LastPage : a <= e /\ Tagged(s, "[stack]") = a..e
    BY DEF TameSpace, StackInOnePiece
  <2>2. a <= a
    BY <2>1, PageAssumption, RestoreAssumption DEF Page
  <2> QED
    BY <1>1, <2>1, <2>2 DEF StackGrown
<1>7. Fused(t, "file") /\ Fused(t, "[stack]")
  BY DEF TameSpace, Fused
<1>8. Fused(t, "[heap]")
  <2>1. \A p \in Page : s.vma[p].tag = "[heap]" => s.vma[p] = HeapAttr
    BY DEF TameSpace, Tagged
  <2>2. \A p \in Page : p > 0 => p - 1 \in Page
    BY PageAssumption DEF Page
  <2> QED
    BY <2>1, <2>2 DEF Fused
<1> QED
  BY <1>1, <1>2, <1>3, <1>4, <1>5, <1>6, <1>7, <1>8 DEF Laid

LEMMA InitInv == ASSUME Tame, Init PROVE IInv
<1>1. TypeOK
  BY RestoreAssumption DEF Init, TypeOK, NoSnapshot, Stages
<1>2. Steady
  BY <1>1 DEF Init, Steady
<1> QED
  BY <1>2 DEF Init, IInv, Layout, Contents, Settling, Settled, JustRestored

-------------------------------------------------------------------------------
(* Checkpoint, and the function at work. *)

LEMMA CheckpointStep == ASSUME Tame, IInv, Checkpoint PROVE IInv'
<1>1. /\ pc = "start" /\ pc' = "running" /\ space = saved /\ saved' = saved
      /\ space' = ClearSoftDirty(saved) /\ saved \in Space /\ TameSpace(saved)
      /\ saved \in InitialSpaces
  BY SavedKnown DEF Checkpoint, IInv, Steady
<1>2. /\ space' \in Space /\ space'.vma = saved.vma /\ space'.cut = saved.cut
      /\ space'.val = saved.val /\ space'.paged = saved.paged
  BY <1>1, ClearFacts
<1>3. Snapped'
  <2>1. clear_counters(capture_pages(space')) = capture_maps(space')
    BY CountersCleared DEF capture_pages, capture_maps
  <2> QED
    BY <1>1, <2>1 DEF Checkpoint, Snapped
<1>4. TypeOK'
  <2>1. snapshot'.maps = capture_maps(space') /\ snapshot'.paged = saved.paged
    BY <1>1, <1>3 DEF Snapped
  <2>2. snapshot'.maps \subseteq Region
    BY <1>2, <2>1, MapsAreRegions DEF capture_maps
  <2>3. snapshot'.paged \subseteq Page
    BY <1>1, <2>1, SpaceFields
  <2> QED
    BY <1>1, <1>2, <2>2, <2>3 DEF Checkpoint, IInv, Steady, TypeOK, Stages
<1>5. CutsAllowed(space')
  <2>1. CutsAllowed(saved)
    BY <1>1 DEF TameSpace
  <2> QED
    BY <1>2, <2>1 DEF CutsAllowed
<1>6. Content(saved, space')
  <2>1. Backed(saved) /\ ClosedEmpty(saved, saved)
    BY <1>1 DEF TameSpace, ClosedEmpty
  <2> QED
    BY <1>1, <2>1, ClearContent
<1>7. Laid(saved, space')
  BY <1>1, <1>2, <1>5, LaidAtCheckpoint
<1>8. Steady'
  BY <1>1, <1>3, <1>4, <1>5 DEF Steady
<1>9. Layout'
  BY <1>1, <1>7 DEF Layout, Settled
<1>10. Contents'
  BY <1>1, <1>2, <1>6 DEF Contents, Settling
<1> QED
  BY <1>8, <1>9, <1>10 DEF IInv

\* Whatever the function does, if it keeps Laid and Content.
LEMMA FunctionStep ==
    ASSUME Tame, IInv, NEW op, Function(op),
           space' \in Space /\ Laid(saved, space') /\ Content(saved, space')
    PROVE  IInv'
<1>1. /\ pc = "running" /\ pc' = "running" /\ saved' = saved /\ snapshot' = snapshot
      /\ ops < MaxOps /\ ops' = ops + 1 /\ curr' = curr /\ madvises' = madvises
      /\ restores' = restores
  BY DEF Function, manager
<1>2. ops \in Nat /\ ops' # 0 /\ ops' \in 0..MaxOps
  BY <1>1, RestoreAssumption DEF IInv, Steady, TypeOK
<1>3. TypeOK'
  BY <1>1, <1>2 DEF IInv, Steady, TypeOK
<1>4. Snapped'
  BY <1>1 DEF IInv, Steady, Snapped
<1>5. Steady'
  <2>1. CutsAllowed(space')
    BY DEF Laid
  <2> QED
    BY <1>1, <1>3, <1>4, <2>1 DEF IInv, Steady
<1>6. Layout'
  BY <1>1 DEF Layout, Settled
<1>7. Contents'
  BY <1>1, <1>2 DEF Contents, Settling, JustRestored
<1> QED
  BY <1>5, <1>6, <1>7 DEF IInv

LEMMA RunningKnown ==
    ASSUME Tame, IInv, pc = "running"
    PROVE  /\ saved \in Space /\ TameSpace(saved) /\ space \in Space
           /\ Laid(saved, space) /\ Content(saved, space) /\ snapshot.paged = saved.paged
<1>1. snapshot.paged = saved.paged
  BY DEF IInv, Steady, Snapped
<1> QED
  BY <1>1, SavedKnown DEF IInv, Layout, Contents

LEMMA NoSuchOps ==
    ASSUME Tame
    PROVE  /\ "split_heap" \notin FunctionOps /\ "remap_file" \notin FunctionOps
           /\ "load_freed" \notin FunctionOps
  BY DEF Tame

LEMMA FnStoreStep == ASSUME Tame, IInv, FnStore PROVE IInv'
<1>1. PICK p \in Mapped(space) :
        /\ Function("store") /\ "w" \in space.vma[p].prot
        /\ space' = Store(space, {p}, [q \in Page |-> NewVal])
  BY DEF FnStore
<1>2. pc = "running"
  BY <1>1 DEF Function
<1>3. space' \in Space /\ Laid(saved, space') /\ Content(saved, space')
  BY <1>1, <1>2, RunningKnown, StoreKeeps
<1> QED
  BY <1>1, <1>3, FunctionStep

LEMMA FnLoadStep == ASSUME Tame, IInv, FnLoad PROVE IInv'
<1>1. PICK p \in Mapped(space) :
        /\ Function("load") /\ "r" \in space.vma[p].prot
        /\ IsFreed(space, p) /\ p \in snapshot.paged => "load_freed" \in FunctionOps
        /\ space' = Load(space, p)
  BY DEF FnLoad
<1>2. pc = "running"
  BY <1>1 DEF Function
<1>3. /\ saved \in Space /\ TameSpace(saved) /\ space \in Space
      /\ Laid(saved, space) /\ Content(saved, space) /\ snapshot.paged = saved.paged
  BY <1>2, RunningKnown
<1>4. ~ (IsFreed(space, p) /\ p \in saved.paged)
  BY <1>1, <1>3, NoSuchOps
<1>5. space' \in Space /\ Laid(saved, space') /\ Content(saved, space')
  BY <1>1, <1>3, <1>4, LoadKeeps
<1> QED
  BY <1>1, <1>5, FunctionStep

LEMMA FnDiscardStep == ASSUME Tame, IInv, FnDiscard PROVE IInv'
<1>1. PICK p \in Mapped(space) :
        Function("discard") /\ space' = DontNeed(space, {p})
  BY DEF FnDiscard
<1>2. pc = "running"
  BY <1>1 DEF Function
<1>3. space' \in Space /\ Laid(saved, space') /\ Content(saved, space')
  BY <1>1, <1>2, RunningKnown, DiscardKeeps
<1> QED
  BY <1>1, <1>3, FunctionStep

LEMMA NoFileReplaced ==
    ASSUME Tame, NEW P, MayReplace(P) PROVE P \cap Tagged(space, "file") = {}
  BY NoSuchOps DEF MayReplace, FilePages, Tagged

LEMMA FnMmapStep == ASSUME Tame, IInv, FnMmap PROVE IInv'
<1>1. PICK P \in Intervals(MapArea), prot \in MmapProts :
        /\ Function("mmap") /\ MayReplace(P)
        /\ space' \in Mmap(space, P, [p \in Page |-> [prot |-> prot, tag |-> "anon"]])
  BY DEF FnMmap
<1>2. pc = "running" /\ P \in SUBSET MapArea /\ prot \in Prot
  BY <1>1, RestoreAssumption DEF Function, Intervals
<1>3. P \cap Tagged(space, "file") = {}
  BY <1>1, NoFileReplaced
<1>4. space' \in Space /\ Laid(saved, space') /\ Content(saved, space')
  BY <1>1, <1>2, <1>3, RunningKnown, MmapKeeps
<1> QED
  BY <1>1, <1>4, FunctionStep

LEMMA FnMunmapStep == ASSUME Tame, IInv, FnMunmap PROVE IInv'
<1>1. PICK P \in Intervals(MapArea) :
        Function("munmap") /\ MayReplace(P) /\ space' = Munmap(space, P)
  BY DEF FnMunmap
<1>2. pc = "running" /\ P \in SUBSET MapArea
  BY <1>1 DEF Function, Intervals
<1>3. P \cap Tagged(space, "file") = {}
  BY <1>1, NoFileReplaced
<1>4. space' \in Space /\ Laid(saved, space') /\ Content(saved, space')
  BY <1>1, <1>2, <1>3, RunningKnown, MunmapKeeps
<1> QED
  BY <1>1, <1>4, FunctionStep

LEMMA FnMprotectStep == ASSUME Tame, IInv, FnMprotect PROVE IInv'
<1>1. PICK P \in Intervals(MapArea), prot \in MprotectProts :
        /\ Function("mprotect") /\ P \subseteq Mapped(space) /\ MaySplit(P)
        /\ space' \in Mprotect(space, P, [p \in Page |-> prot])
  BY DEF FnMprotect
<1>2. pc = "running" /\ P \in SUBSET MapArea /\ prot \in Prot
  BY <1>1, RestoreAssumption DEF Function, Intervals
<1>3. \A p \in P \cap Tagged(space, "file") : AreaOf(space, p) \subseteq P
  BY <1>1, NoSuchOps DEF MaySplit, FilePages, Tagged
<1>4. space' \in Space /\ Laid(saved, space') /\ Content(saved, space')
  BY <1>1, <1>2, <1>3, RunningKnown, MprotectKeeps
<1> QED
  BY <1>1, <1>4, FunctionStep

LEMMA FnBrkStep == ASSUME Tame, IInv, FnBrk PROVE IInv'
<1>1. PICK end \in (HeapStart + 1)..HeapMax :
        /\ Function("brk")
        /\ HeapIntact \/ "split_heap" \in FunctionOps
        /\ BrkPossible(space, end) /\ space' = Brk(space, end)
  BY DEF FnBrk
<1>2. pc = "running" /\ \A p \in HeapPages(space) : space.vma[p] = HeapAttr
  BY <1>1, NoSuchOps DEF Function, HeapIntact
<1>3. space' \in Space /\ Laid(saved, space') /\ Content(saved, space')
  BY <1>1, <1>2, RunningKnown, BrkKeeps
<1> QED
  BY <1>1, <1>3, FunctionStep

LEMMA FnMprotectHeapStep == ASSUME Tame, IInv, FnMprotectHeap PROVE IInv'
<1>1. PICK P \in Intervals(HeapPages(space)), prot \in MprotectProts :
        /\ Function("mprotect")
        /\ (P = HeapPages(space) /\ HeapInPlace) \/ "split_heap" \in FunctionOps
        /\ space' \in Mprotect(space, P, [p \in Page |-> prot])
  BY DEF FnMprotectHeap
<1>2. pc = "running" /\ prot \in Prot /\ P = HeapPages(space) /\ P = Tagged(saved, "[heap]")
  BY <1>1, NoSuchOps, RestoreAssumption DEF Function, HeapInPlace, Tagged
<1>3. space' \in Space /\ Laid(saved, space') /\ Content(saved, space')
  BY <1>1, <1>2, RunningKnown, MprotectHeapKeeps
<1> QED
  BY <1>1, <1>3, FunctionStep

LEMMA FnGrowStackStep == ASSUME Tame, IInv, FnGrowStack PROVE IInv'
<1>1. PICK p \in Page :
        /\ Function("stack")
        /\ p >= StackMin /\ space.vma[p] = Unmapped
        /\ p + 1 \in Page /\ space.vma[p + 1].tag = "[stack]"
        /\ space' = [Store(space, {p}, [q \in Page |-> NewVal])
                       EXCEPT !.vma[p] = space.vma[p + 1]]
  BY DEF FnGrowStack
<1>2. pc = "running"
  BY <1>1 DEF Function
<1>3. space' \in Space /\ Laid(saved, space') /\ Content(saved, space')
  BY <1>1, <1>2, RunningKnown, GrowStackKeeps
<1> QED
  BY <1>1, <1>3, FunctionStep

-------------------------------------------------------------------------------
(* The restore. *)

\* The parts of Steady that no stage of the restore disturbs.
LEMMA StageSteady ==
    ASSUME Tame, IInv, NEW from, NEW to \in Stages \ {"start", "running", "aborted"},
           Stage(from, to), from # "start", restores < MaxRestores,
           space' \in Space, CutsAllowed(space'), curr' \subseteq Region,
           madvises' \subseteq Page
    PROVE  Steady'
<1>1. /\ pc = from /\ pc' = to /\ saved' = saved /\ snapshot' = snapshot
      /\ ops' = ops /\ restores' = restores
  BY DEF Stage
<1>2. TypeOK'
  BY <1>1 DEF IInv, Steady, TypeOK
<1>3. Snapped'
  BY <1>1 DEF IInv, Steady, Snapped
<1> QED
  BY <1>1, <1>2, <1>3 DEF IInv, Steady

LEMMA DiffMapsStep == ASSUME Tame, IInv, DiffMaps PROVE IInv'
<1>1. /\ pc = "running" /\ pc' = "diffed" /\ Stage("running", "diffed")
      /\ restores < MaxRestores /\ space' = space /\ madvises' = madvises
      /\ saved' = saved /\ snapshot' = snapshot
      /\ curr' = capture_maps(space) /\ p_diff' = diff_process_states(snapshot.maps, curr')
  BY DEF DiffMaps, Stage
<1>2. /\ saved \in Space /\ TameSpace(saved) /\ space \in Space
      /\ Laid(saved, space) /\ Content(saved, space)
  BY <1>1, RunningKnown
<1>3. Steady'
  <2>1. curr' \subseteq Region
    BY <1>1, <1>2, MapsAreRegions DEF capture_maps
  <2>2. CutsAllowed(space')
    BY <1>1, <1>2 DEF Laid
  <2>3. madvises' \subseteq Page
    BY <1>1 DEF IInv, Steady, TypeOK
  <2>4. "diffed" \in Stages \ {"start", "running", "aborted"}
    BY DEF Stages
  <2> QED
    BY <1>1, <1>2, <2>1, <2>2, <2>3, <2>4, StageSteady
<1>4. HeldNow(space)'
  <2>1. IsPicture(space, capture_maps(space))
    BY PicturesTaken DEF capture_maps
  <2>2. IsPicture(saved, snapshot.maps)
    BY <1>1, <1>2, SnapshotPicture DEF IInv, Steady, Snapped
  <2>3. Held(saved, space, snapshot.maps, capture_maps(space))
    BY <1>2, <2>1, <2>2 DEF Held
  <2> QED
    BY <1>1, <2>3 DEF HeldNow
<1>5. Layout'
  BY <1>1, <1>4 DEF Layout, Settled, Diffed
<1>6. Contents'
  BY <1>1, <1>2 DEF Contents, JustRestored
<1> QED
  BY <1>3, <1>5, <1>6 DEF IInv

\* What is known in the five stages that put the layout back.
LEMMA StageKnown ==
    ASSUME Tame, IInv, pc \in Settling \cup Settled
    PROVE  /\ saved \in Space /\ TameSpace(saved) /\ space \in Space /\ CutsAllowed(space)
           /\ restores < MaxRestores /\ curr \subseteq Region /\ madvises \subseteq Page
           /\ Snapped /\ Unmapped \notin Attr
           /\ pc \in {"stack_done", "recaptured"} \cup Settling => Content(saved, space)
<1>1. pc \notin {"start", "running"} /\ Unmapped \notin Attr
  BY DEF Settling, Settled, Tame, Attr, Unmapped
<1>2. /\ saved \in Space /\ TameSpace(saved) /\ space \in Space
  BY SavedKnown DEF IInv
<1> QED
  BY <1>1, <1>2 DEF IInv, Steady, TypeOK, Contents

LEMMA RemoveAddedStep == ASSUME Tame, IInv, remove_added_memory PROVE IInv'
<1>1. /\ pc = "diffed" /\ pc' = "unmapped" /\ Stage("diffed", "unmapped")
      /\ space' = Munmap(space, Span({m \in p_diff.added : ~Special(m)}))
      /\ curr' = curr /\ p_diff' = p_diff /\ madvises' = madvises
      /\ saved' = saved /\ snapshot' = snapshot
  BY DEF remove_added_memory, Stage
<1>2. /\ saved \in Space /\ TameSpace(saved) /\ space \in Space /\ CutsAllowed(space)
      /\ restores < MaxRestores /\ curr \subseteq Region /\ madvises \subseteq Page
      /\ Content(saved, space) /\ HeldNow(space) /\ Diffed
  BY <1>1, StageKnown DEF IInv, Layout, Settling
<1>3. p_diff.added = MissingFrom(curr, snapshot.maps)
  BY <1>2 DEF Diffed, diff_process_states
<1>4. /\ space' \in Space /\ CutsAllowed(space') /\ Content(saved, space')
  BY <1>1, <1>2, MunmapFacts, MunmapCuts, MunmapContent
<1>5. ClearedIn(space', space, snapshot.maps, curr)
  BY <1>1, <1>2, <1>3, ToCleared DEF HeldNow, ClearedIn
<1>6. Steady'
  <2>1. "unmapped" \in Stages \ {"start", "running", "aborted"}
    BY DEF Stages
  <2> QED
    BY <1>1, <1>2, <1>4, <2>1, StageSteady
<1>7. Layout'
  <2>1. Diffed'
    BY <1>1, <1>2 DEF Diffed
  <2>2. \E c : /\ Held(saved', c, snapshot'.maps, curr')
               /\ ClearedIn(space', c, snapshot'.maps, curr')
    BY <1>1, <1>2, <1>5 DEF HeldNow
  <2> QED
    BY <1>1, <2>1, <2>2 DEF Layout, Settled, HeldNow
<1>8. Contents'
  BY <1>1, <1>4 DEF Contents, JustRestored
<1> QED
  BY <1>6, <1>7, <1>8 DEF IInv

LEMMA RestoreRemovedStep == ASSUME Tame, IInv, restore_removed_memory PROVE IInv'
<1> DEFINE back == {m \in p_diff.removed : ~Special(m)}
           a == AsAnon(back)
<1>1. /\ pc = "unmapped" /\ pc' = "remapped" /\ Stage("unmapped", "remapped")
      /\ space' \in Mmap(space, Span(back), a)
      /\ curr' = curr /\ p_diff' = p_diff /\ madvises' = madvises
      /\ saved' = saved /\ snapshot' = snapshot
  BY DEF restore_removed_memory, Stage, AsAnon
<1>2. /\ saved \in Space /\ TameSpace(saved) /\ space \in Space /\ CutsAllowed(space)
      /\ restores < MaxRestores /\ curr \subseteq Region /\ madvises \subseteq Page
      /\ Content(saved, space) /\ Diffed /\ Unmapped \notin Attr
  BY <1>1, StageKnown DEF IInv, Layout, Settling
<1>3. PICK c : /\ Held(saved, c, snapshot.maps, curr)
               /\ ClearedIn(space, c, snapshot.maps, curr)
  BY <1>1 DEF IInv, Layout, HeldNow
<1>4. back = MapsBack(snapshot.maps, curr)
  BY <1>2 DEF Diffed, diff_process_states, MapsBack
<1>5. a = AsAnon(back)
  OBVIOUS
<1> HIDE DEF back, a
<1>6. /\ WithNew(space, Span(back), a, space') /\ CutsAllowed(space')
      /\ RemadeIn(space', saved, c, snapshot.maps, curr)
      /\ Span(back) \in SUBSET Page /\ AllAttr(Span(back), a)
  BY <1>1, <1>2, <1>3, <1>4, <1>5, ToRemade
<1>7. space' \in Space
  BY <1>6 DEF WithNew
<1>8. Content(saved, space')
  BY <1>2, <1>6, WithNewContent DEF AllAttr
<1>9. Steady'
  <2>1. "remapped" \in Stages \ {"start", "running", "aborted"}
    BY DEF Stages
  <2> QED
    BY <1>1, <1>2, <1>6, <1>7, <2>1, StageSteady
<1>10. Layout'
  <2>1. Diffed'
    BY <1>1, <1>2 DEF Diffed
  <2>2. \E d : /\ Held(saved', d, snapshot'.maps, curr')
               /\ RemadeIn(space', saved', d, snapshot'.maps, curr')
    BY <1>1, <1>3, <1>6
  <2> QED
    BY <1>1, <2>1, <2>2 DEF Layout, Settled, HeldNow
<1>11. Contents'
  BY <1>1, <1>8 DEF Contents, JustRestored
<1> QED
  BY <1>9, <1>10, <1>11 DEF IInv

LEMMA RestoreProtectionStep == ASSUME Tame, IInv, restore_memory_protection PROVE IInv'
<1> DEFINE R == p_diff.modified_protection
           ok == Span(R) \subseteq Mapped(space)
<1>1. /\ pc = "remapped" /\ StageIf(ok, "remapped", "protected")
      /\ ok => space' \in Mprotect(space, Span(R), ProtIn(R))
      /\ curr' = curr /\ p_diff' = p_diff /\ madvises' = madvises
      /\ saved' = saved /\ snapshot' = snapshot
  BY DEF restore_memory_protection, StageIf, Stage
<1>2. /\ saved \in Space /\ TameSpace(saved) /\ space \in Space /\ CutsAllowed(space)
      /\ restores < MaxRestores /\ curr \subseteq Region /\ madvises \subseteq Page
      /\ Content(saved, space) /\ Diffed /\ Unmapped \notin Attr
  BY <1>1, StageKnown DEF IInv, Layout, Settling
<1>3. PICK c : /\ Held(saved, c, snapshot.maps, curr)
               /\ RemadeIn(space, saved, c, snapshot.maps, curr)
  BY <1>1 DEF IInv, Layout, HeldNow
<1>4. R = ReprotectedMaps(snapshot.maps, curr)
  BY <1>2 DEF Diffed, diff_process_states
<1> HIDE DEF R, ok
<1>5. /\ Span(R) \in SUBSET Mapped(space)
      /\ \A t \in Mprotect(space, Span(R), ProtIn(R)) :
           /\ WithProt(space, Span(R), ProtIn(R), t) /\ CutsAllowed(t)
           /\ ReprotectedIn(t, saved, c)
  BY <1>2, <1>3, <1>4, ToReprotected
<1>6. ok
  BY <1>5 DEF ok
<1>7. Stage("remapped", "protected") /\ pc' = "protected"
  BY <1>1, <1>6 DEF StageIf, Stage
<1>8. /\ WithProt(space, Span(R), ProtIn(R), space') /\ CutsAllowed(space')
      /\ ReprotectedIn(space', saved, c)
  BY <1>1, <1>5, <1>6
<1>9. space' \in Space
  BY <1>8 DEF WithProt
<1>10. Content(saved, space')
  BY <1>2, <1>5, <1>8, WithProtContent
<1>11. Steady'
  <2>1. "protected" \in Stages \ {"start", "running", "aborted"}
    BY DEF Stages
  <2> QED
    BY <1>1, <1>2, <1>7, <1>8, <1>9, <2>1, StageSteady
<1>12. Layout'
  <2>1. \E d : Held(saved', d, snapshot'.maps, curr') /\ ReprotectedIn(space', saved', d)
    BY <1>1, <1>3, <1>8
  <2> QED
    BY <1>7, <2>1 DEF Layout, Settled, HeldNow
<1>13. Contents'
  BY <1>1, <1>7, <1>10 DEF Contents, JustRestored
<1> QED
  BY <1>11, <1>12, <1>13 DEF IInv

LEMMA RestoreBrkStep == ASSUME Tame, IInv, restore_brk PROVE IInv'
<1> DEFINE end == HeapEnd(snapshot.maps)
           moved == HeapEnd(curr) # end
           ok == moved => BrkPossible(space, end)
<1>1. /\ pc = "protected" /\ StageIf(ok, "protected", "heap_done")
      /\ space' = IF moved /\ ok THEN Brk(space, end) ELSE space
      /\ curr' = curr /\ p_diff' = p_diff /\ madvises' = madvises
      /\ saved' = saved /\ snapshot' = snapshot
  BY DEF restore_brk, StageIf, Stage
<1>2. /\ saved \in Space /\ TameSpace(saved) /\ space \in Space /\ CutsAllowed(space)
      /\ restores < MaxRestores /\ curr \subseteq Region /\ madvises \subseteq Page
      /\ Content(saved, space) /\ Unmapped \notin Attr
  BY <1>1, StageKnown DEF Settling
<1>3. PICK c : /\ Held(saved, c, snapshot.maps, curr)
               /\ ReprotectedIn(space, saved, c)
  BY <1>1 DEF IInv, Layout, HeldNow
<1>4. end = HeapEnd(snapshot.maps)
  OBVIOUS
<1> HIDE DEF end
<1>5. /\ BrkPossible(space, end)
      /\ HeapEnd(curr) = end => HeapBackIn(space, saved, c)
      /\ \A t : t = Brk(space, end) =>
           t \in Space /\ CutsAllowed(t) /\ MovedBreak(space, t) /\ HeapBackIn(t, saved, c)
  BY <1>2, <1>3, <1>4, ToHeapBack
<1>6. Stage("protected", "heap_done") /\ pc' = "heap_done"
  BY <1>1, <1>5 DEF StageIf, Stage
<1>7. /\ space' \in Space /\ CutsAllowed(space') /\ Content(saved, space')
      /\ HeapBackIn(space', saved, c)
  <2>1. CASE moved
    <3>1. space' = Brk(space, end)
      BY <1>1, <1>5, <2>1
    <3>2. /\ space' \in Space /\ CutsAllowed(space') /\ MovedBreak(space, space')
          /\ HeapBackIn(space', saved, c)
      BY <1>5, <3>1
    <3> QED
      BY <1>2, <3>2, MovedBreakContent
  <2>2. CASE ~moved
    BY <1>1, <1>2, <1>5, <2>2
  <2> QED
    BY <2>1, <2>2
<1>8. Steady'
  <2>1. "heap_done" \in Stages \ {"start", "running", "aborted"}
    BY DEF Stages
  <2> QED
    BY <1>1, <1>2, <1>6, <1>7, <2>1, StageSteady
<1>9. Layout'
  <2>1. \E d : Held(saved', d, snapshot'.maps, curr') /\ HeapBackIn(space', saved', d)
    BY <1>1, <1>3, <1>7
  <2> QED
    BY <1>6, <2>1 DEF Layout, Settled, HeldNow
<1>10. Contents'
  BY <1>1, <1>6, <1>7 DEF Contents, JustRestored
<1> QED
  BY <1>8, <1>9, <1>10 DEF IInv

LEMMA ZeroStackStep == ASSUME Tame, IInv, zero_stack PROVE IInv'
<1>1. /\ pc = "heap_done" /\ pc' = "stack_done" /\ Stage("heap_done", "stack_done")
      /\ space' = Munmap(space, StackStart(curr)..(StackStart(snapshot.maps) - 1))
      /\ curr' = curr /\ p_diff' = p_diff /\ madvises' = madvises
      /\ saved' = saved /\ snapshot' = snapshot
  BY DEF zero_stack, Stage
<1>2. /\ saved \in Space /\ TameSpace(saved) /\ space \in Space /\ CutsAllowed(space)
      /\ restores < MaxRestores /\ curr \subseteq Region /\ madvises \subseteq Page
      /\ Content(saved, space)
  BY <1>1, StageKnown DEF Settling
<1>3. PICK c : /\ Held(saved, c, snapshot.maps, curr)
               /\ HeapBackIn(space, saved, c)
  BY <1>1 DEF IInv, Layout, HeldNow
<1>4. /\ space' \in Space /\ CutsAllowed(space') /\ Content(saved, space')
  BY <1>1, <1>2, MunmapFacts, MunmapCuts, MunmapContent
<1>5. space'.vma = saved.vma
  BY <1>1, <1>2, <1>3, ToSettled
<1>6. Steady'
  <2>1. "stack_done" \in Stages \ {"start", "running", "aborted"}
    BY DEF Stages
  <2> QED
    BY <1>1, <1>2, <1>4, <2>1, StageSteady
<1>7. Layout'
  BY <1>1, <1>5 DEF Layout, Settled
<1>8. Contents'
  BY <1>1, <1>4 DEF Contents, JustRestored
<1> QED
  BY <1>6, <1>7, <1>8 DEF IInv

LEMMA DiffPagesStep == ASSUME Tame, IInv, DiffPages PROVE IInv'
<1>1. /\ pc = "stack_done" /\ pc' = "recaptured" /\ Stage("stack_done", "recaptured")
      /\ space' = space /\ madvises' = madvises
      /\ curr' = capture_pages(space) /\ p_diff' = diff_process_states(snapshot.maps, curr')
      /\ saved' = saved /\ snapshot' = snapshot
  BY DEF DiffPages, Stage
<1>2. /\ saved \in Space /\ TameSpace(saved) /\ space \in Space /\ CutsAllowed(space)
      /\ restores < MaxRestores /\ madvises \subseteq Page /\ Content(saved, space)
  BY <1>1, StageKnown DEF Settled
<1>3. space.vma = saved.vma
  BY <1>1 DEF IInv, Layout, Settled
<1>4. curr' \subseteq Region
  BY <1>1, <1>2, MapsAreRegions DEF capture_pages
<1>5. Steady'
  <2>1. "recaptured" \in Stages \ {"start", "running", "aborted"}
    BY DEF Stages
  <2> QED
    BY <1>1, <1>2, <1>4, <2>1, StageSteady
<1>6. Layout'
  BY <1>1, <1>3 DEF Layout, Settled, Diffed
<1>7. Contents'
  BY <1>1, <1>2 DEF Contents, JustRestored
<1> QED
  BY <1>5, <1>6, <1>7 DEF IInv

LEMMA RestoreContentStep == ASSUME Tame, IInv, restore_soft_dirty_memory PROVE IInv'
<1> DEFINE ok == \A p \in Span(Parts) : SamePageIndex(p)
<1>1. /\ pc = "recaptured" /\ StageIf(ok, "recaptured", "written")
      /\ space' = IF ok THEN Store(space, Written, From) ELSE space
      /\ madvises' = Thrown
      /\ curr' = curr /\ p_diff' = p_diff /\ saved' = saved /\ snapshot' = snapshot
  BY DEF restore_soft_dirty_memory, StageIf, Stage, Whole, Parts, Written, Thrown, From
<1>2. /\ saved \in Space /\ TameSpace(saved) /\ space \in Space /\ CutsAllowed(space)
      /\ restores < MaxRestores /\ curr \subseteq Region /\ Content(saved, space) /\ Snapped
  BY <1>1, StageKnown DEF Settled
<1>3. Recaptured
  <2>1. space.vma = saved.vma /\ Diffed /\ curr = capture_pages(space)
    BY <1>1 DEF IInv, Layout, Settled
  <2> QED
    BY <1>2, <2>1 DEF Recaptured, Snapped, Diffed, diff_process_states
<1>4. ok
  BY <1>3, IndicesAgree
<1> HIDE DEF ok
<1>5. Stage("recaptured", "written") /\ pc' = "written"
  BY <1>1, <1>4 DEF StageIf, Stage
<1>6. /\ Written \in SUBSET Page
      /\ \A p \in Written : p \in saved.paged /\ From[p] = saved.val[p] /\ From[p] \in Val
  BY <1>2, <1>3, WrittenFromSnapshot, SpaceFields
<1>7. WithStored(space, Written, From, space')
  BY <1>1, <1>2, <1>4, <1>6, StoreFacts
<1>8. Thrown \in SUBSET Page /\ Thrown \cap saved.paged = {}
  BY <1>3, ThrownHadNoFrame
<1>9. ASSUME NEW p \in Page, p \notin Thrown
      PROVE  /\ space'.val[p] = saved.val[p]
             /\ p \notin saved.paged => p \notin space'.paged \/ p \notin space'.sd
  <2>1. CASE p \in Written
    BY <1>6, <1>7, <2>1 DEF WithStored
  <2>2. CASE p \notin Written
    <3>1. /\ space.val[p] = saved.val[p]
          /\ p \in space.paged \ saved.paged => p \notin space.sd
      BY <1>3, <1>9, <2>2, RestIsAsItWas DEF SoftDirty
    <3> QED
      BY <1>6, <1>7, <2>2, <3>1 DEF WithStored
  <2> QED
    BY <2>1, <2>2
<1>10. space' \in Space /\ CutsAllowed(space') /\ space'.vma = saved.vma
  <2>1. space' \in Space /\ space'.vma = space.vma /\ space'.cut = space.cut
    BY <1>7 DEF WithStored
  <2> QED
    BY <1>2, <1>3, <2>1 DEF CutsAllowed, Recaptured
<1>11. Steady'
  <2>1. "written" \in Stages \ {"start", "running", "aborted"}
    BY DEF Stages
  <2> QED
    BY <1>1, <1>2, <1>5, <1>8, <1>10, <2>1, StageSteady
<1>12. Layout'
  BY <1>1, <1>5, <1>10 DEF Layout, Settled
<1>13. Backed(space') /\ ClosedEmpty(saved, space')
  <2>1. /\ space'.vma = space.vma /\ space'.paged = space.paged \cup Written
        /\ \A p \in Page \ Written : space'.val[p] = space.val[p]
    BY <1>7 DEF WithStored
  <2>2. /\ saved.paged \subseteq Mapped(space)
        /\ \A p \in Mapped(saved) : ~Accessible(saved.vma[p]) => p \notin saved.paged
    BY <1>2, <1>3 DEF TameSpace, Backed, Recaptured, Mapped
  <2>3. Backed(space')
    BY <1>2, <1>6, <2>1, <2>2 DEF Content, Backed, Mapped
  <2>4. ClosedEmpty(saved, space')
    BY <1>2, <1>6, <2>1, <2>2 DEF Content, ClosedEmpty
  <2> QED
    BY <2>3, <2>4
<1>14. Contents'
  <2>1. space'.paged \subseteq Page
    BY <1>10, SpaceFields
  <2> QED
    BY <1>1, <1>5, <1>8, <1>9, <1>13, <2>1 DEF Contents, Settling, JustRestored
<1> QED
  BY <1>11, <1>12, <1>14 DEF IInv

\* What do_madvises leaves.
LEMMA Discarded ==
    ASSUME Tame, IInv, do_madvises
    PROVE  /\ space' \in Space /\ space'.vma = saved.vma /\ space'.cut = space.cut
           /\ space'.val = saved.val /\ Backed(space') /\ ClosedEmpty(saved, space')
           /\ \A p \in space.paged \ saved.paged : p \in space.sd => p \notin space'.paged
           /\ saved' = saved
<1>1. /\ pc = "written" /\ space' = DontNeed(space, madvises) /\ saved' = saved
  BY DEF do_madvises, Stage
<1>2. saved \in Space /\ TameSpace(saved) /\ space \in Space
  BY <1>1, StageKnown DEF Settled
<1>3. /\ space.vma = saved.vma /\ madvises \cap saved.paged = {}
      /\ Backed(space) /\ ClosedEmpty(saved, space)
      /\ \A p \in Page \ madvises : space.val[p] = saved.val[p]
      /\ \A p \in space.paged \ saved.paged : p \in space.sd => p \in madvises
  BY <1>1 DEF IInv, Layout, Contents, Settled
<1>4. /\ space' \in Space /\ space'.vma = space.vma /\ space'.cut = space.cut
      /\ \A p \in Page :
           space'.val[p] = IF p \in madvises THEN Backing(space.vma[p]) ELSE space.val[p]
      /\ space'.paged = space.paged \ madvises
  BY <1>1, <1>2, DontNeedFacts
<1>5. \A p \in Page \ saved.paged : saved.val[p] = Backing(saved.vma[p])
  BY <1>2 DEF TameSpace, Backed
<1>6. space'.val \in [Page -> Val] /\ saved.val \in [Page -> Val]
  BY <1>2, <1>4, SpaceFields
<1>7. space'.val = saved.val
  <2>1. \A p \in Page : space'.val[p] = saved.val[p]
    BY <1>3, <1>4, <1>5
  <2> QED
    BY <1>6, <2>1
<1>8. Backed(space')
  <2>1. space'.paged \subseteq Mapped(space')
    BY <1>3, <1>4 DEF Backed, Mapped
  <2>2. \A p \in Page \ space'.paged : space'.val[p] = Backing(space'.vma[p])
    BY <1>3, <1>4 DEF Backed
  <2> QED
    BY <2>1, <2>2 DEF Backed
<1>9. ClosedEmpty(saved, space')
  BY <1>3, <1>4 DEF ClosedEmpty
<1> QED
  BY <1>1, <1>3, <1>4, <1>7, <1>8, <1>9

LEMMA DoMadvisesStep == ASSUME Tame, IInv, do_madvises PROVE IInv'
<1>1. /\ pc = "written" /\ pc' = "discarded" /\ Stage("written", "discarded")
      /\ madvises' = {} /\ curr' = curr /\ p_diff' = p_diff
      /\ saved' = saved /\ snapshot' = snapshot
  BY DEF do_madvises, Stage
<1>2. CutsAllowed(space) /\ restores < MaxRestores /\ curr \subseteq Region
  BY <1>1, StageKnown DEF Settled
<1>3. /\ space' \in Space /\ space'.vma = saved.vma /\ space'.cut = space.cut
      /\ space'.val = saved.val /\ Backed(space') /\ ClosedEmpty(saved, space')
  BY Discarded
<1>4. CutsAllowed(space')
  BY <1>1, <1>2, <1>3 DEF CutsAllowed, IInv, Layout, Settled
<1>5. Steady'
  <2>1. "discarded" \in Stages \ {"start", "running", "aborted"}
    BY DEF Stages
  <2> QED
    BY <1>1, <1>2, <1>3, <1>4, <2>1, StageSteady
<1>6. Layout'
  BY <1>1, <1>3 DEF Layout, Settled
<1>7. Contents'
  BY <1>1, <1>3 DEF Contents, Settling, JustRestored
<1> QED
  BY <1>5, <1>6, <1>7 DEF IInv

LEMMA ResumeStep == ASSUME Tame, IInv, Resume PROVE IInv'
<1>1. /\ pc = "discarded" /\ pc' = "running" /\ space' = ClearSoftDirty(space)
      /\ curr' = {} /\ madvises' = madvises /\ ops' = 0 /\ restores' = restores + 1
      /\ saved' = saved /\ snapshot' = [snapshot EXCEPT !.maps = clear_counters(@)]
  BY DEF Resume
<1>2. /\ saved \in Space /\ TameSpace(saved) /\ space \in Space /\ CutsAllowed(space)
      /\ restores < MaxRestores /\ madvises \subseteq Page
  BY <1>1, StageKnown DEF Settled
<1>3. /\ space.vma = saved.vma /\ space.val = saved.val
      /\ Backed(space) /\ ClosedEmpty(saved, space)
  BY <1>1 DEF IInv, Layout, Contents, Settled
<1>4. /\ space' \in Space /\ space'.vma = saved.vma /\ space'.cut = space.cut
      /\ space'.val = saved.val
  BY <1>1, <1>2, <1>3, ClearFacts
<1>5. CutsAllowed(space')
  BY <1>2, <1>3, <1>4 DEF CutsAllowed
<1>6. Content(saved, space')
  BY <1>1, <1>2, <1>3, ClearContent
<1>7. Laid(saved, space')
  BY <1>2, <1>4, <1>5, LaidAtCheckpoint
\* The counters of the snapshot are 0 already.
<1>8. snapshot' = snapshot
  <2> DEFINE M == capture_maps(ClearSoftDirty(saved))
  <2>1. clear_counters(M) = M
    BY CountersCleared DEF capture_maps
  <2> HIDE DEF M
  <2>2. snapshot = [maps |-> M, paged |-> saved.paged,
                    wmem |-> populate_memory_copy_info(saved)]
    BY <1>1 DEF IInv, Steady, Snapped, M
  <2> QED
    BY <1>1, <2>1, <2>2
<1>9. TypeOK'
  <2>1. restores' \in 0..MaxRestores /\ ops' \in 0..MaxOps
    BY <1>1, <1>2, RestoreAssumption DEF IInv, Steady, TypeOK
  <2> QED
    BY <1>1, <1>2, <1>4, <1>8, <2>1 DEF IInv, Steady, TypeOK, Stages
<1>10. Steady'
  BY <1>1, <1>5, <1>9, <1>8 DEF IInv, Steady, Snapped
<1>11. Layout'
  BY <1>1, <1>7 DEF Layout, Settled
<1>12. Contents'
  BY <1>1, <1>4, <1>6 DEF Contents, Settling, JustRestored
<1> QED
  BY <1>10, <1>11, <1>12 DEF IInv

LEMMA StutterStep == ASSUME IInv, UNCHANGED vars PROVE IInv'
<1>1. /\ space' = space /\ snapshot' = snapshot /\ curr' = curr /\ p_diff' = p_diff
      /\ madvises' = madvises /\ pc' = pc /\ ops' = ops /\ restores' = restores
      /\ saved' = saved
  BY DEF vars, manager
<1>2. Steady'
  BY <1>1 DEF IInv, Steady, TypeOK, Snapped
<1>3. Layout'
  BY <1>1 DEF IInv, Layout, HeldNow, Diffed
<1>4. Contents'
  BY <1>1 DEF IInv, Contents, JustRestored
<1> QED
  BY <1>2, <1>3, <1>4 DEF IInv

LEMMA StepInv == ASSUME Tame, IInv, [Next]_vars PROVE IInv'
  BY CheckpointStep, FnStoreStep, FnLoadStep, FnDiscardStep, FnMmapStep, FnMunmapStep,
     FnMprotectStep, FnBrkStep, FnMprotectHeapStep, FnGrowStackStep, DiffMapsStep,
     RemoveAddedStep, RestoreRemovedStep, RestoreProtectionStep, RestoreBrkStep,
     ZeroStackStep, DiffPagesStep, RestoreContentStep, DoMadvisesStep, ResumeStep,
     StutterStep DEF Next

LEMMA Inductive == ASSUME Tame PROVE Spec => []IInv
  BY InitInv, StepInv, PTL DEF Spec

\* The state keeps its shape, and the bounds hold.
THEOREM TypeCorrect == ASSUME Tame PROVE Spec => []TypeOK
<1>1. IInv => TypeOK
  BY DEF IInv, Steady
<1> QED
  BY <1>1, Inductive, PTL

\* After every restore each page has the protection, the backing and the
\* content of the checkpoint, whatever the function did in between.
THEOREM RestoreIsExact == ASSUME Tame PROVE Spec => []RestoredIdentical
<1>1. IInv => RestoredIdentical
  BY DEF IInv, Contents, RestoredIdentical
<1> QED
  BY <1>1, Inductive, PTL

\* No assertion of the restore fails: what is protected is mapped, the break can
\* be moved back, and the page arrays compared are aligned.
THEOREM RestoreNeverAborts == ASSUME Tame PROVE Spec => []NeverAborts
<1>1. IInv => NeverAborts
  BY DEF IInv, Steady, NeverAborts
<1> QED
  BY <1>1, Inductive, PTL

\* A page with a frame and without the soft-dirty bit holds what it held at the
\* checkpoint, or what backs it if it had no frame then.
THEOREM SoftDirtyBitsTell == ASSUME Tame PROVE Spec => []CleanMeansUnchanged
<1>1. ASSUME IInv, pc = "running", NEW p \in Mapped(space), p \in space.paged,
             ~SoftDirty(space, p)
      PROVE  space.val[p] = IF p \in snapshot.paged THEN saved.val[p]
                            ELSE Backing(space.vma[p])
  BY <1>1, RunningKnown DEF Content, CleanKept
<1>2. IInv => CleanMeansUnchanged
  BY <1>1 DEF CleanMeansUnchanged
<1> QED
  BY <1>2, Inductive, PTL

\* do_madvises leaves no frame that the checkpoint had not and the function wrote.
THEOREM RestoreDropsFrames == ASSUME Tame PROVE Spec => WrittenFramesDropped
<1>1. ASSUME IInv, Next, pc' = "discarded", NEW p \in space.paged \ saved.paged,
             p \in space.sd
      PROVE  p \notin space'.paged
  <2>1. do_madvises
    BY <1>1 DEF Next, Checkpoint, FnStore, FnLoad, FnDiscard, FnMmap, FnMunmap, FnMprotect,
       FnBrk, FnMprotectHeap, FnGrowStack, Function, DiffMaps, remove_added_memory,
       restore_removed_memory, restore_memory_protection, restore_brk, zero_stack,
       DiffPages, restore_soft_dirty_memory, Resume, StageIf, Stage
  <2> QED
    BY <1>1, <2>1, Discarded
<1>2. IInv /\ [Next]_vars =>
        [pc' = "discarded" =>
           \A p \in space.paged \ saved.paged :
              p \in Span(curr) /\ p \in space.sd => p \notin space'.paged]_vars
  BY <1>1
<1> QED
  BY <1>2, Inductive, PTL DEF Spec, WrittenFramesDropped

================================================================================
