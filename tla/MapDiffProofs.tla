---------------------------- MODULE MapDiffProofs ----------------------------
(***************************************************************************)
(* Proofs about MapDiff: for every pair of layouts, of any length and over *)
(* any address space, the four lists are exact.                            *)
(***************************************************************************)
EXTENDS MapDiff, TLAPS

\* No region of s has the range of m.
Missing(m, s) == \A k \in 1..Len(s) : ~SameRange(m, s[k])

\* A region on one side of the scan never has its counterpart on the other
\* side: the two regions of a pair are passed by the same step.
Apart ==
    \A k \in 1..Len(initial_state), l \in 1..Len(final_state) :
        SameRange(initial_state[k], final_state[l]) =>
            (k <= index_initial_state <=> l <= index_final_state)

\* What added and removed hold, and that they lack nothing that was passed.
AddedSound ==
    \A n \in added : \E l \in 1..Len(final_state) :
        /\ n = reset_map_metadata(final_state[l])
        /\ Missing(final_state[l], initial_state)

AddedComplete ==
    \A l \in 1..index_final_state :
        Missing(final_state[l], initial_state) =>
            reset_map_metadata(final_state[l]) \in added

RemovedSound ==
    \A o \in removed : \E k \in 1..Len(initial_state) :
        /\ o = reset_map_metadata(initial_state[k])
        /\ Missing(initial_state[k], final_state)

RemovedComplete ==
    \A k \in 1..index_initial_state :
        Missing(initial_state[k], final_state) =>
            /\ reset_map_metadata(initial_state[k]) \in removed
            /\ AllDirty(initial_state[k]) \in modified

\* What modified holds; a passed pair that differs is there with the current
\* counters, and is in modified_protection exactly when the protections differ.
ModifiedSound ==
    \A o \in modified :
        \/ \E k \in 1..Len(initial_state) :
             /\ o = AllDirty(initial_state[k])
             /\ Missing(initial_state[k], final_state)
        \/ \E k \in 1..Len(initial_state), l \in 1..Len(final_state) :
             /\ SameRange(initial_state[k], final_state[l])
             /\ initial_state[k].prot # final_state[l].prot
             /\ o = WithDirtyCount(initial_state[k], final_state[l])
        \/ \E k \in 1..Len(initial_state), l \in 1..Len(final_state) :
             /\ SameRange(initial_state[k], final_state[l])
             /\ initial_state[k].prot = final_state[l].prot
             /\ initial_state[k] # final_state[l]
             /\ o = WithCounts(initial_state[k], final_state[l])

ModifiedComplete ==
    \A k \in 1..index_initial_state, l \in 1..index_final_state :
        SameRange(initial_state[k], final_state[l]) =>
            /\ initial_state[k].prot # final_state[l].prot =>
                  WithDirtyCount(initial_state[k], final_state[l]) \in modified
            /\ /\ initial_state[k].prot = final_state[l].prot
               /\ initial_state[k] # final_state[l]
               => WithCounts(initial_state[k], final_state[l]) \in modified

ProtectionSound ==
    \A o \in modified_protection :
        \E k \in 1..Len(initial_state), l \in 1..Len(final_state) :
            /\ SameRange(initial_state[k], final_state[l])
            /\ initial_state[k].prot # final_state[l].prot
            /\ o = WithDirtyCount(initial_state[k], final_state[l])

ProtectionComplete ==
    \A k \in 1..index_initial_state, l \in 1..index_final_state :
        /\ SameRange(initial_state[k], final_state[l])
        /\ initial_state[k].prot # final_state[l].prot
        => WithDirtyCount(initial_state[k], final_state[l]) \in modified_protection

DoneAtEnd ==
    r = "DONE" => /\ index_initial_state = Len(initial_state)
                  /\ index_final_state = Len(final_state)

\* The inductive invariant.
ListsExact ==
    /\ AddedSound /\ AddedComplete
    /\ RemovedSound /\ RemovedComplete
    /\ ModifiedSound /\ ModifiedComplete
    /\ ProtectionSound /\ ProtectionComplete

IInv == TypeOK /\ Apart /\ ListsExact /\ DoneAtEnd

-------------------------------------------------------------------------------
\* The elements of a layout are regions that are not empty.
LEMMA LayoutElements ==
    ASSUME NEW s, IsLayout(s), NEW k \in 1..Len(s)
    PROVE  /\ s[k] \in Region
           /\ s[k].addr_start \in Nat
           /\ s[k].addr_end \in Nat
           /\ s[k].addr_start < s[k].addr_end
           /\ s[k].soft_dirty_count \in Nat
           /\ s[k].freed_count \in Nat
<1>1. s[k] \in Region
  BY DEF IsLayout
<1>2. s[k].addr_start < s[k].addr_end
  BY DEF IsLayout
<1> QED BY <1>1, <1>2 DEF Region

\* In a layout the starts and the ends both increase.
LEMMA LayoutIncreases ==
    ASSUME NEW s, IsLayout(s), NEW k \in 1..Len(s), NEW l \in 1..Len(s), k < l
    PROVE  /\ s[k].addr_start < s[l].addr_start
           /\ s[k].addr_end < s[l].addr_end
           /\ s[k].addr_end <= s[l].addr_start
<1>1. s[k].addr_end <= s[l].addr_start
  BY DEF IsLayout
<1> QED BY <1>1, LayoutElements

\* Two elements of a layout that overlap are the same element.
LEMMA LayoutDisjoint ==
    ASSUME NEW s, IsLayout(s), NEW k \in 1..Len(s), NEW l \in 1..Len(s),
           Overlap(s[k], s[l])
    PROVE  k = l
<1>1. CASE k < l
  BY <1>1, LayoutIncreases, LayoutElements DEF Overlap
<1>2. CASE l < k
  BY <1>2, LayoutIncreases, LayoutElements DEF Overlap
<1> QED BY <1>1, <1>2

\* Filing a region changes its counters only.
LEMMA Filed ==
    ASSUME NEW m \in Region, NEW n \in Region, m.addr_start < m.addr_end
    PROVE  /\ reset_map_metadata(m) \in Region
           /\ AllDirty(m) \in Region
           /\ WithCounts(m, n) \in Region
           /\ WithDirtyCount(m, n) \in Region
           /\ SameRange(reset_map_metadata(m), m)
           /\ SameRange(AllDirty(m), m)
           /\ SameRange(WithCounts(m, n), m)
           /\ SameRange(WithDirtyCount(m, n), m)
           /\ reset_map_metadata(m).prot = m.prot
           /\ WithDirtyCount(m, n).prot = m.prot
           /\ WithCounts(m, n).soft_dirty_count = n.soft_dirty_count
           /\ WithDirtyCount(m, n).soft_dirty_count = n.soft_dirty_count
           /\ AllDirty(m).soft_dirty_count = m.addr_end - m.addr_start
<1>1. /\ m.addr_start \in Nat /\ m.addr_end \in Nat /\ m.prot \in Prot
      /\ m.soft_dirty_count \in Nat /\ m.freed_count \in Nat
      /\ n.soft_dirty_count \in Nat /\ n.freed_count \in Nat
      /\ m.addr_end - m.addr_start \in Nat
  BY DEF Region
<1>2. \A c \in Nat : /\ [m EXCEPT !.soft_dirty_count = c] \in Region
                     /\ SameRange([m EXCEPT !.soft_dirty_count = c], m)
                     /\ [m EXCEPT !.soft_dirty_count = c].prot = m.prot
                     /\ [m EXCEPT !.soft_dirty_count = c].soft_dirty_count = c
  BY DEF Region, SameRange
<1>3. \A c, d \in Nat :
        /\ [m EXCEPT !.soft_dirty_count = c, !.freed_count = d] \in Region
        /\ SameRange([m EXCEPT !.soft_dirty_count = c, !.freed_count = d], m)
        /\ [m EXCEPT !.soft_dirty_count = c, !.freed_count = d].soft_dirty_count = c
  BY DEF Region, SameRange
<1>4. 0 \in Nat
  OBVIOUS
<1>5. /\ reset_map_metadata(m) \in Region
      /\ SameRange(reset_map_metadata(m), m)
      /\ reset_map_metadata(m).prot = m.prot
  BY <1>2, <1>4 DEF reset_map_metadata
<1>6. /\ AllDirty(m) \in Region
      /\ SameRange(AllDirty(m), m)
      /\ AllDirty(m).soft_dirty_count = m.addr_end - m.addr_start
  BY <1>1, <1>2 DEF AllDirty, total_num_pages
<1>7. /\ WithDirtyCount(m, n) \in Region
      /\ SameRange(WithDirtyCount(m, n), m)
      /\ WithDirtyCount(m, n).prot = m.prot
      /\ WithDirtyCount(m, n).soft_dirty_count = n.soft_dirty_count
  BY <1>1, <1>2 DEF WithDirtyCount
<1>8. /\ WithCounts(m, n) \in Region
      /\ SameRange(WithCounts(m, n), m)
      /\ WithCounts(m, n).soft_dirty_count = n.soft_dirty_count
  BY <1>1, <1>3 DEF WithCounts
<1> QED BY <1>5, <1>6, <1>7, <1>8

-------------------------------------------------------------------------------
\* A step that passes both regions: they share a boundary, hence neither has
\* its range again further on.
LEMMA PassBoth ==
    ASSUME TypeOK, InitialLeft, FinalLeft, SameStartOrEnd(ThisInitial, ThisFinal)
    PROVE  /\ \A l \in 1..Len(final_state) :
                l > index_final_state + 1 => ~SameRange(ThisInitial, final_state[l])
           /\ \A k \in 1..Len(initial_state) :
                k > index_initial_state + 1 => ~SameRange(initial_state[k], ThisFinal)
<1>1. /\ index_initial_state + 1 \in 1..Len(initial_state)
      /\ index_final_state + 1 \in 1..Len(final_state)
  BY DEF TypeOK, InitialLeft, FinalLeft, IsLayout
<1>2. ASSUME NEW l \in 1..Len(final_state), l > index_final_state + 1
      PROVE  ~SameRange(ThisInitial, final_state[l])
  BY <1>1, <1>2, LayoutIncreases, LayoutElements
     DEF TypeOK, SameRange, SameStartOrEnd, ThisInitial, ThisFinal
<1>3. ASSUME NEW k \in 1..Len(initial_state), k > index_initial_state + 1
      PROVE  ~SameRange(initial_state[k], ThisFinal)
  BY <1>1, <1>3, LayoutIncreases, LayoutElements
     DEF TypeOK, SameRange, SameStartOrEnd, ThisInitial, ThisFinal
<1> QED BY <1>2, <1>3

\* A step that passes an initial region alone: nothing left has its range.
LEMMA PassInitialOnly ==
    ASSUME TypeOK, Verdict = "REMOVED"
    PROVE  /\ InitialLeft
           /\ \A l \in 1..Len(final_state) :
                l > index_final_state => ~SameRange(ThisInitial, final_state[l])
<1>1. InitialLeft
  BY DEF Verdict
<1>2. index_initial_state + 1 \in 1..Len(initial_state)
  BY <1>1 DEF TypeOK, InitialLeft, IsLayout
<1>3. SUFFICES ASSUME NEW l \in 1..Len(final_state), l > index_final_state
               PROVE  ~SameRange(ThisInitial, final_state[l])
  BY <1>1
<1>4. FinalLeft /\ index_final_state + 1 \in 1..Len(final_state)
  BY <1>3 DEF TypeOK, FinalLeft, IsLayout
<1>5. ThisInitial.addr_start < ThisFinal.addr_start
  BY <1>1, <1>4 DEF Verdict, Compare
<1>6. CASE l = index_final_state + 1
  BY <1>2, <1>4, <1>5, <1>6, LayoutElements DEF SameRange, ThisFinal, ThisInitial, TypeOK
<1>7. CASE l > index_final_state + 1
  BY <1>2, <1>4, <1>5, <1>7, LayoutIncreases, LayoutElements
     DEF SameRange, ThisFinal, ThisInitial, TypeOK
<1> QED BY <1>3, <1>6, <1>7 DEF TypeOK

\* A step that passes a final region alone: nothing left has its range.
LEMMA PassFinalOnly ==
    ASSUME TypeOK, Verdict = "ADDED"
    PROVE  /\ FinalLeft
           /\ \A k \in 1..Len(initial_state) :
                k > index_initial_state => ~SameRange(initial_state[k], ThisFinal)
<1>1. FinalLeft
  BY DEF Verdict
<1>2. index_final_state + 1 \in 1..Len(final_state)
  BY <1>1 DEF TypeOK, FinalLeft, IsLayout
<1>3. SUFFICES ASSUME NEW k \in 1..Len(initial_state), k > index_initial_state
               PROVE  ~SameRange(initial_state[k], ThisFinal)
  BY <1>1
<1>4. InitialLeft /\ index_initial_state + 1 \in 1..Len(initial_state)
  BY <1>3 DEF TypeOK, InitialLeft, IsLayout
<1>5. ~SameStartOrEnd(ThisInitial, ThisFinal) /\ ~(ThisInitial.addr_start < ThisFinal.addr_start)
  BY <1>1, <1>4 DEF Verdict, Compare, SameRange, SameStartOrEnd
<1>6. ThisFinal.addr_start < ThisInitial.addr_start
  BY <1>2, <1>4, <1>5, LayoutElements DEF SameStartOrEnd, ThisFinal, ThisInitial, TypeOK
<1>7. CASE k = index_initial_state + 1
  BY <1>2, <1>4, <1>6, <1>7, LayoutElements DEF SameRange, ThisFinal, ThisInitial, TypeOK
<1>8. CASE k > index_initial_state + 1
  BY <1>2, <1>4, <1>6, <1>8, LayoutIncreases, LayoutElements
     DEF SameRange, ThisFinal, ThisInitial, TypeOK
<1> QED BY <1>3, <1>7, <1>8 DEF TypeOK

-------------------------------------------------------------------------------
\* Only the loop's own indexes matter to the index bounds and the sorts of the
\* lists: type correctness is inductive by itself.
LEMMA TypeStep ==
    ASSUME TypeOK, [Next]_vars
    PROVE  TypeOK'
<1> USE DEF TypeOK
<1>0. /\ index_initial_state \in Nat /\ Len(initial_state) \in Nat
      /\ index_final_state \in Nat /\ Len(final_state) \in Nat
  BY DEF IsLayout
<1>1. ASSUME InitialLeft
      PROVE  /\ index_initial_state + 1 \in 0..Len(initial_state)
             /\ ThisInitial \in Region
             /\ ThisInitial.addr_start < ThisInitial.addr_end
  BY <1>0, <1>1, LayoutElements DEF InitialLeft, ThisInitial
<1>2. ASSUME FinalLeft
      PROVE  /\ index_final_state + 1 \in 0..Len(final_state)
             /\ ThisFinal \in Region
             /\ ThisFinal.addr_start < ThisFinal.addr_end
  BY <1>0, <1>2, LayoutElements DEF FinalLeft, ThisFinal
<1>3. Verdict \in {"IDENTICAL", "MODIFIED", "MODIFIED_PROTECTION", "ADDED_AND_REMOVED"}
        => InitialLeft /\ FinalLeft
  BY DEF Verdict
<1>4. /\ Verdict = "REMOVED" => InitialLeft
      /\ Verdict = "ADDED" => FinalLeft
  BY DEF Verdict
<1>5. CASE Identical
  BY <1>1, <1>2, <1>3, <1>5
     DEF Identical, Returns, PassInitial, PassFinal, states, lists, Verdicts
<1>6. CASE Modified
  <2>1. WithCounts(ThisInitial, ThisFinal) \in Region
    BY <1>1, <1>2, <1>3, <1>6, Filed DEF Modified, Returns
  <2> QED BY <1>1, <1>2, <1>3, <1>6, <2>1
             DEF Modified, Returns, PassInitial, PassFinal, states, Verdicts
<1>7. CASE ModifiedProtection
  <2>1. WithDirtyCount(ThisInitial, ThisFinal) \in Region
    BY <1>1, <1>2, <1>3, <1>7, Filed DEF ModifiedProtection, Returns
  <2> QED BY <1>1, <1>2, <1>3, <1>7, <2>1
             DEF ModifiedProtection, Returns, PassInitial, PassFinal, states, Verdicts
<1>8. CASE AddedAndRemoved
  <2>1. /\ reset_map_metadata(ThisFinal) \in Region
        /\ reset_map_metadata(ThisInitial) \in Region
        /\ AllDirty(ThisInitial) \in Region
    BY <1>1, <1>2, <1>3, <1>8, Filed DEF AddedAndRemoved, Returns
  <2> QED BY <1>1, <1>2, <1>3, <1>8, <2>1
             DEF AddedAndRemoved, Returns, PassInitial, PassFinal, states, Verdicts
<1>9. CASE Added
  <2>1. reset_map_metadata(ThisFinal) \in Region
    BY <1>2, <1>4, <1>9, Filed DEF Added, Returns
  <2> QED BY <1>2, <1>4, <1>9, <2>1 DEF Added, Returns, PassFinal, states, Verdicts
<1>10. CASE Removed
  <2>1. /\ reset_map_metadata(ThisInitial) \in Region
        /\ AllDirty(ThisInitial) \in Region
    BY <1>1, <1>4, <1>10, Filed DEF Removed, Returns
  <2> QED BY <1>1, <1>4, <1>10, <2>1 DEF Removed, Returns, PassInitial, states, Verdicts
<1>11. CASE Done
  BY <1>11 DEF Done, Returns, states, indexes, lists, Verdicts
<1>12. CASE UNCHANGED vars
  BY <1>12 DEF vars, states, indexes, lists
<1> QED BY <1>5, <1>6, <1>7, <1>8, <1>9, <1>10, <1>11, <1>12 DEF Next

\* diff_process_maps never reads past either array and files only regions
\* (the check "We went beyond the maps memory" at its end never fires).
THEOREM TypeCorrect == Spec => []TypeOK
<1>1. Init => TypeOK
  BY LayoutAssumption DEF Init, TypeOK, IsLayout, Verdicts
<1>2. TypeOK /\ [Next]_vars => TypeOK'
  BY TypeStep
<1> QED BY <1>1, <1>2, PTL DEF Spec

-------------------------------------------------------------------------------
\* What each verdict says of the two regions the indexes stand before.
LEMMA VerdictFacts ==
    ASSUME TypeOK, Apart
    PROVE  /\ Verdict \in {"IDENTICAL", "MODIFIED", "MODIFIED_PROTECTION"} =>
                 /\ InitialLeft /\ FinalLeft
                 /\ SameRange(ThisInitial, ThisFinal)
           /\ Verdict = "IDENTICAL" => ThisInitial = ThisFinal
           /\ Verdict = "MODIFIED" => /\ ThisInitial.prot = ThisFinal.prot
                                      /\ ThisInitial # ThisFinal
           /\ Verdict = "MODIFIED_PROTECTION" => ThisInitial.prot # ThisFinal.prot
           /\ Verdict = "ADDED_AND_REMOVED" =>
                 /\ InitialLeft /\ FinalLeft
                 /\ SameStartOrEnd(ThisInitial, ThisFinal)
           /\ Verdict \in {"ADDED", "ADDED_AND_REMOVED"} =>
                 FinalLeft /\ Missing(ThisFinal, initial_state)
           /\ Verdict \in {"REMOVED", "ADDED_AND_REMOVED"} =>
                 InitialLeft /\ Missing(ThisInitial, final_state)
<1>1. Verdict \in {"IDENTICAL", "MODIFIED", "MODIFIED_PROTECTION"} =>
         InitialLeft /\ FinalLeft /\ SameRange(ThisInitial, ThisFinal)
  BY DEF Verdict, Compare, map_regions_equal, SameRange
<1>2. /\ Verdict = "IDENTICAL" => ThisInitial = ThisFinal
      /\ Verdict = "MODIFIED" => /\ ThisInitial.prot = ThisFinal.prot
                                 /\ ThisInitial # ThisFinal
      /\ Verdict = "MODIFIED_PROTECTION" => ThisInitial.prot # ThisFinal.prot
  BY DEF Verdict, Compare, map_regions_equal
<1>3. Verdict = "ADDED_AND_REMOVED" =>
         /\ InitialLeft /\ FinalLeft
         /\ SameStartOrEnd(ThisInitial, ThisFinal)
         /\ ~SameRange(ThisInitial, ThisFinal)
  BY DEF Verdict, Compare
<1>4. FinalLeft => \A k \in 1..Len(initial_state) :
         SameRange(ThisFinal, initial_state[k]) => k > index_initial_state
  <2>1. SUFFICES ASSUME FinalLeft, NEW k \in 1..Len(initial_state),
                        SameRange(ThisFinal, initial_state[k])
                 PROVE  k > index_initial_state
    OBVIOUS
  <2>2. index_final_state + 1 \in 1..Len(final_state)
    BY <2>1 DEF TypeOK, FinalLeft, IsLayout
  <2>3. SameRange(initial_state[k], final_state[index_final_state + 1])
    BY <2>1 DEF SameRange, ThisFinal
  <2>4. ~(k <= index_initial_state)
    BY <2>2, <2>3 DEF Apart, TypeOK
  <2> QED BY <2>4 DEF TypeOK
<1>5. InitialLeft => \A l \in 1..Len(final_state) :
         SameRange(ThisInitial, final_state[l]) => l > index_final_state
  <2>1. SUFFICES ASSUME InitialLeft, NEW l \in 1..Len(final_state),
                        SameRange(ThisInitial, final_state[l])
                 PROVE  l > index_final_state
    OBVIOUS
  <2>2. index_initial_state + 1 \in 1..Len(initial_state)
    BY <2>1 DEF TypeOK, InitialLeft, IsLayout
  <2>3. ~(l <= index_final_state)
    BY <2>1, <2>2 DEF Apart, TypeOK, ThisInitial
  <2> QED BY <2>3 DEF TypeOK
<1>6. Verdict = "ADDED" => FinalLeft /\ Missing(ThisFinal, initial_state)
  BY <1>4, PassFinalOnly DEF Missing, SameRange
<1>7. Verdict = "REMOVED" => InitialLeft /\ Missing(ThisInitial, final_state)
  BY <1>5, PassInitialOnly DEF Missing
<1>8. Verdict = "ADDED_AND_REMOVED" => Missing(ThisFinal, initial_state)
  <2>1. SUFFICES ASSUME Verdict = "ADDED_AND_REMOVED", NEW k \in 1..Len(initial_state),
                        SameRange(ThisFinal, initial_state[k])
                 PROVE  FALSE
    BY DEF Missing
  <2>2. k > index_initial_state /\ ~(k > index_initial_state + 1)
    BY <1>3, <1>4, <2>1, PassBoth DEF SameRange
  <2>3. k = index_initial_state + 1
    BY <2>2 DEF TypeOK
  <2> QED BY <1>3, <2>1, <2>3 DEF SameRange, ThisInitial
<1>9. Verdict = "ADDED_AND_REMOVED" => Missing(ThisInitial, final_state)
  <2>1. SUFFICES ASSUME Verdict = "ADDED_AND_REMOVED", NEW l \in 1..Len(final_state),
                        SameRange(ThisInitial, final_state[l])
                 PROVE  FALSE
    BY DEF Missing
  <2>2. l > index_final_state /\ ~(l > index_final_state + 1)
    BY <1>3, <1>5, <2>1, PassBoth
  <2>3. l = index_final_state + 1
    BY <2>2 DEF TypeOK
  <2> QED BY <1>3, <2>1, <2>3 DEF ThisFinal
<1> QED BY <1>1, <1>2, <1>3, <1>6, <1>7, <1>8, <1>9

\* The indexes after a step, by verdict.
LEMMA IndexStep ==
    ASSUME Next
    PROVE  /\ UNCHANGED states
           /\ Verdict \in {"IDENTICAL", "MODIFIED", "MODIFIED_PROTECTION",
                            "ADDED_AND_REMOVED"} => PassInitial /\ PassFinal
           /\ Verdict = "ADDED" =>
                 PassFinal /\ index_initial_state' = index_initial_state
           /\ Verdict = "REMOVED" =>
                 PassInitial /\ index_final_state' = index_final_state
           /\ Verdict = "DONE" => UNCHANGED indexes
           /\ Verdict \in Verdicts
BY DEF Next, Identical, Modified, ModifiedProtection, AddedAndRemoved, Added,
       Removed, Done, Returns, indexes, Verdicts

\* The scan keeps the two regions of a pair on the same side.
LEMMA ApartStep ==
    ASSUME TypeOK, Apart, Next
    PROVE  Apart'
<1>1. SUFFICES ASSUME NEW k \in 1..Len(initial_state), NEW l \in 1..Len(final_state),
                      SameRange(initial_state[k], final_state[l])
               PROVE  k <= index_initial_state' <=> l <= index_final_state'
  BY IndexStep DEF Apart, states
<1>2. k <= index_initial_state <=> l <= index_final_state
  BY <1>1 DEF Apart
<1>3. k = index_initial_state + 1 => ThisInitial = initial_state[k]
  BY DEF ThisInitial
<1>4. l = index_final_state + 1 => ThisFinal = final_state[l]
  BY DEF ThisFinal
<1>5. /\ index_initial_state \in Nat /\ index_final_state \in Nat
      /\ k \in Nat /\ l \in Nat
  BY DEF TypeOK
<1>6. CASE Verdict \in {"IDENTICAL", "MODIFIED", "MODIFIED_PROTECTION", "ADDED_AND_REMOVED"}
  <2>1. InitialLeft /\ FinalLeft /\ SameStartOrEnd(ThisInitial, ThisFinal)
    BY <1>6, VerdictFacts DEF SameStartOrEnd, SameRange
  <2>2. /\ k = index_initial_state + 1 => ~(l > index_final_state + 1)
        /\ l = index_final_state + 1 => ~(k > index_initial_state + 1)
    BY <1>1, <1>3, <1>4, <2>1, PassBoth
  <2> QED BY <1>2, <1>5, <1>6, <2>2, IndexStep DEF PassInitial, PassFinal
<1>7. CASE Verdict = "ADDED"
  <2>1. l # index_final_state + 1
    BY <1>1, <1>4, <1>7, VerdictFacts DEF Missing, SameRange
  <2> QED BY <1>2, <1>5, <1>7, <2>1, IndexStep DEF PassFinal
<1>8. CASE Verdict = "REMOVED"
  <2>1. k # index_initial_state + 1
    BY <1>1, <1>3, <1>8, VerdictFacts DEF Missing
  <2> QED BY <1>2, <1>5, <1>8, <2>1, IndexStep DEF PassInitial
<1>9. CASE Verdict = "DONE"
  BY <1>2, <1>9, IndexStep DEF indexes
<1> QED BY <1>6, <1>7, <1>8, <1>9, IndexStep DEF Verdicts

-------------------------------------------------------------------------------
\* A pair both of whose regions are passed after a step was passed before it,
\* or is the pair the step has passed; a region passed after the step that was
\* not passed before is the one its index stood before.
LEMMA NewlyPassed ==
    ASSUME TypeOK, Apart, Next
    PROVE  /\ \A k \in 1..index_initial_state' :
                \/ k \in 1..index_initial_state
                \/ /\ k = index_initial_state + 1 /\ initial_state[k] = ThisInitial
                   /\ Verdict \notin {"ADDED", "DONE"}
           /\ \A l \in 1..index_final_state' :
                \/ l \in 1..index_final_state
                \/ /\ l = index_final_state + 1 /\ final_state[l] = ThisFinal
                   /\ Verdict \notin {"REMOVED", "DONE"}
           /\ \A k \in 1..index_initial_state', l \in 1..index_final_state' :
                SameRange(initial_state[k], final_state[l]) =>
                   \/ k \in 1..index_initial_state /\ l \in 1..index_final_state
                   \/ /\ initial_state[k] = ThisInitial /\ final_state[l] = ThisFinal
                      /\ Verdict \in {"IDENTICAL", "MODIFIED", "MODIFIED_PROTECTION"}
<1> DEFINE Known == {"IDENTICAL", "MODIFIED", "MODIFIED_PROTECTION"}
<1>1. /\ index_initial_state \in Nat /\ index_final_state \in Nat
      /\ index_initial_state' \in {index_initial_state, index_initial_state + 1}
      /\ index_final_state' \in {index_final_state, index_final_state + 1}
      /\ index_initial_state' # index_initial_state => Verdict \notin {"ADDED", "DONE"}
      /\ index_final_state' # index_final_state => Verdict \notin {"REMOVED", "DONE"}
  BY IndexStep DEF TypeOK, PassInitial, PassFinal, indexes, Verdicts
<1>2. \A k \in 1..index_initial_state' :
         \/ k \in 1..index_initial_state
         \/ /\ k = index_initial_state + 1 /\ initial_state[k] = ThisInitial
            /\ Verdict \notin {"ADDED", "DONE"}
  BY <1>1 DEF ThisInitial
<1>3. \A l \in 1..index_final_state' :
         \/ l \in 1..index_final_state
         \/ /\ l = index_final_state + 1 /\ final_state[l] = ThisFinal
            /\ Verdict \notin {"REMOVED", "DONE"}
  BY <1>1 DEF ThisFinal
<1>4. ASSUME NEW k \in 1..index_initial_state', NEW l \in 1..index_final_state',
             SameRange(initial_state[k], final_state[l]),
             ~(k \in 1..index_initial_state /\ l \in 1..index_final_state)
      PROVE  /\ initial_state[k] = ThisInitial /\ final_state[l] = ThisFinal
             /\ Verdict \in Known
  <2>1. k \in 1..Len(initial_state) /\ l \in 1..Len(final_state)
    BY <1>4, TypeStep, IndexStep DEF TypeOK, IsLayout, states
  <2>2. k <= index_initial_state <=> l <= index_final_state
    BY <1>4, <2>1 DEF Apart
  <2>3. /\ initial_state[k] = ThisInitial /\ final_state[l] = ThisFinal
        /\ Verdict \notin {"ADDED", "REMOVED", "DONE"}
        /\ k \in 1..Len(initial_state)
    BY <1>1, <1>2, <1>3, <1>4, <2>1, <2>2
  <2>4. Verdict # "ADDED_AND_REMOVED"
    BY <1>4, <2>1, <2>3, VerdictFacts DEF Missing
  <2> QED BY <2>3, <2>4, IndexStep DEF Verdicts
<1> QED BY <1>2, <1>3, <1>4

\* The regions the indexes stand before are elements of their layouts.
LEMMA TheseAreElements ==
    ASSUME TypeOK
    PROVE  /\ InitialLeft => /\ index_initial_state + 1 \in 1..Len(initial_state)
                             /\ ThisInitial = initial_state[index_initial_state + 1]
                             /\ ThisInitial \in Region
                             /\ ThisInitial.addr_start < ThisInitial.addr_end
           /\ FinalLeft => /\ index_final_state + 1 \in 1..Len(final_state)
                           /\ ThisFinal = final_state[index_final_state + 1]
                           /\ ThisFinal \in Region
                           /\ ThisFinal.addr_start < ThisFinal.addr_end
<1>1. /\ InitialLeft => index_initial_state + 1 \in 1..Len(initial_state)
      /\ FinalLeft => index_final_state + 1 \in 1..Len(final_state)
  BY DEF TypeOK, InitialLeft, FinalLeft, IsLayout
<1> QED BY <1>1, LayoutElements DEF TypeOK, ThisInitial, ThisFinal

\* added: a step files a region there exactly when the verdict says that it
\* has no counterpart.
LEMMA AddedStep ==
    ASSUME TypeOK, Apart, ListsExact, Next
    PROVE  AddedSound' /\ AddedComplete'
<1>1. UNCHANGED states
  BY IndexStep
<1>2. AddedSound'
  <2>1. \/ added' = added
        \/ /\ Verdict \in {"ADDED", "ADDED_AND_REMOVED"}
           /\ added' = added \cup {reset_map_metadata(ThisFinal)}
    BY DEF Next, Identical, Modified, ModifiedProtection, AddedAndRemoved, Added,
           Removed, Done, Returns, lists
  <2>2. CASE added' = added
    BY <1>1, <2>2 DEF ListsExact, AddedSound, states
  <2>3. CASE /\ Verdict \in {"ADDED", "ADDED_AND_REMOVED"}
             /\ added' = added \cup {reset_map_metadata(ThisFinal)}
    <3>1. FinalLeft /\ Missing(ThisFinal, initial_state)
      BY <2>3, VerdictFacts
    <3>2. \E l \in 1..Len(final_state) :
             /\ reset_map_metadata(ThisFinal) = reset_map_metadata(final_state[l])
             /\ Missing(final_state[l], initial_state)
      BY <3>1, TheseAreElements
    <3> QED BY <1>1, <2>3, <3>2 DEF ListsExact, AddedSound, states
  <2> QED BY <2>1, <2>2, <2>3
<1>3. AddedComplete'
  <2>1. SUFFICES ASSUME NEW l \in 1..index_final_state',
                        Missing(final_state[l], initial_state)
                 PROVE  reset_map_metadata(final_state[l]) \in added'
    BY <1>1 DEF AddedComplete, states
  <2>2. added \subseteq added'
    BY DEF Next, Identical, Modified, ModifiedProtection, AddedAndRemoved, Added,
           Removed, Done, Returns, lists
  <2>3. CASE l \in 1..index_final_state
    BY <2>1, <2>2, <2>3 DEF ListsExact, AddedComplete
  <2>4. CASE final_state[l] = ThisFinal /\ Verdict \notin {"REMOVED", "DONE"}
    <3>1. Verdict \notin {"IDENTICAL", "MODIFIED", "MODIFIED_PROTECTION"}
      <4>1. SUFFICES ASSUME Verdict \in {"IDENTICAL", "MODIFIED", "MODIFIED_PROTECTION"}
                     PROVE  FALSE
        OBVIOUS
      <4>2. InitialLeft /\ SameRange(ThisInitial, ThisFinal)
        BY <4>1, VerdictFacts
      <4> QED BY <2>1, <2>4, <4>2, TheseAreElements DEF Missing, SameRange
    <3>2. Added \/ AddedAndRemoved
      BY <2>4, <3>1 DEF Next, Identical, Modified, ModifiedProtection, Removed, Done,
                        Returns
    <3> QED BY <2>4, <3>2 DEF Added, AddedAndRemoved
  <2> QED BY <2>3, <2>4, NewlyPassed
<1> QED BY <1>2, <1>3

\* removed, and the entry of modified that goes with it, likewise.
LEMMA RemovedStep ==
    ASSUME TypeOK, Apart, ListsExact, Next
    PROVE  RemovedSound' /\ RemovedComplete'
<1>1. UNCHANGED states
  BY IndexStep
<1>2. RemovedSound'
  <2>1. \/ removed' = removed
        \/ /\ Verdict \in {"REMOVED", "ADDED_AND_REMOVED"}
           /\ removed' = removed \cup {reset_map_metadata(ThisInitial)}
    BY DEF Next, Identical, Modified, ModifiedProtection, AddedAndRemoved, Added,
           Removed, Done, Returns, lists
  <2>2. CASE removed' = removed
    BY <1>1, <2>2 DEF ListsExact, RemovedSound, states
  <2>3. CASE /\ Verdict \in {"REMOVED", "ADDED_AND_REMOVED"}
             /\ removed' = removed \cup {reset_map_metadata(ThisInitial)}
    <3>1. InitialLeft /\ Missing(ThisInitial, final_state)
      BY <2>3, VerdictFacts
    <3>2. \E k \in 1..Len(initial_state) :
             /\ reset_map_metadata(ThisInitial) = reset_map_metadata(initial_state[k])
             /\ Missing(initial_state[k], final_state)
      BY <3>1, TheseAreElements
    <3> QED BY <1>1, <2>3, <3>2 DEF ListsExact, RemovedSound, states
  <2> QED BY <2>1, <2>2, <2>3
<1>3. RemovedComplete'
  <2>1. SUFFICES ASSUME NEW k \in 1..index_initial_state',
                        Missing(initial_state[k], final_state)
                 PROVE  /\ reset_map_metadata(initial_state[k]) \in removed'
                        /\ AllDirty(initial_state[k]) \in modified'
    BY <1>1 DEF RemovedComplete, states
  <2>2. removed \subseteq removed' /\ modified \subseteq modified'
    BY DEF Next, Identical, Modified, ModifiedProtection, AddedAndRemoved, Added,
           Removed, Done, Returns, lists
  <2>3. CASE k \in 1..index_initial_state
    BY <2>1, <2>2, <2>3 DEF ListsExact, RemovedComplete
  <2>4. CASE initial_state[k] = ThisInitial /\ Verdict \notin {"ADDED", "DONE"}
    <3>1. Verdict \notin {"IDENTICAL", "MODIFIED", "MODIFIED_PROTECTION"}
      <4>1. SUFFICES ASSUME Verdict \in {"IDENTICAL", "MODIFIED", "MODIFIED_PROTECTION"}
                     PROVE  FALSE
        OBVIOUS
      <4>2. FinalLeft /\ SameRange(ThisInitial, ThisFinal)
        BY <4>1, VerdictFacts
      <4> QED BY <2>1, <2>4, <4>2, TheseAreElements DEF Missing
    <3>2. Removed \/ AddedAndRemoved
      BY <2>4, <3>1 DEF Next, Identical, Modified, ModifiedProtection, Added, Done,
                        Returns
    <3> QED BY <2>4, <3>2 DEF Removed, AddedAndRemoved
  <2> QED BY <2>3, <2>4, NewlyPassed
<1> QED BY <1>2, <1>3

\* modified and modified_protection: a pair that the step passes and whose
\* regions differ is filed with the counter of the current region.
LEMMA PairStep ==
    ASSUME TypeOK, Apart, ListsExact, Next
    PROVE  ModifiedSound' /\ ModifiedComplete' /\ ProtectionSound' /\ ProtectionComplete'
<1>1. UNCHANGED states
  BY IndexStep
<1>2. modified \subseteq modified' /\ modified_protection \subseteq modified_protection'
  BY DEF Next, Identical, Modified, ModifiedProtection, AddedAndRemoved, Added,
         Removed, Done, Returns, lists
<1>3. ModifiedComplete'
  <2>1. SUFFICES ASSUME NEW k \in 1..index_initial_state', NEW l \in 1..index_final_state',
                        SameRange(initial_state[k], final_state[l]),
                        initial_state[k] # final_state[l]
                 PROVE  /\ initial_state[k].prot # final_state[l].prot =>
                             WithDirtyCount(initial_state[k], final_state[l]) \in modified'
                        /\ initial_state[k].prot = final_state[l].prot =>
                             WithCounts(initial_state[k], final_state[l]) \in modified'
    BY <1>1 DEF ModifiedComplete, states
  <2>2. CASE k \in 1..index_initial_state /\ l \in 1..index_final_state
    BY <1>2, <2>1, <2>2 DEF ListsExact, ModifiedComplete
  <2>3. CASE /\ initial_state[k] = ThisInitial /\ final_state[l] = ThisFinal
             /\ Verdict \in {"IDENTICAL", "MODIFIED", "MODIFIED_PROTECTION"}
    <3>1. CASE Verdict = "MODIFIED"
      <4>1. Modified
        BY <3>1 DEF Next, Identical, ModifiedProtection, AddedAndRemoved, Added, Removed,
                    Done, Returns
      <4> QED BY <2>3, <3>1, <4>1, VerdictFacts DEF Modified
    <3>2. CASE Verdict = "MODIFIED_PROTECTION"
      <4>1. ModifiedProtection
        BY <3>2 DEF Next, Identical, Modified, AddedAndRemoved, Added, Removed, Done, Returns
      <4> QED BY <2>3, <3>2, <4>1, VerdictFacts DEF ModifiedProtection
    <3> QED BY <2>1, <2>3, <3>1, <3>2, VerdictFacts
  <2> QED BY <2>1, <2>2, <2>3, NewlyPassed
<1>4. ProtectionSound'
  <2>1. \/ modified_protection' = modified_protection
        \/ /\ Verdict = "MODIFIED_PROTECTION"
           /\ modified_protection' =
                modified_protection \cup {WithDirtyCount(ThisInitial, ThisFinal)}
    BY DEF Next, Identical, Modified, ModifiedProtection, AddedAndRemoved, Added,
           Removed, Done, Returns, lists
  <2>2. CASE modified_protection' = modified_protection
    BY <1>1, <2>2 DEF ListsExact, ProtectionSound, states
  <2>3. CASE /\ Verdict = "MODIFIED_PROTECTION"
             /\ modified_protection' =
                  modified_protection \cup {WithDirtyCount(ThisInitial, ThisFinal)}
    <3>1. /\ InitialLeft /\ FinalLeft
          /\ SameRange(ThisInitial, ThisFinal)
          /\ ThisInitial.prot # ThisFinal.prot
      BY <2>3, VerdictFacts
    <3>2. \E k \in 1..Len(initial_state), l \in 1..Len(final_state) :
             /\ SameRange(initial_state[k], final_state[l])
             /\ initial_state[k].prot # final_state[l].prot
             /\ WithDirtyCount(ThisInitial, ThisFinal)
                  = WithDirtyCount(initial_state[k], final_state[l])
      BY <3>1, TheseAreElements
    <3> QED BY <1>1, <2>3, <3>2 DEF ListsExact, ProtectionSound, states
  <2> QED BY <2>1, <2>2, <2>3
<1>5. ProtectionComplete'
  <2>1. SUFFICES ASSUME NEW k \in 1..index_initial_state', NEW l \in 1..index_final_state',
                        SameRange(initial_state[k], final_state[l]),
                        initial_state[k].prot # final_state[l].prot
                 PROVE  WithDirtyCount(initial_state[k], final_state[l])
                          \in modified_protection'
    BY <1>1 DEF ProtectionComplete, states
  <2>2. CASE k \in 1..index_initial_state /\ l \in 1..index_final_state
    BY <1>2, <2>1, <2>2 DEF ListsExact, ProtectionComplete
  <2>3. CASE /\ initial_state[k] = ThisInitial /\ final_state[l] = ThisFinal
             /\ Verdict \in {"IDENTICAL", "MODIFIED", "MODIFIED_PROTECTION"}
    <3>1. Verdict = "MODIFIED_PROTECTION"
      BY <2>1, <2>3, VerdictFacts
    <3>2. ModifiedProtection
      BY <3>1 DEF Next, Identical, Modified, AddedAndRemoved, Added, Removed, Done, Returns
    <3> QED BY <2>3, <3>2 DEF ModifiedProtection
  <2> QED BY <2>1, <2>2, <2>3, NewlyPassed
<1>6. ModifiedSound'
  <2> DEFINE Sound(o) ==
        \/ \E k \in 1..Len(initial_state) :
             /\ o = AllDirty(initial_state[k])
             /\ Missing(initial_state[k], final_state)
        \/ \E k \in 1..Len(initial_state), l \in 1..Len(final_state) :
             /\ SameRange(initial_state[k], final_state[l])
             /\ initial_state[k].prot # final_state[l].prot
             /\ o = WithDirtyCount(initial_state[k], final_state[l])
        \/ \E k \in 1..Len(initial_state), l \in 1..Len(final_state) :
             /\ SameRange(initial_state[k], final_state[l])
             /\ initial_state[k].prot = final_state[l].prot
             /\ initial_state[k] # final_state[l]
             /\ o = WithCounts(initial_state[k], final_state[l])
  <2>1. SUFFICES ASSUME NEW o \in modified' PROVE Sound(o)
    BY <1>1 DEF ModifiedSound, states
  <2>2. CASE o \in modified
    BY <2>2 DEF ListsExact, ModifiedSound
  <2>3. \/ o \in modified
        \/ Verdict = "MODIFIED" /\ o = WithCounts(ThisInitial, ThisFinal)
        \/ Verdict = "MODIFIED_PROTECTION" /\ o = WithDirtyCount(ThisInitial, ThisFinal)
        \/ Verdict \in {"REMOVED", "ADDED_AND_REMOVED"} /\ o = AllDirty(ThisInitial)
    BY <2>1 DEF Next, Identical, Modified, ModifiedProtection, AddedAndRemoved, Added,
                Removed, Done, Returns, lists
  <2>4. CASE Verdict = "MODIFIED" /\ o = WithCounts(ThisInitial, ThisFinal)
    BY <2>4, VerdictFacts, TheseAreElements
  <2>5. CASE Verdict = "MODIFIED_PROTECTION" /\ o = WithDirtyCount(ThisInitial, ThisFinal)
    BY <2>5, VerdictFacts, TheseAreElements
  <2>6. CASE Verdict \in {"REMOVED", "ADDED_AND_REMOVED"} /\ o = AllDirty(ThisInitial)
    BY <2>6, VerdictFacts, TheseAreElements
  <2> QED BY <2>2, <2>3, <2>4, <2>5, <2>6
<1> QED BY <1>3, <1>4, <1>5, <1>6

\* The invariant of the scan.
THEOREM ScanInvariant == Spec => []IInv
<1>1. Init => IInv
  <2>1. SUFFICES ASSUME Init PROVE IInv
    OBVIOUS
  <2>2. TypeOK
    BY <2>1, LayoutAssumption DEF Init, TypeOK, IsLayout, Verdicts
  <2>3. Apart
    BY <2>1 DEF Init, Apart
  <2>4. ListsExact
    BY <2>1 DEF Init, ListsExact, AddedSound, AddedComplete, RemovedSound,
                RemovedComplete, ModifiedSound, ModifiedComplete, ProtectionSound, ProtectionComplete
  <2>5. DoneAtEnd
    BY <2>1 DEF Init, DoneAtEnd
  <2> QED BY <2>2, <2>3, <2>4, <2>5 DEF IInv
<1>2. IInv /\ [Next]_vars => IInv'
  <2>1. SUFFICES ASSUME IInv, [Next]_vars PROVE IInv'
    OBVIOUS
  <2>2. CASE Next
    <3>1. TypeOK' /\ Apart'
      BY <2>1, <2>2, TypeStep, ApartStep DEF IInv
    <3>2. ListsExact'
      BY <2>1, <2>2, AddedStep, RemovedStep, PairStep DEF IInv, ListsExact
    <3>3. DoneAtEnd'
      <4>1. SUFFICES ASSUME r' = "DONE"
                     PROVE  /\ index_initial_state' = Len(initial_state')
                            /\ index_final_state' = Len(final_state')
        BY DEF DoneAtEnd
      <4>2. Verdict = "DONE" /\ UNCHANGED <<states, indexes>>
        BY <2>2, <4>1 DEF Next, Identical, Modified, ModifiedProtection,
              AddedAndRemoved, Added, Removed, Done, Returns, indexes
      <4>3. ~InitialLeft /\ ~FinalLeft
        BY <4>2 DEF Verdict, Compare
      <4> QED BY <2>1, <4>2, <4>3
                 DEF IInv, TypeOK, IsLayout, InitialLeft, FinalLeft, states, indexes
    <3> QED BY <3>1, <3>2, <3>3 DEF IInv
  <2>3. CASE UNCHANGED vars
    BY <2>1, <2>3 DEF vars, states, indexes, lists, IInv, TypeOK, Apart, ListsExact,
       AddedSound, AddedComplete, RemovedSound, RemovedComplete, ModifiedSound, ModifiedComplete,
       ProtectionSound, ProtectionComplete, DoneAtEnd
  <2> QED BY <2>1, <2>2, <2>3
<1> QED BY <1>1, <1>2, PTL DEF Spec

-------------------------------------------------------------------------------
\* The entries of added and removed have no counterpart, at any time: the
\* system calls of remove_added_memory and restore_removed_memory never touch
\* a region that only changed.
THEOREM RemapIsExact == Spec => []RemapOnlyTheMissing
<1>1. ASSUME IInv PROVE RemapOnlyTheMissing
  <2>1. ASSUME NEW n \in added, NEW m \in Regions(initial_state), SameRange(n, m)
        PROVE  FALSE
    <3>1. PICK l \in 1..Len(final_state) :
             n = reset_map_metadata(final_state[l]) /\ Missing(final_state[l], initial_state)
      BY <1>1 DEF IInv, ListsExact, AddedSound
    <3>2. PICK k \in 1..Len(initial_state) : m = initial_state[k]
      BY <1>1 DEF Regions, IInv, TypeOK, IsLayout
    <3>3. SameRange(n, final_state[l])
      BY <1>1, <3>1, LayoutElements, Filed DEF IInv, TypeOK
    <3> QED BY <2>1, <3>1, <3>2, <3>3 DEF Missing, SameRange
  <2>2. ASSUME NEW o \in removed, NEW n \in Regions(final_state), SameRange(o, n)
        PROVE  FALSE
    <3>1. PICK k \in 1..Len(initial_state) :
             o = reset_map_metadata(initial_state[k]) /\ Missing(initial_state[k], final_state)
      BY <1>1 DEF IInv, ListsExact, RemovedSound
    <3>2. PICK l \in 1..Len(final_state) : n = final_state[l]
      BY <1>1 DEF Regions, IInv, TypeOK, IsLayout
    <3>3. SameRange(o, initial_state[k])
      BY <1>1, <3>1, LayoutElements, Filed DEF IInv, TypeOK
    <3> QED BY <2>2, <3>1, <3>2, <3>3 DEF Missing, SameRange
  <2> QED BY <2>1, <2>2 DEF RemapOnlyTheMissing
<1> QED BY <1>1, ScanInvariant, PTL

\* Whatever munmap of an added region takes from a checkpointed region, mmap
\* of a removed region gives back.
THEOREM MunmapRepaired == Spec => []MunmapIsRepaired
<1>1. ASSUME IInv, Finished, NEW n \in added, NEW m \in Regions(initial_state),
             Overlap(m, n)
      PROVE  \E o \in removed : SameRange(o, m)
  <2>1. PICK l \in 1..Len(final_state) :
           n = reset_map_metadata(final_state[l]) /\ Missing(final_state[l], initial_state)
    BY <1>1 DEF IInv, ListsExact, AddedSound
  <2>2. PICK k \in 1..Len(initial_state) : m = initial_state[k]
    BY <1>1 DEF Regions, IInv, TypeOK, IsLayout
  <2>3. IsLayout(initial_state) /\ IsLayout(final_state)
    BY <1>1 DEF IInv, TypeOK
  <2>4. SameRange(n, final_state[l])
    BY <2>1, <2>3, LayoutElements, Filed
  <2>5. Missing(initial_state[k], final_state)
    <3>1. SUFFICES ASSUME NEW h \in 1..Len(final_state),
                          SameRange(initial_state[k], final_state[h])
                   PROVE  FALSE
      BY DEF Missing
    <3>2. Overlap(final_state[h], final_state[l])
      BY <1>1, <2>2, <2>4, <3>1 DEF Overlap, SameRange
    <3>3. h = l
      BY <2>3, <3>2, LayoutDisjoint
    <3> QED BY <2>1, <2>2, <3>1, <3>3 DEF Missing, SameRange
  <2>6. k \in 1..index_initial_state
    BY <1>1 DEF IInv, DoneAtEnd, Finished
  <2>7. reset_map_metadata(initial_state[k]) \in removed
    BY <1>1, <2>5, <2>6 DEF IInv, ListsExact, RemovedComplete
  <2>8. SameRange(reset_map_metadata(initial_state[k]), initial_state[k])
    BY <2>3, LayoutElements, Filed
  <2> QED BY <2>2, <2>7, <2>8
<1>2. IInv => MunmapIsRepaired
  BY <1>1 DEF MunmapIsRepaired
<1> QED BY <1>2, ScanInvariant, PTL

\* Every checkpointed region that differs from what the process has now is
\* handed to the content restore, with its current number of dirty pages.
THEOREM ChangesRestored == Spec => []ChangeIsRestored
<1>1. ASSUME IInv, Finished, NEW m \in Regions(initial_state),
             m \notin Regions(final_state)
      PROVE  \E o \in modified :
               /\ SameRange(o, m)
               /\ \A n \in Regions(final_state) :
                    SameRange(n, m) => o.soft_dirty_count >= n.soft_dirty_count
  <2>1. IsLayout(initial_state) /\ IsLayout(final_state)
    BY <1>1 DEF IInv, TypeOK
  <2>2. PICK k \in 1..Len(initial_state) : m = initial_state[k]
    BY <2>1 DEF Regions, IsLayout
  <2>3. /\ index_initial_state = Len(initial_state)
        /\ index_final_state = Len(final_state)
    BY <1>1 DEF IInv, DoneAtEnd, Finished
  <2>4. DOMAIN final_state = 1..Len(final_state)
    BY <2>1 DEF IsLayout
  <2>5. CASE Missing(m, final_state)
    <3>1. AllDirty(m) \in modified
      BY <1>1, <2>2, <2>3, <2>5 DEF IInv, ListsExact, RemovedComplete
    <3>2. SameRange(AllDirty(m), m)
      BY <2>1, <2>2, LayoutElements, Filed
    <3> QED BY <2>4, <2>5, <3>1, <3>2 DEF Missing, SameRange, Regions
  <2>6. CASE ~Missing(m, final_state)
    <3>1. PICK l \in 1..Len(final_state) : SameRange(m, final_state[l])
      BY <2>6 DEF Missing
    <3>2. m # final_state[l]
      BY <1>1, <2>4 DEF Regions
    <3>3. PICK o \in modified : /\ SameRange(o, m)
                                /\ o.soft_dirty_count = final_state[l].soft_dirty_count
      <4>1. /\ m \in Region /\ final_state[l] \in Region
            /\ m.addr_start < m.addr_end
        BY <2>1, <2>2, LayoutElements
      <4>2. \/ WithDirtyCount(m, final_state[l]) \in modified
            \/ WithCounts(m, final_state[l]) \in modified
        BY <1>1, <2>2, <2>3, <3>1, <3>2 DEF IInv, ListsExact, ModifiedComplete
      <4> QED BY <4>1, <4>2, Filed
    <3>4. ASSUME NEW h \in 1..Len(final_state), SameRange(final_state[h], m)
          PROVE  h = l
      <4>1. Overlap(final_state[h], final_state[l])
        BY <2>1, <3>1, <3>4, LayoutElements DEF SameRange, Overlap
      <4> QED BY <2>1, <4>1, LayoutDisjoint
    <3>5. final_state[l].soft_dirty_count \in Nat
      BY <2>1, LayoutElements
    <3> QED BY <2>4, <3>3, <3>4, <3>5 DEF Regions
  <2> QED BY <2>5, <2>6
<1>2. IInv => ChangeIsRestored
  BY <1>1 DEF ChangeIsRestored
<1> QED BY <1>2, ScanInvariant, PTL

\* The system calls turn the current layout into the checkpointed one.
THEOREM ShapeRestored == Spec => []RestoresShape
<1>1. ASSUME IInv, Finished
      PROVE  AfterSyscalls = {Shape(m) : m \in Regions(initial_state)}
  <2>1. IsLayout(initial_state) /\ IsLayout(final_state)
    BY <1>1 DEF IInv, TypeOK
  <2>2. /\ index_initial_state = Len(initial_state)
        /\ index_final_state = Len(final_state)
    BY <1>1 DEF IInv, DoneAtEnd, Finished
  <2>3. /\ DOMAIN initial_state = 1..Len(initial_state)
        /\ DOMAIN final_state = 1..Len(final_state)
    BY <2>1 DEF IsLayout
  <2>4. ASSUME NEW m \in Kept
        PROVE  \E n \in Regions(initial_state) : Shape(m) = Shape(n)
    <3>1. PICK l \in 1..Len(final_state) : m = final_state[l]
      BY <2>3 DEF Kept, Regions
    <3>2. ~Missing(m, initial_state)
      <4>1. SameRange(reset_map_metadata(m), m)
        BY <2>1, <3>1, LayoutElements, Filed
      <4> QED BY <1>1, <2>2, <3>1, <4>1
                 DEF Kept, IInv, ListsExact, AddedComplete, SameRange
    <3>3. PICK k \in 1..Len(initial_state) : SameRange(m, initial_state[k])
      BY <3>2 DEF Missing
    <3>4. initial_state[k].prot = m.prot
      <4>1. SameRange(initial_state[k], final_state[l])
        BY <3>1, <3>3 DEF SameRange
      <4>2. SameRange(WithDirtyCount(initial_state[k], final_state[l]), initial_state[k])
        BY <2>1, LayoutElements, Filed
      <4>3. WithDirtyCount(initial_state[k], final_state[l]) \notin modified_protection
        BY <3>3, <4>2 DEF Kept, SameRange
      <4> QED BY <1>1, <2>2, <3>1, <4>1, <4>3 DEF IInv, ListsExact, ProtectionComplete
    <3> QED BY <2>3, <3>3, <3>4 DEF Shape, SameRange, Regions
  <2>5. ASSUME NEW m \in modified_protection
        PROVE  \E n \in Regions(initial_state) : Shape(m) = Shape(n)
    <3>1. PICK k \in 1..Len(initial_state), l \in 1..Len(final_state) :
             m = WithDirtyCount(initial_state[k], final_state[l])
      BY <1>1 DEF IInv, ListsExact, ProtectionSound
    <3>2. SameRange(m, initial_state[k]) /\ m.prot = initial_state[k].prot
      BY <2>1, <3>1, LayoutElements, Filed
    <3> QED BY <2>3, <3>2 DEF Shape, SameRange, Regions
  <2>6. ASSUME NEW m \in removed
        PROVE  \E n \in Regions(initial_state) : Shape(m) = Shape(n)
    <3>1. PICK k \in 1..Len(initial_state) : m = reset_map_metadata(initial_state[k])
      BY <1>1 DEF IInv, ListsExact, RemovedSound
    <3>2. SameRange(m, initial_state[k]) /\ m.prot = initial_state[k].prot
      BY <2>1, <3>1, LayoutElements, Filed
    <3> QED BY <2>3, <3>2 DEF Shape, SameRange, Regions
  <2>7. ASSUME NEW k \in 1..Len(initial_state)
        PROVE  \E n \in Kept \cup modified_protection \cup removed :
                 Shape(n) = Shape(initial_state[k])
    <3> DEFINE m == initial_state[k]
    <3>1. CASE Missing(m, final_state)
      <4>1. reset_map_metadata(m) \in removed
        BY <1>1, <2>2, <3>1 DEF IInv, ListsExact, RemovedComplete
      <4>2. SameRange(reset_map_metadata(m), m) /\ reset_map_metadata(m).prot = m.prot
        BY <2>1, LayoutElements, Filed
      <4> QED BY <4>1, <4>2 DEF Shape, SameRange
    <3>2. ASSUME NEW l \in 1..Len(final_state), SameRange(m, final_state[l]),
                 m.prot # final_state[l].prot
          PROVE  \E n \in modified_protection : Shape(n) = Shape(m)
      <4>1. WithDirtyCount(m, final_state[l]) \in modified_protection
        BY <1>1, <2>2, <3>2 DEF IInv, ListsExact, ProtectionComplete
      <4>2. /\ SameRange(WithDirtyCount(m, final_state[l]), m)
            /\ WithDirtyCount(m, final_state[l]).prot = m.prot
        BY <2>1, LayoutElements, Filed
      <4> QED BY <4>1, <4>2 DEF Shape, SameRange
    <3>3. ASSUME NEW l \in 1..Len(final_state), SameRange(m, final_state[l]),
                 m.prot = final_state[l].prot
          PROVE  final_state[l] \in Kept
      <4>1. ASSUME NEW n \in added, SameRange(final_state[l], n)
            PROVE  FALSE
        <5>1. PICK h \in 1..Len(final_state) :
                 n = reset_map_metadata(final_state[h]) /\ Missing(final_state[h], initial_state)
          BY <1>1 DEF IInv, ListsExact, AddedSound
        <5>2. SameRange(n, final_state[h])
          BY <2>1, <5>1, LayoutElements, Filed
        <5> QED BY <3>3, <4>1, <5>1, <5>2 DEF Missing, SameRange
      <4>2. ASSUME NEW n \in modified_protection, SameRange(final_state[l], n)
            PROVE  FALSE
        <5>1. PICK g \in 1..Len(initial_state), h \in 1..Len(final_state) :
                 /\ SameRange(initial_state[g], final_state[h])
                 /\ initial_state[g].prot # final_state[h].prot
                 /\ n = WithDirtyCount(initial_state[g], final_state[h])
          BY <1>1 DEF IInv, ListsExact, ProtectionSound
        <5>2. SameRange(n, initial_state[g])
          BY <2>1, <5>1, LayoutElements, Filed
        <5>3. Overlap(initial_state[g], initial_state[k]) /\ Overlap(final_state[h], final_state[l])
          BY <2>1, <3>3, <4>2, <5>1, <5>2, LayoutElements DEF SameRange, Overlap
        <5>4. g = k /\ h = l
          BY <2>1, <5>3, LayoutDisjoint
        <5> QED BY <3>3, <5>1, <5>4
      <4> QED BY <2>3, <4>1, <4>2 DEF Kept, Regions
    <3>4. ASSUME NEW l \in 1..Len(final_state), SameRange(m, final_state[l]),
                 m.prot = final_state[l].prot
          PROVE  Shape(final_state[l]) = Shape(m)
      BY <3>4 DEF Shape, SameRange
    <3> QED BY <3>1, <3>2, <3>3, <3>4 DEF Missing
  <2> QED BY <2>3, <2>4, <2>5, <2>6, <2>7 DEF AfterSyscalls, Regions
<1>2. IInv => RestoresShape
  BY <1>1 DEF RestoresShape
<1> QED BY <1>2, ScanInvariant, PTL

\* Every turn of the loop passes a region and stays within both arrays.
THEOREM ScanMoves == Spec => ScanAdvances
<1>1. ASSUME TypeOK, [Next]_vars
      PROVE  [r' # "DONE" => /\ index_initial_state' + index_final_state'
                                   > index_initial_state + index_final_state
                             /\ index_initial_state' <= Len(initial_state)
                             /\ index_final_state' <= Len(final_state)]_vars
  <2>1. SUFFICES ASSUME Next, r' # "DONE"
                 PROVE  /\ index_initial_state' + index_final_state'
                              > index_initial_state + index_final_state
                        /\ index_initial_state' <= Len(initial_state)
                        /\ index_final_state' <= Len(final_state)
    BY <1>1
  <2>2. TypeOK' /\ UNCHANGED states
    BY <1>1, <2>1, TypeStep, IndexStep
  <2>3. Verdict # "DONE"
    BY <2>1 DEF Next, Identical, Modified, ModifiedProtection, AddedAndRemoved, Added,
                Removed, Done, Returns
  <2>4. index_initial_state \in Nat /\ index_final_state \in Nat
    BY <1>1 DEF TypeOK
  <2>5. index_initial_state' + index_final_state'
          > index_initial_state + index_final_state
    BY <2>1, <2>3, <2>4, IndexStep DEF PassInitial, PassFinal, Verdicts
  <2> QED BY <2>2, <2>5 DEF TypeOK, states, IsLayout
<1> QED BY <1>1, TypeCorrect, PTL DEF Spec, ScanAdvances

-------------------------------------------------------------------------------
\* The scan computes the comparison of MapRegions, entry by entry.
THEOREM ScanComputesDiff == Spec => []ListsMatch
<1>1. ASSUME IInv, Finished
      PROVE  /\ added = {reset_map_metadata(n) :
                          n \in MissingFrom(Regions(final_state), Regions(initial_state))}
             /\ removed = {reset_map_metadata(m) :
                          m \in MissingFrom(Regions(initial_state), Regions(final_state))}
             /\ modified = ModifiedMaps(Regions(initial_state), Regions(final_state))
             /\ modified_protection =
                  ReprotectedMaps(Regions(initial_state), Regions(final_state))
  <2> DEFINE I == Regions(initial_state)
             F == Regions(final_state)
  <2>1. /\ index_initial_state = Len(initial_state)
        /\ index_final_state = Len(final_state)
    BY <1>1 DEF IInv, DoneAtEnd, Finished
  <2>2. /\ I = {initial_state[k] : k \in 1..Len(initial_state)}
        /\ F = {final_state[l] : l \in 1..Len(final_state)}
    BY <1>1 DEF IInv, TypeOK, IsLayout, Regions
  <2>3. ASSUME NEW k \in 1..Len(initial_state)
        PROVE  Missing(initial_state[k], final_state) <=> initial_state[k] \in MissingFrom(I, F)
    BY <2>2 DEF Missing, MissingFrom
  <2>4. ASSUME NEW l \in 1..Len(final_state)
        PROVE  Missing(final_state[l], initial_state) <=> final_state[l] \in MissingFrom(F, I)
    BY <2>2 DEF Missing, MissingFrom
  <2>5. MissingFrom(I, F) \subseteq I /\ MissingFrom(F, I) \subseteq F
    BY DEF MissingFrom
  <2>6. added = {reset_map_metadata(n) : n \in MissingFrom(F, I)}
    <3>1. ASSUME NEW o \in added
          PROVE  \E m \in MissingFrom(F, I) : o = reset_map_metadata(m)
      <4>1. PICK k \in 1..Len(final_state) :
               /\ o = reset_map_metadata(final_state[k])
               /\ Missing(final_state[k], initial_state)
        BY <1>1 DEF IInv, ListsExact, AddedSound
      <4> QED BY <2>4, <4>1
    <3>2. ASSUME NEW m \in MissingFrom(F, I)
          PROVE  reset_map_metadata(m) \in added
      <4>1. PICK k \in 1..Len(final_state) : m = final_state[k]
        BY <2>2, <2>5
      <4> QED BY <1>1, <2>1, <2>4, <4>1 DEF IInv, ListsExact, AddedComplete
    <3> QED BY <3>1, <3>2
  <2>7. removed = {reset_map_metadata(m) : m \in MissingFrom(I, F)}
    <3>1. ASSUME NEW o \in removed
          PROVE  \E m \in MissingFrom(I, F) : o = reset_map_metadata(m)
      <4>1. PICK k \in 1..Len(initial_state) :
               /\ o = reset_map_metadata(initial_state[k])
               /\ Missing(initial_state[k], final_state)
        BY <1>1 DEF IInv, ListsExact, RemovedSound
      <4> QED BY <2>3, <4>1
    <3>2. ASSUME NEW m \in MissingFrom(I, F)
          PROVE  reset_map_metadata(m) \in removed
      <4>1. PICK k \in 1..Len(initial_state) : m = initial_state[k]
        BY <2>2, <2>5
      <4> QED BY <1>1, <2>1, <2>3, <4>1 DEF IInv, ListsExact, RemovedComplete
    <3> QED BY <3>1, <3>2
  <2>8. modified_protection = ReprotectedMaps(I, F)
    <3>1. ASSUME NEW o \in modified_protection PROVE o \in ReprotectedMaps(I, F)
      <4>1. PICK k \in 1..Len(initial_state), l \in 1..Len(final_state) :
               /\ SameRange(initial_state[k], final_state[l])
               /\ initial_state[k].prot # final_state[l].prot
               /\ o = WithDirtyCount(initial_state[k], final_state[l])
        BY <1>1 DEF IInv, ListsExact, ProtectionSound
      <4>2. <<initial_state[k], final_state[l]>> \in I \X F
        BY <2>2
      <4> QED BY <4>1, <4>2 DEF ReprotectedMaps
    <3>2. ASSUME NEW o \in ReprotectedMaps(I, F) PROVE o \in modified_protection
      <4>1. PICK q \in I \X F : /\ SameRange(q[1], q[2]) /\ q[1].prot # q[2].prot
                                /\ o = WithDirtyCount(q[1], q[2])
        BY DEF ReprotectedMaps
      <4>2. PICK k \in 1..Len(initial_state), l \in 1..Len(final_state) :
               q[1] = initial_state[k] /\ q[2] = final_state[l]
        BY <2>2
      <4> QED BY <1>1, <2>1, <4>1, <4>2 DEF IInv, ListsExact, ProtectionComplete
    <3> QED BY <3>1, <3>2
  <2>9. modified = ModifiedMaps(I, F)
    <3>1. ASSUME NEW o \in modified PROVE o \in ModifiedMaps(I, F)
      <4>1. ASSUME NEW k \in 1..Len(initial_state), o = AllDirty(initial_state[k]),
                   Missing(initial_state[k], final_state)
            PROVE  o \in ModifiedMaps(I, F)
        BY <2>3, <4>1 DEF ModifiedMaps
      <4>2. ASSUME NEW k \in 1..Len(initial_state), NEW l \in 1..Len(final_state),
                   SameRange(initial_state[k], final_state[l]),
                   initial_state[k].prot # final_state[l].prot,
                   o = WithDirtyCount(initial_state[k], final_state[l])
            PROVE  o \in ModifiedMaps(I, F)
        <5>1. <<initial_state[k], final_state[l]>> \in I \X F
          BY <2>2
        <5>2. o \in ReprotectedMaps(I, F)
          BY <4>2, <5>1 DEF ReprotectedMaps
        <5> QED BY <5>2 DEF ModifiedMaps
      <4>3. ASSUME NEW k \in 1..Len(initial_state), NEW l \in 1..Len(final_state),
                   SameRange(initial_state[k], final_state[l]),
                   initial_state[k].prot = final_state[l].prot,
                   initial_state[k] # final_state[l],
                   o = WithCounts(initial_state[k], final_state[l])
            PROVE  o \in ModifiedMaps(I, F)
        <5>1. <<initial_state[k], final_state[l]>> \in I \X F
          BY <2>2
        <5> QED BY <4>3, <5>1 DEF ModifiedMaps, map_regions_equal
      <4> QED BY <1>1, <4>1, <4>2, <4>3 DEF IInv, ListsExact, ModifiedSound
    <3>2. ASSUME NEW m \in MissingFrom(I, F) PROVE AllDirty(m) \in modified
      <4>1. PICK k \in 1..Len(initial_state) : m = initial_state[k]
        BY <2>2, <2>5
      <4> QED BY <1>1, <2>1, <2>3, <4>1 DEF IInv, ListsExact, RemovedComplete
    <3>3. ASSUME NEW q \in I \X F, SameRange(q[1], q[2])
          PROVE  /\ q[1].prot # q[2].prot => WithDirtyCount(q[1], q[2]) \in modified
                 /\ q[1].prot = q[2].prot /\ q[1] # q[2] =>
                       WithCounts(q[1], q[2]) \in modified
      <4>1. PICK k \in 1..Len(initial_state), l \in 1..Len(final_state) :
               q[1] = initial_state[k] /\ q[2] = final_state[l]
        BY <2>2
      <4> QED BY <1>1, <2>1, <3>3, <4>1 DEF IInv, ListsExact, ModifiedComplete
    <3>4. ReprotectedMaps(I, F) \subseteq modified
      BY <3>3 DEF ReprotectedMaps
    <3> QED BY <3>1, <3>2, <3>3, <3>4 DEF ModifiedMaps, map_regions_equal
  <2> QED BY <2>6, <2>7, <2>8, <2>9
<1>2. IInv => ListsMatch
  BY <1>1 DEF ListsMatch
<1> QED BY <1>2, ScanInvariant, PTL
==============================================================================
