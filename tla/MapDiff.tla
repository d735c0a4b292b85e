-------------------------------- MODULE MapDiff --------------------------------
(***************************************************************************)
(* diff_process_maps (proc_cr.c) and the iterator that drives it           *)
(* (diff_process_maps_iterator, mem_diff.c).                               *)
(*                                                                         *)
(* Two captured states of one process, the checkpointed one and the        *)
(* current one, are walked side by side by two indexes.  Each call of the  *)
(* iterator advances one index or both and returns a verdict, and the loop *)
(* of diff_process_maps files the regions the iterator has just passed     *)
(* into up to three of four lists.  restore_process_sd later runs one      *)
(* system call in the process per entry of a list, so the lists have to    *)
(* be exact, whatever the function did to its memory.                      *)
(***************************************************************************)
EXTENDS MapRegions

CONSTANTS
    InitialLayouts,   \* the checkpointed map arrays to consider
    FinalLayouts      \* the current map arrays to consider

ASSUME LayoutAssumption ==
    \A s \in InitialLayouts \cup FinalLayouts : IsLayout(s)

VARIABLES
    initial_state,         \* maps[] of the checkpointed state
    final_state,           \* maps[] of the current state
    index_initial_state,   \* how many maps of initial_state were passed
    index_final_state,     \* how many maps of final_state were passed
    added, removed,        \* ps_diff->added, ps_diff->removed
    modified,              \* ps_diff->modified (their content is restored)
    modified_protection,   \* ps_diff->modified_protection
    r                      \* what the iterator returned last

states  == <<initial_state, final_state>>
indexes == <<index_initial_state, index_final_state>>
lists   == <<added, removed, modified, modified_protection>>
vars    == <<states, indexes, lists, r>>

Verdicts == {"IDENTICAL", "MODIFIED_PROTECTION", "MODIFIED",
             "ADDED_AND_REMOVED", "REMOVED", "ADDED", "DONE"}

-------------------------------------------------------------------------------
\* The region each index stands before.
ThisInitial == initial_state[index_initial_state + 1]
ThisFinal   == final_state[index_final_state + 1]

InitialLeft == index_initial_state < Len(initial_state)
FinalLeft   == index_final_state < Len(final_state)

\* Mutant: an iterator that compares ranges and forgets the protections.
BugCompare(a, b) ==
    IF map_regions_equal(a, b) THEN "IDENTICAL"
    ELSE IF SameStartOrEnd(a, b) THEN "ADDED_AND_REMOVED"
    ELSE IF a.addr_start < b.addr_start THEN "REMOVED" ELSE "ADDED"

\* diff_process_maps_iterator on two regions that both exist.
Compare(a, b) ==
    CASE map_regions_equal(a, b)                -> "IDENTICAL"
      [] ~map_regions_equal(a, b) /\ SameRange(a, b)
                                  /\ a.prot # b.prot
                                                -> "MODIFIED_PROTECTION"
      [] ~map_regions_equal(a, b) /\ SameRange(a, b)
                                  /\ a.prot = b.prot
                                                -> "MODIFIED"
      [] ~SameRange(a, b) /\ SameStartOrEnd(a, b)
                                                -> "ADDED_AND_REMOVED"
      [] ~SameStartOrEnd(a, b) /\ a.addr_start < b.addr_start -> "REMOVED"
      [] OTHER                                  -> "ADDED"

\* diff_process_maps_iterator: the verdict of the next call.
Verdict ==
    CASE InitialLeft  /\ FinalLeft  -> Compare(ThisInitial, ThisFinal)
      [] InitialLeft  /\ ~FinalLeft -> "REMOVED"
      [] ~InitialLeft /\ FinalLeft  -> "ADDED"
      [] OTHER                      -> "DONE"

-------------------------------------------------------------------------------
Init ==
    /\ initial_state \in InitialLayouts
    /\ final_state \in FinalLayouts
    /\ index_initial_state = 0
    /\ index_final_state = 0
    /\ added = {} /\ removed = {} /\ modified = {} /\ modified_protection = {}
    /\ r = "IDENTICAL"

PassInitial == index_initial_state' = index_initial_state + 1
PassFinal   == index_final_state' = index_final_state + 1

\* One turn of the loop: the iterator returns v and the case for v runs.
Returns(v) ==
    /\ r # "DONE"
    /\ Verdict = v
    /\ r' = v
    /\ UNCHANGED states

Identical ==
    /\ Returns("IDENTICAL")
    /\ PassInitial /\ PassFinal
    /\ UNCHANGED lists

\* Mutant: the counters are those of the checkpoint.
BugModified ==
    /\ Returns("MODIFIED")
    /\ PassInitial /\ PassFinal
    /\ modified' = modified \cup {ThisInitial}
    /\ UNCHANGED <<added, removed, modified_protection>>

Modified ==
    /\ Returns("MODIFIED")
    /\ PassInitial /\ PassFinal
    /\ modified' = modified \cup {WithCounts(ThisInitial, ThisFinal)}
    /\ UNCHANGED <<added, removed, modified_protection>>

\* Mutant: the content is restored, the protection is not.
BugModifiedProtection ==
    /\ Returns("MODIFIED_PROTECTION")
    /\ PassInitial /\ PassFinal
    /\ modified' = modified \cup {WithDirtyCount(ThisInitial, ThisFinal)}
    /\ UNCHANGED <<added, removed, modified_protection>>

ModifiedProtection ==
    /\ Returns("MODIFIED_PROTECTION")
    /\ PassInitial /\ PassFinal
    /\ LET m == WithDirtyCount(ThisInitial, ThisFinal) IN
         /\ modified_protection' = modified_protection \cup {m}
         /\ modified' = modified \cup {m}
    /\ UNCHANGED <<added, removed>>

\* Mutants: the region is unmapped and not mapped again, or mapped again
\* without its content.
BugNotRemapped ==
    /\ Returns("ADDED_AND_REMOVED")
    /\ PassInitial /\ PassFinal
    /\ added' = added \cup {reset_map_metadata(ThisFinal)}
    /\ modified' = modified \cup {AllDirty(ThisInitial)}
    /\ UNCHANGED <<removed, modified_protection>>
BugNotRefilled ==
    /\ Returns("ADDED_AND_REMOVED")
    /\ PassInitial /\ PassFinal
    /\ added' = added \cup {reset_map_metadata(ThisFinal)}
    /\ removed' = removed \cup {reset_map_metadata(ThisInitial)}
    /\ UNCHANGED <<modified, modified_protection>>

AddedAndRemoved ==
    /\ Returns("ADDED_AND_REMOVED")
    /\ PassInitial /\ PassFinal
    /\ added' = added \cup {reset_map_metadata(ThisFinal)}
    /\ removed' = removed \cup {reset_map_metadata(ThisInitial)}
    /\ modified' = modified \cup {AllDirty(ThisInitial)}
    /\ UNCHANGED modified_protection

\* Mutant: no index advances.
BugPassNone ==
    /\ Returns("ADDED")
    /\ added' = added \cup {reset_map_metadata(ThisFinal)}
    /\ UNCHANGED <<indexes, removed, modified, modified_protection>>

Added ==
    /\ Returns("ADDED")
    /\ PassFinal
    /\ added' = added \cup {reset_map_metadata(ThisFinal)}
    /\ UNCHANGED <<index_initial_state, removed, modified, modified_protection>>

Removed ==
    /\ Returns("REMOVED")
    /\ PassInitial
    /\ removed' = removed \cup {reset_map_metadata(ThisInitial)}
    /\ modified' = modified \cup {AllDirty(ThisInitial)}
    /\ UNCHANGED <<index_final_state, added, modified_protection>>

Done ==
    /\ Returns("DONE")
    /\ UNCHANGED <<indexes, lists>>

Next ==
    \/ Identical \/ Modified \/ ModifiedProtection
    \/ AddedAndRemoved \/ Added \/ Removed \/ Done

Spec == Init /\ [][Next]_vars /\ WF_vars(Next)

-------------------------------------------------------------------------------
\* Neither index runs past its array, and only regions are filed.
TypeOK ==
    /\ IsLayout(initial_state)
    /\ IsLayout(final_state)
    /\ index_initial_state \in 0..Len(initial_state)
    /\ index_final_state \in 0..Len(final_state)
    /\ added \subseteq Region
    /\ removed \subseteq Region
    /\ modified \subseteq Region
    /\ modified_protection \subseteq Region
    /\ r \in Verdicts

Finished == r = "DONE"

\* A region without its counters: what munmap, mmap and mprotect act on.
Shape(m) == [addr_start |-> m.addr_start, addr_end |-> m.addr_end, prot |-> m.prot]

\* The regions that munmap leaves, those that mprotect and mmap then put in
\* place: what the lists make of the current layout.
Kept == {m \in Regions(final_state) :
            /\ \A n \in added : ~SameRange(m, n)
            /\ \A n \in modified_protection : ~SameRange(m, n)}
AfterSyscalls == {Shape(m) : m \in Kept \cup modified_protection \cup removed}

\* Running the lists against the current layout gives the checkpointed one:
\* same ranges, same protections (remove_added_memory,
\* restore_removed_memory, restore_memory_protection).
RestoresShape ==
    Finished => AfterSyscalls = {Shape(m) : m \in Regions(initial_state)}

\* munmap runs before mmap, on whole current regions, and such a region may
\* cover pages of a checkpointed one.  Every checkpointed region that loses
\* pages that way is in removed, so that it is mapped again.
MunmapIsRepaired ==
    Finished =>
        \A n \in added, m \in Regions(initial_state) :
            Overlap(m, n) => \E o \in removed : SameRange(o, m)

\* The lists hold what the operators of MapRegions say: the scan implements
\* the comparison that CheckpointRestore uses in one step.
ListsMatch ==
    Finished =>
        LET I == Regions(initial_state)
            F == Regions(final_state) IN
        /\ added = {reset_map_metadata(n) : n \in MissingFrom(F, I)}
        /\ removed = {reset_map_metadata(m) : m \in MissingFrom(I, F)}
        /\ modified = ModifiedMaps(I, F)
        /\ modified_protection = ReprotectedMaps(I, F)

\* No write escapes the content restore: a checkpointed region whose current
\* counterpart is missing or has dirty or freed pages is in modified, with at
\* least as many dirty pages as the counterpart has.
ChangeIsRestored ==
    Finished =>
        \A m \in Regions(initial_state) :
            \/ m \in Regions(final_state)
            \/ \E o \in modified :
                 /\ SameRange(o, m)
                 /\ \A n \in Regions(final_state) :
                      SameRange(n, m) =>
                        o.soft_dirty_count >= n.soft_dirty_count

\* A region is never both kept and remapped: what is in removed has no
\* counterpart with its range, and neither has what is in added, so that no
\* region that only changed is unmapped and loses its content.
RemapOnlyTheMissing ==
    /\ \A n \in added, m \in Regions(initial_state) : ~SameRange(n, m)
    /\ \A o \in removed, n \in Regions(final_state) : ~SameRange(o, n)

\* Every call of the iterator passes a region: the loop cannot turn in place.
ScanAdvances ==
    [][r' # "DONE" => /\ index_initial_state' + index_final_state'
                            > index_initial_state + index_final_state
                      /\ index_initial_state' <= Len(initial_state)
                      /\ index_final_state' <= Len(final_state)]_vars

\* The loop of diff_process_maps ends.
Terminates == <>Finished
===============================================================================
