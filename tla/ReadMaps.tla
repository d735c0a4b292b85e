------------------------------- MODULE ReadMaps -------------------------------
(***************************************************************************)
(* How a picture of the memory of a stopped process is put together:       *)
(* read_maps of proc_parsers.c lists the regions of /proc/pid/maps, and    *)
(* populate_page_info fills one table with the pages of all of them, one   *)
(* job of the thread pool per region.                                      *)
(*                                                                         *)
(* A read of the file gives any number of whole lines.  A line is cut at   *)
(* its end while it is looked at; the end is put back, but not for the     *)
(* regions of the kernel ([vvar], [vdso], [vsyscall]), which are passed    *)
(* over.  A line is taken to begin after the last end that is there.       *)
(*                                                                         *)
(* What the pages and regions hold is AddressSpace's.                      *)
(***************************************************************************)
EXTENDS Integers, Sequences, FiniteSets, FiniteSetsExt, SequencesExt

CONSTANTS
    MaxLines,       \* lines of the file
    MaxPages,       \* pages of a region
    Workers         \* CONCURRENCY

ASSUME ReadMapsAssumption ==
    /\ MaxLines \in Nat \ {0}
    /\ MaxPages \in Nat \ {0}
    /\ Workers \in Nat \ {0}

VARIABLES
    file,                   \* the lines of /proc/pid/maps
    pos,                    \* how many of them were read
    buffer,                 \* the numbers of the lines that the last read gave
    at,                     \* the line of buffer that is looked at next
    cut,                    \* the lines of buffer whose end is not there
    phase,
    maps,                   \* ps->maps
    pages_max_capacity,
    pages,                  \* ps->pages: slot -> page
    job                     \* read_range_pagemap of each region

vars == <<file, pos, buffer, at, cut, phase, maps, pages_max_capacity, pages, job>>

Line == [special : BOOLEAN, pages : 1..MaxPages]

Init ==
    /\ file \in BoundedSeq(Line, MaxLines) /\ file # <<>>
    /\ pos = 0 /\ buffer = <<>> /\ at = 1 /\ cut = {}
    /\ phase = "read"
    /\ maps = <<>> /\ pages_max_capacity = 0
    /\ pages = <<>> /\ job = <<>>

-------------------------------------------------------------------------------
(* read_maps *)

\* read: some whole lines, over what is in the buffer.
Read ==
    /\ phase = "read" /\ at > Len(buffer) /\ pos < Len(file)
    /\ \E n \in 1..(Len(file) - pos) :
          /\ buffer' = [k \in 1..n |-> pos + k]
          /\ pos' = pos + n
    /\ at' = 1 /\ cut' = {}
    /\ UNCHANGED <<file, phase, maps, pages_max_capacity, pages, job>>

\* Where the line that ends at `at' is found to begin.
beginning == 1 + Max({0} \cup {k \in 1..(at - 1) : k \notin cut})
ThisLine == buffer[beginning]

\* Mutant: the end of the line is never put back.
BugNeverPutBack == cut \cup {at}

\* buffer[y] = 0, and '\n' again unless the region was passed over.
CutNow == IF file[ThisLine].special THEN cut \cup {at} ELSE cut

\* Mutant: = for +=.
BugLastRegion(n) == n

Grown(n) == pages_max_capacity + n

\* add_to_maps
add_to_maps(n) ==
    /\ maps' = Append(maps, [line |-> n, first_page_index |-> pages_max_capacity,
                             total_num_pages |-> file[n].pages,
                             populated_num_pages |-> 0])
    /\ pages_max_capacity' = Grown(file[n].pages)

ParseLine ==
    /\ phase = "read" /\ at <= Len(buffer)
    /\ IF file[ThisLine].special
       THEN UNCHANGED <<maps, pages_max_capacity>>
       ELSE add_to_maps(ThisLine)
    /\ cut' = CutNow
    /\ at' = at + 1
    /\ UNCHANGED <<file, pos, buffer, phase, pages, job>>

\* The end of the file; init_pages_info; a job for each region.
EndOfFile ==
    /\ phase = "read" /\ at > Len(buffer) /\ pos = Len(file)
    /\ phase' = "populate"
    /\ job' = [k \in DOMAIN maps |-> "queued"]
    /\ UNCHANGED <<file, pos, buffer, at, cut, maps, pages_max_capacity, pages>>

-------------------------------------------------------------------------------
(* populate_page_info and its jobs *)

In(s) == {k \in DOMAIN job : job[k] = s}

\* The first job of the queue; its read of the page map gives all or fails.
Start(k) ==
    /\ phase = "populate"
    /\ In("queued") # {} /\ k = Min(In("queued"))
    /\ Cardinality(In("running")) < Workers
    /\ \E s \in {"running", "failed"} : job' = [job EXCEPT ![k] = s]
    /\ UNCHANGED <<file, pos, buffer, at, cut, phase, maps, pages_max_capacity, pages>>

\* Mutant: the pages are appended, whatever region they are of.
BugAppends(k) == Cardinality(DOMAIN pages)

\* The slot that the next page of region k goes to.
Slot(k) == maps[k].first_page_index + maps[k].populated_num_pages

\* add_page_to_map, add_page_to_map_at_index: the table is grown when it is too
\* small; an assertion when it still is.
AddPage(k) ==
    /\ phase = "populate" /\ job[k] = "running"
    /\ maps[k].populated_num_pages < maps[k].total_num_pages
    /\ LET index == Slot(k)
           capacity == IF index < pages_max_capacity THEN pages_max_capacity
                       ELSE 2 * pages_max_capacity
           page == [line |-> maps[k].line, page |-> maps[k].populated_num_pages]
       IN  /\ pages_max_capacity' = capacity
           /\ IF index < capacity
              THEN /\ pages' = [s \in DOMAIN pages \cup {index} |->
                                   IF s = index THEN page ELSE pages[s]]
                   /\ maps' = [maps EXCEPT ![k].populated_num_pages = @ + 1]
                   /\ UNCHANGED phase
              ELSE phase' = "aborted" /\ UNCHANGED <<pages, maps>>
    /\ UNCHANGED <<file, pos, buffer, at, cut, job>>

JobDone(k) ==
    /\ phase = "populate" /\ job[k] = "running"
    /\ maps[k].populated_num_pages = maps[k].total_num_pages
    /\ job' = [job EXCEPT ![k] = "done"]
    /\ UNCHANGED <<file, pos, buffer, at, cut, phase, maps, pages_max_capacity, pages>>

\* thpool_wait returns; capture_process_state asserts that every page was counted.
Populated ==
    /\ phase = "populate" /\ In("queued") \cup In("running") = {}
    /\ phase' = IF In("failed") = {} THEN "done" ELSE "aborted"
    /\ UNCHANGED <<file, pos, buffer, at, cut, maps, pages_max_capacity, pages, job>>

Job(k) == Start(k) \/ AddPage(k) \/ JobDone(k)

Next ==
    \/ Read \/ ParseLine \/ EndOfFile \/ Populated
    \/ \E k \in DOMAIN job : Job(k)

Spec == Init /\ [][Next]_vars

-------------------------------------------------------------------------------
Ordinary(n) == ~file[n].special

\* The regions of the kernel are above all others.
SpecialsLast ==
    \A m, n \in DOMAIN file : m < n /\ file[m].special => file[n].special

\* Every ordinary region is listed, once, in the order of the addresses, and no
\* region of the kernel ever is (read_maps).  Some are missed where an ordinary
\* region follows one of the kernel's in the same read; even then none is listed
\* twice or for another.
Listed ==
    /\ \A k \in DOMAIN maps : Ordinary(maps[k].line)
    /\ \A k, l \in DOMAIN maps : k < l => maps[k].line < maps[l].line
    /\ phase # "read" /\ SpecialsLast =>
          \A n \in DOMAIN file : Ordinary(n) => \E k \in DOMAIN maps : maps[k].line = n

\* However the jobs run, the pages that a job has stored are where they are
\* looked for, at the slots that follow the first of their region, and all of
\* them are there in the end (add_page_to_map).  restore_dirty finds the pages of
\* two pictures by these slots.
PagesInPlace ==
    /\ \A k \in DOMAIN maps : \A p \in 0..(maps[k].populated_num_pages - 1) :
          /\ maps[k].first_page_index + p \in DOMAIN pages
          /\ pages[maps[k].first_page_index + p] = [line |-> maps[k].line, page |-> p]
    /\ phase = "done" =>
          \A k \in DOMAIN maps : maps[k].populated_num_pages = maps[k].total_num_pages

\* The table of pages is never found too small, and moved, while jobs write to
\* it ("make sure we do not go here if multithreaded", mem_helpers.c:83).
TableStays == [][phase = "populate" => UNCHANGED pages_max_capacity]_vars
===============================================================================
