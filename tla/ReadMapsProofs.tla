---------------------------- MODULE ReadMapsProofs ----------------------------
(***************************************************************************)
(* The picture of the memory, for files, reads, regions and pools of any   *)
(* size: what is listed, and that every page is found at its slot.         *)
(***************************************************************************)
EXTENDS ReadMaps, TLAPS

Map == [line : Nat, first_page_index : Nat, total_num_pages : Nat, populated_num_pages : Nat]

\* What was read is the last lines that were read of the file.
BufferOK ==
    /\ file \in Seq(Line) /\ pos \in 0..Len(file)
    /\ buffer \in Seq(Nat) /\ Len(buffer) \in 0..pos
    /\ \A k \in 1..Len(buffer) : buffer[k] = pos - Len(buffer) + k
    /\ at \in 1..(Len(buffer) + 1)
    /\ cut \subseteq 1..(at - 1)
    /\ phase \in {"read", "populate", "done", "aborted"}
    /\ phase # "read" => at = Len(buffer) + 1 /\ pos = Len(file)

\* b follows the last end that is there; it is the line itself, or a region of
\* the kernel that was passed over.
Begins(b) ==
    /\ b = 1 \/ b - 1 \notin cut
    /\ \A k \in b..(at - 1) : k \in cut
    /\ b = at \/ file[buffer[b]].special

ScanOK == \E b \in 1..at : Begins(b)

\* The lines that were looked at.
Seen == pos - Len(buffer) + at - 1

MapsOK ==
    /\ maps \in Seq(Map) /\ pages_max_capacity \in Nat
    /\ \A k \in 1..Len(maps) :
          /\ maps[k].line \in 1..Seen /\ Ordinary(maps[k].line)
          /\ maps[k].populated_num_pages <= maps[k].total_num_pages
          /\ maps[k].first_page_index + maps[k].total_num_pages <= pages_max_capacity
    /\ \A k, l \in 1..Len(maps) : k < l =>
          /\ maps[k].line < maps[l].line
          /\ maps[k].first_page_index + maps[k].total_num_pages <= maps[l].first_page_index
    /\ SpecialsLast => \A n \in 1..Seen : Ordinary(n) => \E k \in 1..Len(maps) : maps[k].line = n

Stored(k, p) ==
    /\ maps[k].first_page_index + p \in DOMAIN pages
    /\ pages[maps[k].first_page_index + p] = [line |-> maps[k].line, page |-> p]

JobsOK ==
    /\ phase = "read" =>
          job = <<>> /\ \A k \in 1..Len(maps) : maps[k].populated_num_pages = 0
    /\ phase # "read" => job \in [1..Len(maps) -> {"queued", "running", "failed", "done"}]
    /\ \A k \in 1..Len(maps) : \A p \in 0..(maps[k].populated_num_pages - 1) : Stored(k, p)
    /\ \A k \in DOMAIN job : job[k] = "done" =>
          maps[k].populated_num_pages = maps[k].total_num_pages
    /\ phase = "done" => \A k \in DOMAIN job : job[k] = "done"

IInv == BufferOK /\ ScanOK /\ MapsOK /\ JobsOK

LEMMA InitOK == Init => IInv
  <1> SUFFICES ASSUME Init PROVE IInv
    OBVIOUS
  <1>0. PICK m \in 0..MaxLines : file \in [1..m -> Line]
    BY DEF Init, BoundedSeq, SeqOf
  <1>1. file \in Seq(Line) /\ Len(file) \in Nat
    BY <1>0, ReadMapsAssumption
  <1>2. <<>> \in Seq(Nat) /\ <<>> \in Seq(Map) /\ Len(<<>>) = 0 /\ DOMAIN <<>> = {}
    OBVIOUS
  <1>3. BufferOK
    BY <1>1, <1>2 DEF Init, BufferOK
  <1>4. ScanOK
    BY DEF Init, ScanOK, Begins
  <1>5. MapsOK
    BY <1>2 DEF Init, MapsOK, Seen
  <1>6. JobsOK
    BY <1>2 DEF Init, JobsOK
  <1>7. QED
    BY <1>3, <1>4, <1>5, <1>6 DEF IInv

\* The line that is looked at is found.
LEMMA LineFound ==
  ASSUME IInv, phase = "read", at <= Len(buffer)
  PROVE  /\ beginning \in 1..at /\ Begins(beginning)
         /\ ThisLine = pos - Len(buffer) + beginning
         /\ ThisLine \in 1..Len(file)
  <1>1. PICK b \in 1..at : Begins(b)
    BY DEF IInv, ScanOK
  <1> DEFINE Ends == {0} \cup {k \in 1..(at - 1) : k \notin cut}
  <1>2. at \in Nat /\ Len(buffer) \in Nat /\ pos \in Nat /\ Len(file) \in Nat
    BY DEF IInv, BufferOK
  <1>3. b - 1 \in Ends /\ \A y \in Ends : b - 1 >= y
    BY <1>1, <1>2 DEF Begins
  <1>4. \A x \in Ends : (\A y \in Ends : x >= y) => x = b - 1
    BY <1>2, <1>3
  <1>5. Max(Ends) = b - 1
    BY <1>3, <1>4 DEF Max
  <1>6. beginning = b
    BY <1>2, <1>5 DEF beginning
  <1>7. b \in 1..Len(buffer)
    BY <1>2
  <1>8. buffer[b] = pos - Len(buffer) + b
    BY <1>7 DEF IInv, BufferOK
  <1>9. QED
    BY <1>1, <1>2, <1>6, <1>7, <1>8 DEF ThisLine, IInv, BufferOK

LEMMA ReadOK == IInv /\ Read => IInv'
  <1> SUFFICES ASSUME IInv, Read PROVE IInv'
    OBVIOUS
  <1>1. PICK n \in 1..(Len(file) - pos) :
           buffer' = [k \in 1..n |-> pos + k] /\ pos' = pos + n
    BY DEF Read
  <1>2. /\ phase = "read" /\ at = Len(buffer) + 1 /\ pos < Len(file)
        /\ at' = 1 /\ cut' = {}
        /\ UNCHANGED <<file, phase, maps, pages_max_capacity, pages, job>>
    BY DEF Read, IInv, BufferOK
  <1>3. pos \in Nat /\ Len(file) \in Nat /\ n \in Nat /\ Len(buffer) \in Nat
    BY DEF IInv, BufferOK
  <1>4. buffer' \in Seq(Nat) /\ Len(buffer') = n
    BY <1>1, <1>3
  <1>5. BufferOK'
    BY <1>1, <1>2, <1>3, <1>4 DEF IInv, BufferOK
  <1>6. ScanOK'
    BY <1>2 DEF ScanOK, Begins
  <1>7. Seen' = Seen
    BY <1>1, <1>2, <1>3, <1>4 DEF Seen
  <1>8. MapsOK'
    BY <1>2, <1>7 DEF IInv, MapsOK, Ordinary, SpecialsLast
  <1>9. JobsOK'
    BY <1>2 DEF IInv, JobsOK, Stored
  <1>10. QED
    BY <1>5, <1>6, <1>8, <1>9 DEF IInv

LEMMA ParseLineOK == IInv /\ ParseLine => IInv'
  <1> SUFFICES ASSUME IInv, ParseLine PROVE IInv'
    OBVIOUS
  <1>0. PICK b, n : b = beginning /\ n = ThisLine
    OBVIOUS
  <1>1. /\ phase = "read" /\ at <= Len(buffer) /\ at' = at + 1 /\ cut' = CutNow
        /\ UNCHANGED <<file, pos, buffer, phase, pages, job>>
    BY DEF ParseLine
  <1>2. b \in 1..at /\ Begins(b) /\ n = pos - Len(buffer) + b /\ n \in 1..Len(file)
    BY <1>0, <1>1, LineFound
  <1>3. at \in Nat /\ pos \in Nat /\ Len(buffer) \in Nat /\ Len(file) \in Nat
    BY DEF IInv, BufferOK
  <1>4. cut \subseteq 1..(at - 1) /\ buffer[at] = pos - Len(buffer) + at /\ buffer[b] = n
    <2>1. cut \subseteq 1..(at - 1) /\ at \in 1..Len(buffer)
      BY <1>1, <1>3 DEF IInv, BufferOK
    <2>2. buffer[at] = pos - Len(buffer) + at
      BY <2>1 DEF IInv, BufferOK
    <2>3. buffer[b] = n
      BY <1>0 DEF ThisLine
    <2>4. QED
      BY <2>1, <2>2, <2>3
  <1>5. file[n] \in Line /\ file[n].pages \in Nat
    <2>1. file \in Seq(Line)
      BY DEF IInv, BufferOK
    <2>2. file[n] \in Line
      BY <1>2, <2>1
    <2>3. QED
      BY <2>2, ReadMapsAssumption DEF Line
  <1>6. BufferOK'
    BY <1>0, <1>1, <1>3, <1>4 DEF IInv, BufferOK, CutNow
  <1>7. Seen \in Nat /\ Seen' = Seen + 1
    BY <1>1, <1>3 DEF Seen, IInv, BufferOK
  <1>8. SpecialsLast' = SpecialsLast
    BY <1>1 DEF SpecialsLast
  <1>9. JobsOK' \/ maps' # maps
    BY <1>1 DEF IInv, JobsOK, Stored
  <1>10. CASE file[n].special
    <2>1. cut' = cut \cup {at} /\ UNCHANGED <<maps, pages_max_capacity>>
      BY <1>0, <1>1, <1>10 DEF ParseLine, CutNow
    <2>2. /\ b = 1 \/ b - 1 \notin cut'
          /\ \A k \in b..(at' - 1) : k \in cut'
          /\ file'[buffer'[b]].special
      BY <1>1, <1>2, <1>3, <1>4, <1>10, <2>1 DEF Begins
    <2>3. ScanOK'
      BY <1>1, <1>2, <1>3, <2>2 DEF ScanOK, Begins
    <2>4. SpecialsLast => ~Ordinary(Seen + 1)
      <3>1. Seen + 1 = pos - Len(buffer) + at
        BY <1>3 DEF Seen
      <3>2. Seen + 1 \in 1..Len(file) /\ n <= Seen + 1
        BY <1>1, <1>2, <1>3, <1>7, <3>1 DEF IInv, BufferOK
      <3>3. QED
        BY <1>2, <1>10, <3>2 DEF SpecialsLast, Ordinary, IInv, BufferOK
    <2>5. MapsOK'
      BY <1>1, <1>7, <1>8, <2>1, <2>4 DEF IInv, MapsOK, Ordinary
    <2>6. QED
      BY <1>6, <1>9, <2>1, <2>3, <2>5 DEF IInv
  <1>11. CASE ~file[n].special
    <2>1. b = at
      BY <1>2, <1>4, <1>11 DEF Begins
    <2>2. n = Seen + 1
      BY <1>2, <1>3, <2>1 DEF Seen
    <2>3. cut' = cut /\ at \notin cut
      BY <1>0, <1>1, <1>3, <1>4, <1>11 DEF CutNow
    <2>5. ScanOK'
      <3>1. at + 1 \in 1..at' /\ at + 1 = at' /\ (at + 1) - 1 \notin cut'
        BY <1>1, <1>3, <2>3 DEF IInv, BufferOK
      <3>2. QED
        BY <1>3, <3>1 DEF ScanOK, Begins
    <2> DEFINE new == [line |-> n, first_page_index |-> pages_max_capacity,
                       total_num_pages |-> file[n].pages, populated_num_pages |-> 0]
    <2>6. maps' = Append(maps, new) /\ pages_max_capacity' = pages_max_capacity + file[n].pages
      BY <1>0, <1>1, <1>11 DEF ParseLine, add_to_maps, Grown
    <2>7. maps \in Seq(Map) /\ pages_max_capacity \in Nat /\ new \in Map /\ Len(maps) \in Nat
      BY <1>2, <1>5 DEF IInv, MapsOK, Map
    <2>8. /\ maps' \in Seq(Map) /\ Len(maps') = Len(maps) + 1 /\ maps'[Len(maps) + 1] = new
          /\ \A k \in 1..Len(maps) : maps'[k] = maps[k]
      BY <2>6, <2>7
    <2>9. \A k \in 1..Len(maps) : maps[k] \in Map
      BY <2>7
    <2>10. pages_max_capacity' \in Nat
      BY <1>5, <2>6, <2>7
    <2>11. \A k \in 1..Len(maps') :
              /\ maps'[k].line \in 1..Seen' /\ ~file[maps'[k].line].special
              /\ maps'[k].populated_num_pages <= maps'[k].total_num_pages
              /\ maps'[k].first_page_index + maps'[k].total_num_pages <= pages_max_capacity'
      <3> SUFFICES ASSUME NEW k \in 1..Len(maps')
                   PROVE  /\ maps'[k].line \in 1..Seen' /\ ~file[maps'[k].line].special
                          /\ maps'[k].populated_num_pages <= maps'[k].total_num_pages
                          /\ maps'[k].first_page_index + maps'[k].total_num_pages
                                <= pages_max_capacity'
        OBVIOUS
      <3>1. CASE k = Len(maps) + 1
        BY <1>5, <1>7, <1>11, <2>2, <2>6, <2>7, <2>8, <3>1
      <3>2. CASE k # Len(maps) + 1
        <4>1. k \in 1..Len(maps) /\ maps'[k] = maps[k] /\ maps[k] \in Map
          BY <2>7, <2>8, <2>9, <3>2
        <4>2. /\ maps[k].line \in 1..Seen /\ ~file[maps[k].line].special
              /\ maps[k].populated_num_pages <= maps[k].total_num_pages
              /\ maps[k].first_page_index + maps[k].total_num_pages <= pages_max_capacity
          BY <4>1 DEF IInv, MapsOK, Ordinary
        <4>3. maps[k].first_page_index \in Nat /\ maps[k].total_num_pages \in Nat
          BY <4>1 DEF Map
        <4>4. QED
          BY <1>5, <1>7, <2>6, <2>7, <4>1, <4>2, <4>3
      <3>3. QED
        BY <3>1, <3>2
    <2>12. \A k, l \in 1..Len(maps') : k < l =>
              /\ maps'[k].line < maps'[l].line
              /\ maps'[k].first_page_index + maps'[k].total_num_pages <= maps'[l].first_page_index
      <3> SUFFICES ASSUME NEW k \in 1..Len(maps'), NEW l \in 1..Len(maps'), k < l
                   PROVE  /\ maps'[k].line < maps'[l].line
                          /\ maps'[k].first_page_index + maps'[k].total_num_pages
                                <= maps'[l].first_page_index
        OBVIOUS
      <3>1. k \in 1..Len(maps) /\ maps'[k] = maps[k]
        BY <2>7, <2>8
      <3>2. CASE l = Len(maps) + 1
        <4>1. /\ maps[k].line \in 1..Seen
              /\ maps[k].first_page_index + maps[k].total_num_pages <= pages_max_capacity
          BY <3>1 DEF IInv, MapsOK
        <4>2. maps'[l] = new
          BY <2>8, <3>2
        <4>3. QED
          BY <1>7, <2>2, <3>1, <4>1, <4>2
      <3>3. CASE l # Len(maps) + 1
        <4>1. l \in 1..Len(maps) /\ maps'[l] = maps[l]
          BY <2>7, <2>8, <3>3
        <4>2. QED
          BY <3>1, <4>1 DEF IInv, MapsOK
      <3>4. QED
        BY <3>2, <3>3
    <2>13. SpecialsLast => \A m \in 1..Seen' : ~file[m].special =>
              \E k \in 1..Len(maps') : maps'[k].line = m
      <3> SUFFICES ASSUME SpecialsLast, NEW m \in 1..(Seen + 1), ~file[m].special
                   PROVE  \E k \in 1..Len(maps') : maps'[k].line = m
        BY <1>7
      <3>1. CASE m = Seen + 1
        <4>1. maps'[Len(maps) + 1].line = m /\ Len(maps) + 1 \in 1..Len(maps')
          BY <2>2, <2>7, <2>8, <3>1
        <4>2. QED
          BY <4>1
      <3>2. CASE m # Seen + 1
        <4>1. m \in 1..Seen
          BY <1>7, <3>2
        <4>2. PICK k \in 1..Len(maps) : maps[k].line = m
          BY <4>1 DEF IInv, MapsOK, Ordinary
        <4>3. QED
          BY <2>7, <2>8, <4>2
      <3>3. QED
        BY <3>1, <3>2
    <2>14. MapsOK'
      BY <1>1, <1>8, <2>8, <2>10, <2>11, <2>12, <2>13 DEF MapsOK, Ordinary
    <2>15. job = <<>> /\ \A k \in 1..Len(maps') : maps'[k].populated_num_pages = 0
      BY <1>1, <2>7, <2>8 DEF IInv, JobsOK
    <2>16. JobsOK'
      BY <1>1, <2>15 DEF JobsOK, IInv
    <2>17. QED
      BY <1>6, <2>5, <2>14, <2>16 DEF IInv
  <1>12. QED
    BY <1>10, <1>11

\* The jobs leave the buffer alone.
LEMMA BufferKept ==
  ASSUME BufferOK, ScanOK, UNCHANGED <<file, pos, buffer, at, cut>>, phase # "read",
         phase' \in {"populate", "done", "aborted"}
  PROVE  BufferOK' /\ ScanOK' /\ Seen' = Seen /\ SpecialsLast' = SpecialsLast
  BY DEF BufferOK, ScanOK, Begins, Seen, SpecialsLast

LEMMA EndOfFileOK == IInv /\ EndOfFile => IInv'
  <1> SUFFICES ASSUME IInv, EndOfFile PROVE IInv'
    OBVIOUS
  <1>1. /\ phase = "read" /\ at > Len(buffer) /\ pos = Len(file) /\ phase' = "populate"
        /\ job' = [k \in DOMAIN maps |-> "queued"]
        /\ UNCHANGED <<file, pos, buffer, at, cut, maps, pages_max_capacity, pages>>
    BY DEF EndOfFile
  <1>2. DOMAIN maps = 1..Len(maps)
    BY DEF IInv, MapsOK
  <1>3. BufferOK' /\ ScanOK' /\ Seen' = Seen /\ SpecialsLast' = SpecialsLast
    BY <1>1 DEF IInv, BufferOK, ScanOK, Begins, Seen, SpecialsLast
  <1>4. MapsOK'
    BY <1>1, <1>3 DEF IInv, MapsOK, Ordinary
  <1>5. JobsOK'
    BY <1>1, <1>2 DEF IInv, JobsOK, Stored
  <1>6. QED
    BY <1>3, <1>4, <1>5 DEF IInv

\* A region whose job runs has its interval of slots below the capacity.
LEMMA SlotFits ==
  ASSUME IInv, NEW k \in DOMAIN job, phase = "populate",
         maps[k].populated_num_pages < maps[k].total_num_pages
  PROVE  /\ k \in 1..Len(maps) /\ maps[k] \in Map
         /\ Slot(k) \in Nat /\ Slot(k) < pages_max_capacity
  <1>1. k \in 1..Len(maps) /\ maps \in Seq(Map) /\ pages_max_capacity \in Nat
    BY DEF IInv, JobsOK, MapsOK
  <1>2. maps[k] \in Map
    BY <1>1
  <1>3. /\ maps[k].first_page_index \in Nat /\ maps[k].total_num_pages \in Nat
        /\ maps[k].populated_num_pages \in Nat
    BY <1>2 DEF Map
  <1>4. maps[k].first_page_index + maps[k].total_num_pages <= pages_max_capacity
    BY <1>1 DEF IInv, MapsOK
  <1>5. QED
    BY <1>1, <1>2, <1>3, <1>4 DEF Slot

LEMMA AddPageOK == ASSUME IInv, NEW k \in DOMAIN job, AddPage(k) PROVE IInv'
  <1>1. /\ phase = "populate" /\ job[k] = "running"
        /\ maps[k].populated_num_pages < maps[k].total_num_pages
        /\ UNCHANGED <<file, pos, buffer, at, cut, job>>
    BY DEF AddPage
  <1>2. /\ k \in 1..Len(maps) /\ maps[k] \in Map
        /\ Slot(k) \in Nat /\ Slot(k) < pages_max_capacity
    BY <1>1, SlotFits
  <1> DEFINE page == [line |-> maps[k].line, page |-> maps[k].populated_num_pages]
  <1>3. /\ pages_max_capacity' = pages_max_capacity /\ phase' = phase
        /\ pages' = [s \in DOMAIN pages \cup {Slot(k)} |-> IF s = Slot(k) THEN page ELSE pages[s]]
        /\ maps' = [maps EXCEPT ![k].populated_num_pages = @ + 1]
    BY <1>2 DEF AddPage
  <1>4. /\ maps \in Seq(Map) /\ pages_max_capacity \in Nat /\ Len(maps) \in Nat
        /\ \A l \in 1..Len(maps) : maps[l] \in Map
    BY DEF IInv, MapsOK
  <1>5. /\ maps[k].line \in Nat /\ maps[k].first_page_index \in Nat
        /\ maps[k].total_num_pages \in Nat /\ maps[k].populated_num_pages \in Nat
    BY <1>2 DEF Map
  <1>6. maps' \in Seq(Map) /\ Len(maps') = Len(maps) /\ DOMAIN maps' = 1..Len(maps)
    <2>1. [maps[k] EXCEPT !.populated_num_pages = @ + 1] \in Map
      BY <1>2, <1>5 DEF Map
    <2>2. maps' = [maps EXCEPT ![k] = [maps[k] EXCEPT !.populated_num_pages = @ + 1]]
      BY <1>3
    <2>3. QED
      BY <1>2, <1>4, <2>1, <2>2
  <1>7. \A l \in 1..Len(maps) :
           /\ maps'[l].line = maps[l].line
           /\ maps'[l].first_page_index = maps[l].first_page_index
           /\ maps'[l].total_num_pages = maps[l].total_num_pages
           /\ l # k => maps'[l].populated_num_pages = maps[l].populated_num_pages
    <2>1. \A l \in 1..Len(maps) : l # k => maps'[l] = maps[l]
      BY <1>3, <1>4
    <2>2. maps'[k] = [maps[k] EXCEPT !.populated_num_pages = @ + 1]
      BY <1>2, <1>3, <1>4
    <2>3. /\ maps'[k].line = maps[k].line
          /\ maps'[k].first_page_index = maps[k].first_page_index
          /\ maps'[k].total_num_pages = maps[k].total_num_pages
      BY <1>2, <2>2 DEF Map
    <2>4. QED
      BY <2>1, <2>3
  <1>8. maps'[k].populated_num_pages = maps[k].populated_num_pages + 1
    BY <1>2, <1>3, <1>4 DEF Map
  <1>9. BufferOK' /\ ScanOK' /\ Seen' = Seen /\ SpecialsLast' = SpecialsLast
    BY <1>1, <1>3, BufferKept DEF IInv
  <1>10. MapsOK'
    <2>1. \A l \in 1..Len(maps) : maps'[l].populated_num_pages <= maps'[l].total_num_pages
      <3> SUFFICES ASSUME NEW l \in 1..Len(maps)
                   PROVE  maps'[l].populated_num_pages <= maps'[l].total_num_pages
        OBVIOUS
      <3>1. CASE l = k
        BY <1>1, <1>5, <1>7, <1>8, <3>1
      <3>2. CASE l # k
        BY <1>7, <3>2 DEF IInv, MapsOK
      <3>3. QED
        BY <3>1, <3>2
    <2>2. \A l \in 1..Len(maps) :
             /\ maps'[l].line \in 1..Seen /\ Ordinary(maps'[l].line)
             /\ maps'[l].first_page_index + maps'[l].total_num_pages <= pages_max_capacity
      BY <1>7 DEF IInv, MapsOK
    <2>3. \A j, l \in 1..Len(maps) : j < l =>
             /\ maps'[j].line < maps'[l].line
             /\ maps'[j].first_page_index + maps'[j].total_num_pages <= maps'[l].first_page_index
      BY <1>7 DEF IInv, MapsOK
    <2>4. SpecialsLast => \A n \in 1..Seen : Ordinary(n) =>
             \E l \in 1..Len(maps) : maps'[l].line = n
      BY <1>7 DEF IInv, MapsOK
    <2>5. QED
      BY <1>1, <1>3, <1>4, <1>6, <1>9, <2>1, <2>2, <2>3, <2>4 DEF MapsOK, Ordinary
  <1>11. \A l \in 1..Len(maps) : \A p \in 0..(maps'[l].populated_num_pages - 1) :
            /\ maps'[l].first_page_index + p \in DOMAIN pages'
            /\ pages'[maps'[l].first_page_index + p] = [line |-> maps'[l].line, page |-> p]
    <2> SUFFICES ASSUME NEW l \in 1..Len(maps), NEW p \in 0..(maps'[l].populated_num_pages - 1)
                 PROVE  /\ maps[l].first_page_index + p \in DOMAIN pages'
                        /\ pages'[maps[l].first_page_index + p] = [line |-> maps[l].line, page |-> p]
      BY <1>7
    <2>1. /\ maps[l].first_page_index \in Nat /\ maps[l].total_num_pages \in Nat
          /\ maps[l].populated_num_pages \in Nat
      BY <1>4 DEF Map
    <2>2. CASE l = k /\ p = maps[k].populated_num_pages
      BY <1>3, <2>2 DEF Slot
    <2>3. CASE ~(l = k /\ p = maps[k].populated_num_pages)
      <3>1. p \in 0..(maps[l].populated_num_pages - 1)
        BY <1>5, <1>7, <1>8, <2>1, <2>3
      <3>2. Stored(l, p)
        BY <3>1 DEF IInv, JobsOK
      <3>3. maps[l].populated_num_pages <= maps[l].total_num_pages
        BY DEF IInv, MapsOK
      <3> DEFINE fl == maps[l].first_page_index
                 fk == maps[k].first_page_index
      <3>4. /\ p \in Nat /\ p < maps[l].total_num_pages /\ fl \in Nat /\ fk \in Nat
            /\ maps[k].populated_num_pages \in Nat
            /\ maps[k].populated_num_pages < maps[k].total_num_pages
            /\ maps[k].total_num_pages \in Nat
        BY <1>1, <1>5, <2>1, <3>1, <3>3
      <3>5. fl + p # Slot(k)
        <4>1. CASE l = k
          BY <1>5, <2>3, <3>1, <4>1 DEF Slot
        <4>2. CASE l < k
          <5>1. maps[l].first_page_index + maps[l].total_num_pages <= maps[k].first_page_index
            BY <1>2, <4>2 DEF IInv, MapsOK
          <5> HIDE DEF fl, fk
          <5>2. fl + p < fk
            BY <2>1, <3>4, <5>1 DEF fl, fk
          <5>3. Slot(k) = fk + maps[k].populated_num_pages
            BY DEF Slot, fk
          <5>4. QED
            BY <3>4, <5>2, <5>3
        <4>3. CASE k < l
          <5>1. maps[k].first_page_index + maps[k].total_num_pages <= maps[l].first_page_index
            BY <1>2, <4>3 DEF IInv, MapsOK
          <5> HIDE DEF fl, fk
          <5>2. fk + maps[k].total_num_pages <= fl
            BY <5>1 DEF fl, fk
          <5>3. Slot(k) = fk + maps[k].populated_num_pages
            BY DEF Slot, fk
          <5>4. QED
            BY <3>4, <5>2, <5>3
        <4>4. QED
          BY <1>2, <1>4, <4>1, <4>2, <4>3
      <3>6. QED
        BY <1>3, <3>2, <3>5 DEF Stored
    <2>4. QED
      BY <2>2, <2>3
  <1>12. \A l \in DOMAIN job : job[l] = "done" =>
            maps'[l].populated_num_pages = maps'[l].total_num_pages
    BY <1>1, <1>7 DEF IInv, JobsOK
  <1>13. JobsOK'
    BY <1>1, <1>3, <1>6, <1>11, <1>12 DEF IInv, JobsOK, Stored
  <1>14. QED
    BY <1>9, <1>10, <1>13 DEF IInv

LEMMA OtherJobStepsOK ==
  ASSUME IInv, Populated \/ \E k \in DOMAIN job : Start(k) \/ JobDone(k)
  PROVE  IInv'
  <1>1. /\ phase = "populate" /\ phase' \in {"populate", "done", "aborted"}
        /\ UNCHANGED <<file, pos, buffer, at, cut, maps, pages_max_capacity, pages>>
    BY DEF Populated, Start, JobDone
  <1>2. BufferOK' /\ ScanOK' /\ Seen' = Seen /\ SpecialsLast' = SpecialsLast
    BY <1>1, BufferKept DEF IInv
  <1>3. MapsOK'
    BY <1>1, <1>2 DEF IInv, MapsOK, Ordinary
  <1>4. job' \in [1..Len(maps) -> {"queued", "running", "failed", "done"}]
    BY <1>1 DEF IInv, JobsOK, Populated, Start, JobDone
  <1>5. \A k \in DOMAIN job' : job'[k] = "done" =>
           maps[k].populated_num_pages = maps[k].total_num_pages
    BY <1>1 DEF IInv, JobsOK, Populated, Start, JobDone
  <1>6. phase' = "done" => \A k \in DOMAIN job' : job'[k] = "done"
    BY <1>1 DEF IInv, JobsOK, Populated, Start, JobDone, In
  <1>7. JobsOK'
    BY <1>1, <1>4, <1>5, <1>6 DEF IInv, JobsOK, Stored
  <1>8. QED
    BY <1>2, <1>3, <1>7 DEF IInv

\* The invariant: the line that is looked at begins where it should or at a
\* region of the kernel; the regions listed so far have intervals of slots that
\* follow each other; every page that was stored is at its slot.
THEOREM PictureInvariant == Spec => []IInv
  <1>1. IInv /\ UNCHANGED vars => IInv'
    BY DEF vars, IInv, BufferOK, ScanOK, Begins, MapsOK, JobsOK, Stored, Seen, Ordinary,
           SpecialsLast
  <1>2. IInv /\ [Next]_vars => IInv'
    BY <1>1, ReadOK, ParseLineOK, EndOfFileOK, AddPageOK, OtherJobStepsOK DEF Next, Job
  <1>3. QED
    BY <1>2, InitOK, PTL DEF Spec

\* Listed, for every file and however it is read.
THEOREM RegionsListed == Spec => []Listed
  <1>1. IInv => Listed
    <2> SUFFICES ASSUME IInv PROVE Listed
      OBVIOUS
    <2>1. DOMAIN maps = 1..Len(maps) /\ DOMAIN file = 1..Len(file)
      BY DEF IInv, BufferOK, MapsOK
    <2>2. phase # "read" => Seen = Len(file)
      BY DEF IInv, BufferOK, Seen
    <2>3. QED
      BY <2>1, <2>2 DEF IInv, MapsOK, Listed
  <1>2. QED
    BY <1>1, PictureInvariant, PTL

\* PagesInPlace, for every number of regions, pages and workers.
THEOREM PagesFound == Spec => []PagesInPlace
  <1>1. IInv => PagesInPlace
    <2> SUFFICES ASSUME IInv PROVE PagesInPlace
      OBVIOUS
    <2>1. DOMAIN maps = 1..Len(maps) /\ (phase # "read" => DOMAIN job = 1..Len(maps))
      BY DEF IInv, MapsOK, JobsOK
    <2>2. QED
      BY <2>1 DEF IInv, JobsOK, Stored, PagesInPlace
  <1>2. QED
    BY <1>1, PictureInvariant, PTL

\* TableStays: no job is ever led to grow the table under the others.
THEOREM TableNeverMoves == Spec => TableStays
  <1>1. IInv /\ [Next]_vars => [phase = "populate" => UNCHANGED pages_max_capacity]_vars
    <2> SUFFICES ASSUME IInv, Next, phase = "populate"
                 PROVE  UNCHANGED pages_max_capacity
      OBVIOUS
    <2>1. ASSUME NEW k \in DOMAIN job, AddPage(k) PROVE UNCHANGED pages_max_capacity
      <3>1. maps[k].populated_num_pages < maps[k].total_num_pages
        BY <2>1 DEF AddPage
      <3>2. Slot(k) < pages_max_capacity
        BY <3>1, SlotFits
      <3>3. QED
        BY <2>1, <3>2 DEF AddPage
    <2>2. QED
      BY <2>1 DEF Next, Job, Read, ParseLine, EndOfFile, Populated, Start, JobDone
  <1>2. QED
    BY <1>1, PictureInvariant, PTL DEF Spec, TableStays
===============================================================================
