---------------------------- MODULE CodeMapBuilder ----------------------------
(***************************************************************************)
(* The constructor of CodeMap: which regions of a file are code.  They are *)
(* its executable sections or, if none has bytes in the file, its          *)
(* executable segments; then they are sorted.  One step is one turn of one *)
(* of the two loops.                                                       *)
(***************************************************************************)
EXTENDS ElfImage

VARIABLES
  pc,          \* "sections", "segments", "sort" or "done"
  seen,        \* the sections or segments already looked at
  anySection,  \* a code section with bytes in the file was met
  regions      \* regions_; from is where the bytes of the region are in the file

mapVars == <<pc, seen, anySection, regions>>
vars == <<file, mapVars>>

MapInit == pc = "sections" /\ seen = 0 /\ anySection = FALSE /\ regions = <<>>

\* addRegion, with the bytes found at start.
AddRegion(start, size, data) ==
  LET n == Lesser(size, data.size)
  IN IF data = NoData \/ n = 0 THEN UNCHANGED regions
     ELSE regions' = Append(regions, [start |-> start, end |-> (start + n) % WordLimit,
                                      from |-> data.from])

ReadSection ==
  /\ pc = "sections" /\ seen < Len(file.sections)
  /\ seen' = seen + 1
  /\ LET s == file.sections[seen + 1]
         data == DataAt(s.address)
     IN IF IsCode(s) /\ data # NoData
        THEN anySection' = TRUE /\ AddRegion(s.address, s.size, data)
        ELSE UNCHANGED <<anySection, regions>>
  /\ UNCHANGED <<file, pc>>

\* Mutant of SectionsRead: the second loop goes on where the first ended.
SectionsReadOn ==
  /\ pc = "sections" /\ seen = Len(file.sections)
  /\ pc' = IF anySection THEN "sort" ELSE "segments"
  /\ UNCHANGED <<file, seen, anySection, regions>>

SectionsRead ==
  /\ pc = "sections" /\ seen = Len(file.sections)
  /\ pc' = IF anySection THEN "sort" ELSE "segments"
  /\ seen' = 0
  /\ UNCHANGED <<file, anySection, regions>>

ReadSegment ==
  /\ pc = "segments" /\ seen < Len(file.segments)
  /\ seen' = seen + 1
  /\ LET s == file.segments[seen + 1] IN
       IF s.type = "load" /\ s.executable /\ s.fileSize > 0
       THEN AddRegion(s.virtualAddress, s.fileSize, DataAt(s.virtualAddress))
       ELSE UNCHANGED regions
  /\ UNCHANGED <<file, pc, anySection>>

SegmentsRead ==
  /\ pc = "segments" /\ seen = Len(file.segments)
  /\ pc' = "sort"
  /\ UNCHANGED <<file, seen, anySection, regions>>

Orders(n) ==
  {p \in [1 .. n -> 1 .. n] : \A i, j \in 1 .. n : i # j => p[i] # p[j]}

\* Mutant of Sort: the regions stay as they were read.
LeaveUnsorted ==
  /\ pc = "sort"
  /\ pc' = "done"
  /\ UNCHANGED <<file, seen, anySection, regions>>

\* std::sort by start leaves the order of equal starts open.
Sort ==
  /\ pc = "sort"
  /\ \E p \in Orders(Len(regions)) :
       /\ \A i, j \in DOMAIN regions : i < j => regions[p[i]].start <= regions[p[j]].start
       /\ regions' = [i \in DOMAIN regions |-> regions[p[i]]]
  /\ pc' = "done"
  /\ UNCHANGED <<file, seen, anySection>>

Init == FileInit /\ MapInit

Next == ReadSection \/ SectionsRead \/ ReadSegment \/ SegmentsRead \/ Sort

Spec == Init /\ [][Next]_vars
-----------------------------------------------------------------------------
Region == [start : 0 .. WordLimit - 1, end : 0 .. WordLimit - 1, from : Nat]

\* The constructor's variables have their types.
TypeOK ==
  /\ IsFile(file)
  /\ pc \in {"sections", "segments", "sort", "done"}
  /\ seen \in 0 .. IF pc = "sections" THEN Len(file.sections) ELSE Len(file.segments)
  /\ anySection \in BOOLEAN
  /\ regions \in Seq(Region)

\* Whatever the headers say, no region is empty or wraps around the top of the
\* address space, and all its bytes are in the file: the pointer arithmetic of
\* CodeMap::at never leaves the file.  The sum of addRegion does not wrap
\* because dataAt finds nothing in a range whose own sum does.
RegionsAreBacked ==
  \A i \in DOMAIN regions :
    /\ regions[i].start < regions[i].end
    /\ regions[i].from + (regions[i].end - regions[i].start) <= Len(file.bytes)
-----------------------------------------------------------------------------
\* A range of the file that is loaded: a section or a segment.
SectionRange(s) == [start |-> s.address, size |-> s.size, from |-> s.fileOffset]
SegmentRange(s) == [start |-> s.virtualAddress, size |-> s.fileSize, from |-> s.fileOffset]

\* The headers of a linked file: neither sums wrap nor ranges overlap.
AreDisjoint(rs) ==
  /\ \A i \in DOMAIN rs : rs[i].start + rs[i].size < WordLimit
                          /\ rs[i].from + rs[i].size < WordLimit
  /\ \A i, j \in DOMAIN rs :
       i # j => rs[i].start + rs[i].size <= rs[j].start
                  \/ rs[j].start + rs[j].size <= rs[i].start

LoadedSections ==
  {i \in DOMAIN file.sections : file.sections[i].allocated /\ file.sections[i].hasFileData}
LoadedSegments == {i \in DOMAIN file.segments : file.segments[i].type = "load"}

SectionRanges == [i \in LoadedSections |-> SectionRange(file.sections[i])]
SegmentRanges == [i \in LoadedSegments |-> SegmentRange(file.segments[i])]

\* The byte of the file at each address of the ranges S that the file has.
Mapped(S) ==
  UNION {{<<r.start + k, r.from + k>> :
            k \in {k \in 0 .. r.size - 1 : r.from + k < Len(file.bytes)}} : r \in S}

CodeSections == {file.sections[i] : i \in {i \in DOMAIN file.sections : IsCode(file.sections[i])}}
CodeSegments ==
  {file.segments[i] : i \in {i \in DOMAIN file.segments :
                               file.segments[i].type = "load" /\ file.segments[i].executable}}

RegionBytes ==
  UNION {{<<r.start + k, r.from + k>> : k \in 0 .. r.end - r.start - 1} :
           r \in {regions[i] : i \in DOMAIN regions}}

\* Of a linked file, the map holds all the code and nothing else, each address
\* with its own byte: the executable sections as far as the file has them or,
\* in a file without section headers, the executable segments.
RegionsAreTheCode ==
  pc = "done" =>
    /\ AreDisjoint(SectionRanges) /\ Mapped({SectionRange(s) : s \in CodeSections}) # {} =>
         RegionBytes = Mapped({SectionRange(s) : s \in CodeSections})
    /\ AreDisjoint(SegmentRanges) /\ file.sections = <<>> =>
         RegionBytes = Mapped({SegmentRange(s) : s \in CodeSegments})

\* What the analyses assume of the regions of a linked file: in order, with no
\* overlap.
RegionsAreInOrder ==
  pc = "done" =>
    /\ \A i, j \in DOMAIN regions : i < j => regions[i].start <= regions[j].start
    /\ AreDisjoint(IF anySection THEN SectionRanges ELSE SegmentRanges)
         /\ (anySection \/ file.sections = <<>>) =>
         \A i, j \in DOMAIN regions : i < j => regions[i].end <= regions[j].start
==============================================================================
