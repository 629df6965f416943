------------------------- MODULE CodeMapBuilderProofs -------------------------
(***************************************************************************)
(* Whatever the headers of a file say, the regions of its code map lie in  *)
(* the file and in the address space, sorted.  Of a linked file they are   *)
(* its code, and do not overlap.                                           *)
(***************************************************************************)
EXTENDS CodeMapBuilder, FiniteSetTheorems, TLAPS, WellFoundedInduction

AnyWord == 0 .. WordLimit - 1
-----------------------------------------------------------------------------
\* A sum of two words is cut by at most one turn of the address space.
LEMMA SumOfWords ==
  ASSUME NEW W \in Nat \ {0}, NEW x \in 0 .. W - 1, NEW y \in 0 .. W - 1
  PROVE  /\ (x + y) % W \in 0 .. W - 1
         /\ x + y < W => (x + y) % W = x + y
         /\ x + y >= W => (x + y) % W = x + y - W
  OBVIOUS

\* A set of numbers that is not empty has a first.
LEMMA FirstOfIsIn ==
  ASSUME NEW S \in SUBSET Nat, S # {}
  PROVE  FirstOf(S) \in S
<1>1. PICK i \in S : \A j \in S : ~ (<<j, i>> \in OpToRel(<, Nat))
  BY NatLessThanWellFounded, WFMin
<1>2. \A j \in S : i <= j
  <2> SUFFICES ASSUME NEW j \in S, j < i PROVE FALSE
    OBVIOUS
  <2> QED
    BY <1>1 DEF OpToRel
<1> QED
  BY <1>2 DEF FirstOf

\* What a range that is read holds stays in the file and below the top.
LEMMA DataFromIsBacked ==
  ASSUME NEW addr \in AnyWord, NEW start \in AnyWord, NEW size \in AnyWord,
         NEW offset \in AnyWord, NEW n \in Nat, n = Len(file.bytes),
         InRange(addr, start, size), NEW d, d = DataFrom(addr, start, size, offset),
         d # NoData
  PROVE  /\ d.from \in Nat /\ d.size \in Nat \ {0}
         /\ d.from + d.size <= n
         /\ addr + d.size < WordLimit
<1> DEFINE at == (offset + (addr - start)) % WordLimit
           rest == size - (addr - start)
<1> USE WordLimitAssumption DEF AnyWord
<1>1. start <= addr /\ addr < (start + size) % WordLimit
  BY DEF InRange
<1>2. start + size < WordLimit /\ addr < start + size
  <2>1. /\ start + size < WordLimit => (start + size) % WordLimit = start + size
        /\ start + size >= WordLimit =>
             (start + size) % WordLimit = start + size - WordLimit
    BY SumOfWords
  <2> HIDE DEF at, rest
  <2> QED
    BY <1>1, <2>1
<1>3. at \in Nat
  <2>1. addr - start \in AnyWord
    BY <1>1
  <2> QED
    BY <2>1, SumOfWords
<1>4. rest \in Nat \ {0} /\ addr + rest < WordLimit
  BY <1>1, <1>2
<1>5. at < n /\ d = [from |-> at, size |-> Lesser(rest, n - at)]
  BY <1>3 DEF DataFrom
<1> HIDE DEF at, rest
<1>6. /\ Lesser(rest, n - at) \in Nat \ {0}
      /\ Lesser(rest, n - at) <= n - at /\ Lesser(rest, n - at) <= rest
  BY <1>3, <1>4, <1>5 DEF Lesser
<1> QED
  BY <1>3, <1>4, <1>5, <1>6

\* So does what dataAt finds, whichever section or segment it finds it in.
LEMMA DataAtIsBacked ==
  ASSUME IsFile(file), NEW addr \in AnyWord, NEW d, d = DataAt(addr), d # NoData
  PROVE  /\ d.from \in Nat /\ d.size \in Nat \ {0}
         /\ d.from + d.size <= Len(file.bytes)
         /\ addr + d.size < WordLimit
<1>1. Len(file.bytes) \in Nat
  BY DEF IsFile
<1>2. CASE SectionsOver(addr) # {}
  <2> DEFINE i == FirstOf(SectionsOver(addr))
  <2>1. SectionsOver(addr) \in SUBSET Nat
    BY DEF SectionsOver, IsFile
  <2>2. i \in SectionsOver(addr)
    BY <1>2, <2>1, FirstOfIsIn
  <2> HIDE DEF i
  <2> DEFINE s == file.sections[i]
  <2>3. /\ {s.address, s.fileOffset, s.size} \subseteq AnyWord
        /\ InRange(addr, s.address, s.size)
    BY <2>2 DEF SectionsOver, IsFile, AnyWord
  <2>4. d = DataFrom(addr, s.address, s.size, s.fileOffset)
    BY <1>2 DEF DataAt, DataOfSection, i
  <2> QED
    BY <1>1, <2>3, <2>4, DataFromIsBacked
<1>3. CASE SectionsOver(addr) = {} /\ LoadedOver(addr) # {}
  <2> DEFINE i == FirstOf(LoadedOver(addr))
  <2>1. LoadedOver(addr) \in SUBSET Nat
    BY DEF LoadedOver, IsFile
  <2>2. i \in LoadedOver(addr)
    BY <1>3, <2>1, FirstOfIsIn
  <2> HIDE DEF i
  <2> DEFINE s == file.segments[i]
  <2>3. /\ {s.virtualAddress, s.fileOffset, s.fileSize} \subseteq AnyWord
        /\ InRange(addr, s.virtualAddress, s.fileSize)
    BY <2>2 DEF LoadedOver, IsFile, AnyWord
  <2>4. d = DataFrom(addr, s.virtualAddress, s.fileSize, s.fileOffset)
    BY <1>3 DEF DataAt, DataOfSegment, i
  <2> QED
    BY <1>1, <2>3, <2>4, DataFromIsBacked
<1>4. CASE SectionsOver(addr) = {} /\ LoadedOver(addr) = {}
  BY <1>4 DEF DataAt
<1> QED
  BY <1>2, <1>3, <1>4
-----------------------------------------------------------------------------
Bounded(region) ==
  /\ region.start < region.end
  /\ region.from + (region.end - region.start) <= Len(file.bytes)

\* The inductive invariant: each region, whatever its place in the sequence, is
\* of the type and bounded.
IInv == TypeOK /\ RegionsAreBacked

\* A region that addRegion appends is within the bytes that dataAt found.
LEMMA AddedRegionIsBacked ==
  ASSUME IInv, NEW start \in AnyWord, NEW size \in AnyWord,
         AddRegion(start, size, DataAt(start)), UNCHANGED file
  PROVE  regions' \in Seq(Region) /\ RegionsAreBacked'
<1> DEFINE data == DataAt(start)
           n == Lesser(size, data.size)
           new == [start |-> start, end |-> (start + n) % WordLimit, from |-> data.from]
<1> USE DEF IInv, TypeOK
<1>1. CASE data = NoData \/ n = 0
  BY <1>1 DEF AddRegion, RegionsAreBacked
<1>2. CASE data # NoData /\ n # 0
  <2>1. /\ data.from \in Nat /\ data.size \in Nat \ {0}
        /\ data.from + data.size <= Len(file.bytes)
        /\ start + data.size < WordLimit
    BY <1>2, DataAtIsBacked
  <2>2. regions' = Append(regions, new)
    BY <1>2 DEF AddRegion
  <2> HIDE DEF data
  <2>3. n \in Nat \ {0} /\ n <= data.size
    BY <1>2, <2>1 DEF Lesser, AnyWord
  <2> HIDE DEF n
  <2>4. (start + n) % WordLimit = start + n /\ start + n \in AnyWord /\ n \in AnyWord
    <3>1. n \in AnyWord /\ start + n < WordLimit
      BY <2>1, <2>3, WordLimitAssumption DEF AnyWord
    <3> QED
      BY <3>1, SumOfWords, WordLimitAssumption DEF AnyWord
  <2>5. new \in Region /\ Bounded(new)
    BY <2>1, <2>3, <2>4 DEF Region, Bounded, AnyWord, IsFile
  <2> HIDE DEF new
  <2>6. regions' \in Seq(Region)
    BY <2>2, <2>5
  <2>7. \A i \in DOMAIN regions' :
          \/ regions'[i] = new
          \/ i \in DOMAIN regions /\ regions'[i] = regions[i]
    BY <2>2, <2>5
  <2> QED
    BY <2>5, <2>6, <2>7 DEF RegionsAreBacked, Bounded
<1> QED
  BY <1>1, <1>2

LEMMA InitIsBacked == Init => IInv
<1> SUFFICES ASSUME Init PROVE IInv
  OBVIOUS
<1>1. IsFile(file)
  BY FilesAssumption DEF Init, FileInit
<1>2. pc = "sections" /\ seen = 0 /\ anySection = FALSE /\ regions = <<>>
  BY DEF Init, MapInit
<1>3. 0 \in 0 .. Len(file.sections)
  BY <1>1 DEF IsFile
<1>4. TypeOK
  <2>1. anySection \in BOOLEAN
    BY <1>2, Zenon
  <2>2. regions \in Seq(Region)
    BY <1>2
  <2>3. seen \in 0 .. IF pc = "sections" THEN Len(file.sections) ELSE Len(file.segments)
    BY <1>2, <1>3
  <2> QED
    BY <1>1, <1>2, <2>1, <2>2, <2>3, Zenon DEF TypeOK
<1>5. RegionsAreBacked
  BY <1>2 DEF RegionsAreBacked
<1> QED
  BY <1>4, <1>5 DEF IInv

\* One step for each action.  Only three of them change the regions.
LEMMA NextIsBacked == IInv /\ [Next]_vars => IInv'
<1> SUFFICES ASSUME IInv, [Next]_vars PROVE IInv'
  OBVIOUS
<1> USE DEF IInv, TypeOK
<1>1. Len(file.sections) \in Nat /\ Len(file.segments) \in Nat
  BY DEF IsFile
<1>2. CASE ReadSection
  <2> DEFINE s == file.sections[seen + 1]
  <2>1. s.address \in AnyWord /\ s.size \in AnyWord
    BY <1>1, <1>2 DEF ReadSection, IsFile, AnyWord
  <2>2. file' = file /\ pc' = "sections" /\ seen' \in 0 .. Len(file.sections)
    BY <1>1, <1>2 DEF ReadSection
  <2>3. CASE IsCode(s) /\ DataAt(s.address) # NoData
    <3>1. anySection' = TRUE /\ AddRegion(s.address, s.size, DataAt(s.address))
      BY <1>2, <2>3 DEF ReadSection
    <3> QED
      BY <2>1, <2>2, <3>1, AddedRegionIsBacked
  <2>4. CASE ~ (IsCode(s) /\ DataAt(s.address) # NoData)
    <3>1. anySection' = anySection /\ regions' = regions
      BY <1>2, <2>4 DEF ReadSection
    <3> QED
      BY <2>2, <3>1 DEF RegionsAreBacked
  <2> QED
    BY <2>3, <2>4
<1>3. CASE SectionsRead
  BY <1>1, <1>3 DEF SectionsRead, RegionsAreBacked
<1>4. CASE ReadSegment
  <2> DEFINE s == file.segments[seen + 1]
  <2>1. s.virtualAddress \in AnyWord /\ s.fileSize \in AnyWord
    BY <1>1, <1>4 DEF ReadSegment, IsFile, AnyWord
  <2>2. /\ file' = file /\ pc' = "segments" /\ seen' \in 0 .. Len(file.segments)
        /\ anySection' = anySection
    BY <1>1, <1>4 DEF ReadSegment
  <2>3. \/ AddRegion(s.virtualAddress, s.fileSize, DataAt(s.virtualAddress))
        \/ regions' = regions
    BY <1>4 DEF ReadSegment
  <2>4. CASE AddRegion(s.virtualAddress, s.fileSize, DataAt(s.virtualAddress))
    BY <2>1, <2>2, <2>4, AddedRegionIsBacked
  <2>5. CASE regions' = regions
    BY <2>2, <2>5 DEF RegionsAreBacked
  <2> QED
    BY <2>3, <2>4, <2>5
<1>5. CASE SegmentsRead
  BY <1>1, <1>5 DEF SegmentsRead, RegionsAreBacked
<1>6. CASE Sort
  <2>1. /\ file' = file /\ pc' = "done" /\ seen' = seen /\ anySection' = anySection
        /\ pc = "sort"
    BY <1>6 DEF Sort
  <2>2. PICK p \in Orders(Len(regions)) : regions' = [i \in DOMAIN regions |-> regions[p[i]]]
    BY <1>6 DEF Sort
  <2>3. Len(regions) \in Nat /\ DOMAIN regions = 1 .. Len(regions)
    OBVIOUS
  <2>4. \A i \in DOMAIN regions : p[i] \in DOMAIN regions
    BY <2>3 DEF Orders
  <2>5. regions' \in Seq(Region) /\ DOMAIN regions' = DOMAIN regions
    BY <2>2, <2>3, <2>4
  <2> QED
    BY <2>1, <2>2, <2>4, <2>5 DEF RegionsAreBacked
<1>7. CASE UNCHANGED vars
  BY <1>7 DEF vars, mapVars, RegionsAreBacked
<1> QED
  BY <1>2, <1>3, <1>4, <1>5, <1>6, <1>7 DEF Next

LEMMA AlwaysBacked == Spec => []IInv
  BY InitIsBacked, NextIsBacked, PTL DEF Spec

\* For every file, and every width of a word, the constructor's variables keep
\* their types: no sum it makes leaves the address space.
THEOREM TypeCorrect == Spec => []TypeOK
<1>1. IInv => TypeOK
  BY DEF IInv
<1> QED
  BY <1>1, AlwaysBacked, PTL

\* Whatever the headers of the file say, no region is ever empty, wraps around
\* or reaches past the end of the file (addRegion and dataAt).
THEOREM RegionsStayBacked == Spec => []RegionsAreBacked
<1>1. IInv => RegionsAreBacked
  BY DEF IInv
<1> QED
  BY <1>1, AlwaysBacked, PTL
-----------------------------------------------------------------------------
\* The region of a range: as much of it as a file of n bytes has.
RegionOf(r, n) ==
  [start |-> r.start, end |-> r.start + Lesser(r.size, n - r.from), from |-> r.from]

\* The file has a byte of the range.
HasBytes(r, n) == r.size > 0 /\ r.from < n

AreRanges(rs) ==
  \A i \in DOMAIN rs : rs[i].start \in Nat /\ rs[i].size \in Nat /\ rs[i].from \in Nat

Apart(r, s) == r.end <= s.start \/ s.end <= r.start

\* The regions regs are those of the ranges with an index in I, each taken once.
Holds(regs, n, rs, I) ==
  /\ {regs[k] : k \in DOMAIN regs} = {RegionOf(rs[i], n) : i \in I}
  /\ \A k, l \in DOMAIN regs : k # l => Apart(regs[k], regs[l])

\* The code sections among the first m that have bytes in the file; so too the
\* code segments.
PresentSections(m) ==
  {i \in LoadedSections :
     i <= m /\ IsCode(file.sections[i]) /\ HasBytes(SectionRanges[i], Len(file.bytes))}
PresentSegments(m) ==
  {i \in LoadedSegments :
     i <= m /\ file.segments[i].executable /\ HasBytes(SegmentRanges[i], Len(file.bytes))}

AllSections == PresentSections(Len(file.sections))
AllSegments == PresentSegments(Len(file.segments))

\* What the first loop has found so far and, once it is over, what it leaves to
\* the second one.
SectionsAreHeld ==
  AreDisjoint(SectionRanges) =>
    /\ pc = "sections" =>
         /\ Holds(regions, Len(file.bytes), SectionRanges, PresentSections(seen))
         /\ anySection <=> PresentSections(seen) # {}
    /\ pc # "sections" =>
         /\ anySection <=> AllSections # {}
         /\ anySection => Holds(regions, Len(file.bytes), SectionRanges, AllSections)

\* What the second loop has found so far in a file without section headers.
SegmentsAreHeld ==
  file.sections = <<>> =>
    /\ ~ anySection
    /\ AreDisjoint(SegmentRanges) =>
         /\ pc = "segments" =>
              Holds(regions, Len(file.bytes), SegmentRanges, PresentSegments(seen))
         /\ pc \in {"sort", "done"} =>
              Holds(regions, Len(file.bytes), SegmentRanges, AllSegments)

\* The loops come one after the other, and the second one only when the first
\* found nothing.
PhasesFollow ==
  /\ pc = "sections" /\ ~ anySection => regions = <<>>
  /\ pc = "segments" => ~ anySection
  /\ pc = "done" =>
       \A i, j \in DOMAIN regions : i < j => regions[i].start <= regions[j].start

\* The inductive invariant of the contents of the map.
CInv == IInv /\ PhasesFollow /\ SectionsAreHeld /\ SegmentsAreHeld
-----------------------------------------------------------------------------
\* A region starts with its range and ends no later.
LEMMA RegionOfIsBounded ==
  ASSUME NEW r, r.start \in Nat, r.size \in Nat, r.from \in Nat, NEW n \in Nat,
         HasBytes(r, n)
  PROVE  /\ RegionOf(r, n).start = r.start
         /\ RegionOf(r, n).from = r.from
         /\ RegionOf(r, n).end \in Nat
         /\ r.start < RegionOf(r, n).end
         /\ RegionOf(r, n).end <= r.start + r.size
  BY DEF RegionOf, HasBytes, Lesser

\* The regions of ranges that do not overlap do not overlap.
LEMMA RegionsAreApart ==
  ASSUME NEW rs, AreRanges(rs), AreDisjoint(rs), NEW n \in Nat,
         NEW i \in DOMAIN rs, NEW j \in DOMAIN rs, i # j,
         HasBytes(rs[i], n), HasBytes(rs[j], n)
  PROVE  Apart(RegionOf(rs[i], n), RegionOf(rs[j], n))
<1>1. /\ rs[i].start \in Nat /\ rs[i].size \in Nat /\ rs[i].from \in Nat
      /\ rs[j].start \in Nat /\ rs[j].size \in Nat /\ rs[j].from \in Nat
  BY DEF AreRanges
<1>2. rs[i].start + rs[i].size <= rs[j].start \/ rs[j].start + rs[j].size <= rs[i].start
  BY DEF AreDisjoint
<1>3. /\ RegionOf(rs[i], n).start = rs[i].start
      /\ RegionOf(rs[i], n).end \in Nat
      /\ RegionOf(rs[i], n).end <= rs[i].start + rs[i].size
  BY <1>1, RegionOfIsBounded
<1>4. /\ RegionOf(rs[j], n).start = rs[j].start
      /\ RegionOf(rs[j], n).end \in Nat
      /\ RegionOf(rs[j], n).end <= rs[j].start + rs[j].size
  BY <1>1, RegionOfIsBounded
<1> QED
  BY <1>1, <1>2, <1>3, <1>4 DEF Apart

\* Before the first turn of a loop nothing is held.
LEMMA NothingIsHeld ==
  ASSUME NEW n, NEW rs
  PROVE  Holds(<<>>, n, rs, {})
  BY DEF Holds

\* One more range, one more region.
LEMMA OneMoreIsHeld ==
  ASSUME NEW T, NEW regs \in Seq(T), NEW n \in Nat,
         NEW rs, AreRanges(rs), AreDisjoint(rs),
         NEW I \in SUBSET DOMAIN rs, \A j \in I : HasBytes(rs[j], n),
         NEW i \in DOMAIN rs, i \notin I, HasBytes(rs[i], n), RegionOf(rs[i], n) \in T,
         Holds(regs, n, rs, I)
  PROVE  Holds(Append(regs, RegionOf(rs[i], n)), n, rs, I \cup {i})
<1> DEFINE new == RegionOf(rs[i], n)
           longer == Append(regs, new)
           m == Len(regs)
<1>1. /\ m \in Nat /\ DOMAIN regs = 1 .. m /\ DOMAIN longer = 1 .. m + 1
      /\ longer[m + 1] = new /\ \A k \in 1 .. m : longer[k] = regs[k]
  OBVIOUS
<1>2. \A k \in 1 .. m : Apart(regs[k], new) /\ Apart(new, regs[k])
  <2> SUFFICES ASSUME NEW k \in 1 .. m PROVE Apart(regs[k], new) /\ Apart(new, regs[k])
    OBVIOUS
  <2>1. PICK j \in I : regs[k] = RegionOf(rs[j], n)
    BY <1>1 DEF Holds
  <2>2. Apart(RegionOf(rs[j], n), RegionOf(rs[i], n))
    BY RegionsAreApart
  <2> QED
    BY <2>1, <2>2 DEF Apart
<1> HIDE DEF new, longer, m
<1>3. {longer[k] : k \in DOMAIN longer} = {regs[k] : k \in DOMAIN regs} \cup {new}
  <2>1. \A k \in 1 .. m + 1 : k \in 1 .. m \/ k = m + 1
    BY <1>1
  <2>2. 1 .. m \subseteq 1 .. m + 1 /\ m + 1 \in 1 .. m + 1
    BY <1>1
  <2> QED
    BY <1>1, <2>1, <2>2
<1>4. {RegionOf(rs[j], n) : j \in I \cup {i}} = {RegionOf(rs[j], n) : j \in I} \cup {new}
  BY DEF new
<1>5. \A k, l \in DOMAIN longer : k # l => Apart(longer[k], longer[l])
  <2> SUFFICES ASSUME NEW k \in 1 .. m + 1, NEW l \in 1 .. m + 1, k # l
               PROVE  Apart(longer[k], longer[l])
    BY <1>1
  <2>1. CASE k \in 1 .. m /\ l \in 1 .. m
    BY <1>1, <2>1 DEF Holds
  <2>2. CASE k = m + 1 /\ l \in 1 .. m
    BY <1>1, <1>2, <2>2
  <2>3. CASE k \in 1 .. m /\ l = m + 1
    BY <1>1, <1>2, <2>3
  <2> QED
    BY <1>1, <2>1, <2>2, <2>3
<1> QED
  BY <1>3, <1>4, <1>5 DEF Holds, longer, new

\* Sorting moves the regions and loses none: an order of the places is onto.
LEMMA OrdersAreOnto ==
  ASSUME NEW n \in Nat, NEW p \in Orders(n)
  PROVE  \A k \in 1 .. n : \E i \in 1 .. n : p[i] = k
<1>1. p \in Injection(1 .. n, 1 .. n)
  BY DEF Orders, Injection, IsInjective
<1>2. IsFiniteSet(1 .. n)
  BY FS_Interval
<1>3. p \in Surjection(1 .. n, 1 .. n)
  BY <1>1, <1>2, FS_Injection
<1> QED
  BY <1>3 DEF Surjection

LEMMA SortedIsHeld ==
  ASSUME NEW T, NEW regs \in Seq(T), NEW p \in Orders(Len(regs)), NEW n, NEW rs, NEW I,
         Holds(regs, n, rs, I)
  PROVE  Holds([i \in DOMAIN regs |-> regs[p[i]]], n, rs, I)
<1> DEFINE sorted == [i \in DOMAIN regs |-> regs[p[i]]]
<1>1. Len(regs) \in Nat /\ DOMAIN regs = 1 .. Len(regs) /\ DOMAIN sorted = DOMAIN regs
  OBVIOUS
<1>2. \A i \in DOMAIN regs : p[i] \in DOMAIN regs
  BY <1>1 DEF Orders
<1>3. \A i, j \in DOMAIN regs : i # j => p[i] # p[j]
  BY <1>1 DEF Orders
<1>4. \A k \in DOMAIN regs : \E i \in DOMAIN regs : p[i] = k
  <2>1. \A k \in 1 .. Len(regs) : \E i \in 1 .. Len(regs) : p[i] = k
    BY <1>1, OrdersAreOnto
  <2> QED
    BY <1>1, <2>1
<1>5. {sorted[k] : k \in DOMAIN sorted} = {regs[k] : k \in DOMAIN regs}
  BY <1>1, <1>2, <1>4
<1>6. \A k, l \in DOMAIN sorted : k # l => Apart(sorted[k], sorted[l])
  BY <1>1, <1>2, <1>3 DEF Holds
<1> QED
  BY <1>5, <1>6 DEF Holds
-----------------------------------------------------------------------------
\* The ranges of the sections are made of words.
LEMMA SectionRangesAreRanges ==
  ASSUME IsFile(file)
  PROVE  /\ AreRanges(SectionRanges) /\ DOMAIN SectionRanges = LoadedSections
         /\ \A i \in LoadedSections :
              /\ SectionRanges[i].start = file.sections[i].address
              /\ SectionRanges[i].size = file.sections[i].size
              /\ SectionRanges[i].from = file.sections[i].fileOffset
              /\ {file.sections[i].address, file.sections[i].size,
                  file.sections[i].fileOffset} \subseteq AnyWord
<1>1. \A i \in LoadedSections :
        /\ SectionRanges[i].start = file.sections[i].address
        /\ SectionRanges[i].size = file.sections[i].size
        /\ SectionRanges[i].from = file.sections[i].fileOffset
        /\ {file.sections[i].address, file.sections[i].size,
            file.sections[i].fileOffset} \subseteq AnyWord
  BY DEF SectionRanges, SectionRange, IsFile, AnyWord, LoadedSections
<1>2. DOMAIN SectionRanges = LoadedSections
  BY DEF SectionRanges
<1> QED
  BY <1>1, <1>2 DEF AreRanges, AnyWord

\* So are those of the segments.
LEMMA SegmentRangesAreRanges ==
  ASSUME IsFile(file)
  PROVE  /\ AreRanges(SegmentRanges) /\ DOMAIN SegmentRanges = LoadedSegments
         /\ \A i \in LoadedSegments :
              /\ SegmentRanges[i].start = file.segments[i].virtualAddress
              /\ SegmentRanges[i].size = file.segments[i].fileSize
              /\ SegmentRanges[i].from = file.segments[i].fileOffset
              /\ {file.segments[i].virtualAddress, file.segments[i].fileSize,
                  file.segments[i].fileOffset} \subseteq AnyWord
<1>1. \A i \in LoadedSegments :
        /\ SegmentRanges[i].start = file.segments[i].virtualAddress
        /\ SegmentRanges[i].size = file.segments[i].fileSize
        /\ SegmentRanges[i].from = file.segments[i].fileOffset
        /\ {file.segments[i].virtualAddress, file.segments[i].fileSize,
            file.segments[i].fileOffset} \subseteq AnyWord
  BY DEF SegmentRanges, SegmentRange, IsFile, AnyWord, LoadedSegments
<1>2. DOMAIN SegmentRanges = LoadedSegments
  BY DEF SegmentRanges
<1> QED
  BY <1>1, <1>2 DEF AreRanges, AnyWord

\* A word is not cut.
LEMMA WordIsItself ==
  ASSUME NEW W \in Nat \ {0}, NEW x \in 0 .. W - 1
  PROVE  x % W = x
  OBVIOUS

\* The data of a range from its own start.
LEMMA DataFromItsStart ==
  ASSUME NEW r, r.start \in Nat, r.size \in Nat, r.from \in Nat,
         r.from + r.size < WordLimit, Len(file.bytes) \in Nat
  PROVE  DataFrom(r.start, r.start, r.size, r.from) =
           IF r.from >= Len(file.bytes) THEN NoData
           ELSE [from |-> r.from, size |-> Lesser(r.size, Len(file.bytes) - r.from)]
<1>1. r.from + (r.start - r.start) = r.from /\ r.size - (r.start - r.start) = r.size
  OBVIOUS
<1>2. r.from % WordLimit = r.from
  <2> DEFINE W == WordLimit
  <2>1. W \in Nat \ {0} /\ r.from + r.size < W
    BY WordLimitAssumption
  <2> HIDE DEF W
  <2>2. r.from \in 0 .. W - 1
    BY <2>1
  <2>3. r.from % W = r.from
    BY <2>1, <2>2, WordIsItself
  <2> QED
    BY <2>3 DEF W
<1> QED
  BY <1>1, <1>2 DEF DataFrom

\* In a linked file, dataAt finds at the start of a section that very section.
LEMMA DataOfLinkedSection ==
  ASSUME IsFile(file), AreDisjoint(SectionRanges), NEW i \in LoadedSections,
         NEW r, r = SectionRanges[i], r.size > 0
  PROVE  DataAt(r.start) = DataFrom(r.start, r.start, r.size, r.from)
<1> DEFINE s == file.sections[i]
<1> USE SectionRangesAreRanges, WordLimitAssumption
<1>1. /\ r.start = s.address /\ r.size = s.size /\ r.from = s.fileOffset
      /\ r.start \in Nat /\ r.size \in Nat
  BY DEF AreRanges
<1>2. SectionsOver(r.start) \subseteq {i}
  <2> SUFFICES ASSUME NEW j \in SectionsOver(r.start), j # i PROVE FALSE
    OBVIOUS
  <2>1. j \in LoadedSections /\ InRange(r.start, SectionRanges[j].start, SectionRanges[j].size)
    BY DEF SectionsOver, LoadedSections
  <2> DEFINE q == SectionRanges[j]
  <2>2. q.start \in AnyWord /\ q.size \in AnyWord /\ q.start + q.size < WordLimit
    BY <2>1 DEF AreDisjoint
  <2> HIDE DEF q
  <2>3. (q.start + q.size) % WordLimit = q.start + q.size
    BY <2>2, SumOfWords DEF AnyWord
  <2>4. q.start <= r.start /\ r.start < q.start + q.size
    BY <2>1, <2>3 DEF InRange, q
  <2>5. r.start + r.size <= q.start \/ q.start + q.size <= r.start
    BY <2>1 DEF AreDisjoint, q
  <2> QED
    BY <1>1, <2>2, <2>4, <2>5 DEF AnyWord
<1>3. i \in SectionsOver(r.start)
  <2>1. r.start \in AnyWord /\ r.size \in AnyWord /\ r.start + r.size < WordLimit
    BY DEF AreDisjoint
  <2>2. (r.start + r.size) % WordLimit = r.start + r.size
    BY <2>1, SumOfWords DEF AnyWord
  <2>3. InRange(r.start, r.start, r.size)
    BY <1>1, <2>2 DEF InRange
  <2> QED
    BY <1>1, <2>3 DEF SectionsOver, LoadedSections
<1>4. SectionsOver(r.start) = {i} /\ FirstOf({i}) = i
  <2>1. SectionsOver(r.start) = {i}
    BY <1>2, <1>3
  <2>2. {i} \in SUBSET Nat
    BY DEF LoadedSections, IsFile
  <2> QED
    BY <2>1, <2>2, FirstOfIsIn
<1> QED
  BY <1>1, <1>4 DEF DataAt, DataOfSection

\* In a linked file without section headers, so too of a segment.
LEMMA DataOfLinkedSegment ==
  ASSUME IsFile(file), file.sections = <<>>, AreDisjoint(SegmentRanges),
         NEW i \in LoadedSegments, NEW r, r = SegmentRanges[i], r.size > 0
  PROVE  DataAt(r.start) = DataFrom(r.start, r.start, r.size, r.from)
<1> DEFINE s == file.segments[i]
<1> USE SegmentRangesAreRanges, WordLimitAssumption
<1>1. /\ r.start = s.virtualAddress /\ r.size = s.fileSize /\ r.from = s.fileOffset
      /\ r.start \in Nat /\ r.size \in Nat
  BY DEF AreRanges
<1>2. LoadedOver(r.start) \subseteq {i}
  <2> SUFFICES ASSUME NEW j \in LoadedOver(r.start), j # i PROVE FALSE
    OBVIOUS
  <2>1. j \in LoadedSegments /\ InRange(r.start, SegmentRanges[j].start, SegmentRanges[j].size)
    BY DEF LoadedOver, LoadedSegments
  <2> DEFINE q == SegmentRanges[j]
  <2>2. q.start \in AnyWord /\ q.size \in AnyWord /\ q.start + q.size < WordLimit
    BY <2>1 DEF AreDisjoint
  <2> HIDE DEF q
  <2>3. (q.start + q.size) % WordLimit = q.start + q.size
    BY <2>2, SumOfWords DEF AnyWord
  <2>4. q.start <= r.start /\ r.start < q.start + q.size
    BY <2>1, <2>3 DEF InRange, q
  <2>5. r.start + r.size <= q.start \/ q.start + q.size <= r.start
    BY <2>1 DEF AreDisjoint, q
  <2> QED
    BY <1>1, <2>2, <2>4, <2>5 DEF AnyWord
<1>3. i \in LoadedOver(r.start)
  <2>1. r.start \in AnyWord /\ r.size \in AnyWord /\ r.start + r.size < WordLimit
    BY DEF AreDisjoint
  <2>2. (r.start + r.size) % WordLimit = r.start + r.size
    BY <2>1, SumOfWords DEF AnyWord
  <2>3. InRange(r.start, r.start, r.size)
    BY <1>1, <2>2 DEF InRange
  <2> QED
    BY <1>1, <2>3 DEF LoadedOver, LoadedSegments
<1>4. LoadedOver(r.start) = {i} /\ FirstOf({i}) = i
  <2>1. LoadedOver(r.start) = {i}
    BY <1>2, <1>3
  <2>2. {i} \in SUBSET Nat
    BY DEF LoadedSegments, IsFile
  <2> QED
    BY <2>1, <2>2, FirstOfIsIn
<1>5. SectionsOver(r.start) = {}
  BY DEF SectionsOver
<1> QED
  BY <1>1, <1>4, <1>5 DEF DataAt, DataOfSegment

\* What addRegion appends for a range that dataAt finds where it starts.
LEMMA AddedRegionIsItsRange ==
  ASSUME NEW r, r.start \in Nat, r.size \in Nat, r.from \in Nat,
         r.start + r.size < WordLimit, r.from + r.size < WordLimit,
         Len(file.bytes) \in Nat,
         DataAt(r.start) = DataFrom(r.start, r.start, r.size, r.from),
         AddRegion(r.start, r.size, DataAt(r.start))
  PROVE  /\ HasBytes(r, Len(file.bytes)) =>
              regions' = Append(regions, RegionOf(r, Len(file.bytes)))
         /\ ~ HasBytes(r, Len(file.bytes)) => regions' = regions
<1> DEFINE n == Len(file.bytes)
           data == DataAt(r.start)
<1>1. data = IF r.from >= n THEN NoData
             ELSE [from |-> r.from, size |-> Lesser(r.size, n - r.from)]
  BY DataFromItsStart
<1>2. CASE HasBytes(r, n)
  <2>1. data = [from |-> r.from, size |-> Lesser(r.size, n - r.from)]
    BY <1>1, <1>2 DEF HasBytes
  <2>2. /\ data.from = r.from /\ data.size = Lesser(r.size, n - r.from)
        /\ data.size \in Nat \ {0} /\ data.size <= r.size
    BY <1>2, <2>1 DEF HasBytes, Lesser
  <2>3. data # NoData
    BY <2>2 DEF NoData
  <2>4. Lesser(r.size, data.size) = data.size
    BY <2>2 DEF Lesser
  <2>5. (r.start + data.size) % WordLimit = r.start + data.size
    <3>1. r.start + data.size < WordLimit /\ r.start \in AnyWord /\ data.size \in AnyWord
      BY <2>2, WordLimitAssumption DEF AnyWord
    <3> HIDE DEF data
    <3> QED
      BY <3>1, SumOfWords, WordLimitAssumption DEF AnyWord
  <2> HIDE DEF data
  <2>6. regions' = Append(regions, [start |-> r.start,
                                    end |-> (r.start + data.size) % WordLimit,
                                    from |-> data.from])
    BY <2>2, <2>3, <2>4 DEF AddRegion, data
  <2> QED
    BY <1>2, <2>2, <2>5, <2>6 DEF RegionOf
<1>3. CASE ~ HasBytes(r, n)
  <2>1. data = NoData \/ Lesser(r.size, data.size) = 0
    BY <1>1, <1>3 DEF HasBytes, Lesser
  <2> QED
    BY <1>3, <2>1 DEF AddRegion
<1> QED
  BY <1>2, <1>3
-----------------------------------------------------------------------------
IsPresentSection(i) ==
  IsCode(file.sections[i]) /\ file.sections[i].fileOffset < Len(file.bytes)
IsPresentSegment(i) ==
  /\ file.segments[i].type = "load" /\ file.segments[i].executable
  /\ file.segments[i].fileSize > 0 /\ file.segments[i].fileOffset < Len(file.bytes)

\* One more section is present or not, by its own header.
LEMMA PresentSectionsGrow ==
  ASSUME IsFile(file), NEW m \in Nat, m < Len(file.sections)
  PROVE  /\ m + 1 \notin PresentSections(m)
         /\ IsPresentSection(m + 1) =>
              /\ m + 1 \in LoadedSections
              /\ HasBytes(SectionRanges[m + 1], Len(file.bytes))
              /\ PresentSections(m + 1) = PresentSections(m) \cup {m + 1}
         /\ ~ IsPresentSection(m + 1) => PresentSections(m + 1) = PresentSections(m)
<1>1. Len(file.sections) \in Nat /\ DOMAIN file.sections = 1 .. Len(file.sections)
  BY DEF IsFile
<1>2. LoadedSections \subseteq Nat /\ \A i \in LoadedSections : i <= m + 1 <=> i <= m \/ i = m + 1
  BY <1>1 DEF LoadedSections
<1>3. m + 1 \in DOMAIN file.sections
  BY <1>1
<1>4. \A i \in LoadedSections :
        IsCode(file.sections[i]) =>
          (HasBytes(SectionRanges[i], Len(file.bytes)) <=> IsPresentSection(i))
  BY SectionRangesAreRanges DEF HasBytes, IsPresentSection, IsCode
<1>5. IsPresentSection(m + 1) => m + 1 \in LoadedSections /\ IsCode(file.sections[m + 1])
  BY <1>3 DEF IsPresentSection, LoadedSections, IsCode
<1>6. m + 1 \notin PresentSections(m)
  BY DEF PresentSections
<1>7. ASSUME IsPresentSection(m + 1)
      PROVE  PresentSections(m + 1) = PresentSections(m) \cup {m + 1}
  BY <1>2, <1>4, <1>5, <1>7 DEF PresentSections
<1>8. ASSUME ~ IsPresentSection(m + 1) PROVE PresentSections(m + 1) = PresentSections(m)
  BY <1>2, <1>4, <1>8 DEF PresentSections
<1> QED
  BY <1>4, <1>5, <1>6, <1>7, <1>8

\* So is one more segment.
LEMMA PresentSegmentsGrow ==
  ASSUME IsFile(file), NEW m \in Nat, m < Len(file.segments)
  PROVE  /\ m + 1 \notin PresentSegments(m)
         /\ IsPresentSegment(m + 1) =>
              /\ m + 1 \in LoadedSegments
              /\ HasBytes(SegmentRanges[m + 1], Len(file.bytes))
              /\ PresentSegments(m + 1) = PresentSegments(m) \cup {m + 1}
         /\ ~ IsPresentSegment(m + 1) => PresentSegments(m + 1) = PresentSegments(m)
<1>1. Len(file.segments) \in Nat /\ DOMAIN file.segments = 1 .. Len(file.segments)
  BY DEF IsFile
<1>2. LoadedSegments \subseteq Nat /\ \A i \in LoadedSegments : i <= m + 1 <=> i <= m \/ i = m + 1
  BY <1>1 DEF LoadedSegments
<1>3. m + 1 \in DOMAIN file.segments
  BY <1>1
<1>4. \A i \in LoadedSegments :
        file.segments[i].executable =>
          (HasBytes(SegmentRanges[i], Len(file.bytes)) <=> IsPresentSegment(i))
  BY SegmentRangesAreRanges DEF HasBytes, IsPresentSegment, LoadedSegments
<1>5. IsPresentSegment(m + 1) => m + 1 \in LoadedSegments /\ file.segments[m + 1].executable
  BY <1>3 DEF IsPresentSegment, LoadedSegments
<1>6. m + 1 \notin PresentSegments(m)
  BY DEF PresentSegments
<1>7. ASSUME IsPresentSegment(m + 1)
      PROVE  PresentSegments(m + 1) = PresentSegments(m) \cup {m + 1}
  BY <1>2, <1>4, <1>5, <1>7 DEF PresentSegments
<1>8. ASSUME ~ IsPresentSegment(m + 1) PROVE PresentSegments(m + 1) = PresentSegments(m)
  BY <1>2, <1>4, <1>8 DEF PresentSegments
<1> QED
  BY <1>4, <1>5, <1>6, <1>7, <1>8

\* The file never changes, and with it what is defined from it.
LEMMA FileStays ==
  ASSUME file' = file
  PROVE  /\ SectionRanges' = SectionRanges /\ SegmentRanges' = SegmentRanges
         /\ PresentSections(seen)' = PresentSections(seen')
         /\ PresentSegments(seen)' = PresentSegments(seen')
         /\ AllSections' = AllSections /\ AllSegments' = AllSegments
<1>1. SectionRanges' = SectionRanges /\ SegmentRanges' = SegmentRanges
      /\ LoadedSections' = LoadedSections /\ LoadedSegments' = LoadedSegments
  BY DEF SectionRanges, SegmentRanges, LoadedSections, LoadedSegments, SectionRange, SegmentRange
<1>2. /\ PresentSections(seen)' = PresentSections(seen')
      /\ PresentSegments(seen)' = PresentSegments(seen')
  BY <1>1 DEF PresentSections, PresentSegments
<1>3. AllSections' = AllSections /\ AllSegments' = AllSegments
  BY <1>1 DEF AllSections, AllSegments, PresentSections, PresentSegments
<1> QED
  BY <1>1, <1>2, <1>3

\* The invariant holds of the constructor before its loops.
LEMMA InitIsHeld == Init => CInv
<1> SUFFICES ASSUME Init PROVE CInv
  OBVIOUS
<1>1. IInv
  BY InitIsBacked
<1>2. pc = "sections" /\ seen = 0 /\ anySection = FALSE /\ regions = <<>>
  BY DEF Init, MapInit
<1>3. PresentSections(0) = {}
  BY <1>1 DEF PresentSections, LoadedSections, IInv, TypeOK, IsFile
<1>4. PhasesFollow /\ SegmentsAreHeld
  BY <1>2 DEF PhasesFollow, SegmentsAreHeld
<1>5. SectionsAreHeld
  BY <1>2, <1>3, NothingIsHeld DEF SectionsAreHeld
<1> QED
  BY <1>1, <1>4, <1>5 DEF CInv

\* One turn of the first loop takes the region of a code section that has
\* bytes, and nothing for any other.
LEMMA ReadSectionHolds ==
  ASSUME CInv, ReadSection, AreDisjoint(SectionRanges)
  PROVE  /\ Holds(regions', Len(file.bytes), SectionRanges, PresentSections(seen + 1))
         /\ anySection' <=> PresentSections(seen + 1) # {}
<1> DEFINE n == Len(file.bytes)
           i == seen + 1
           s == file.sections[i]
<1> USE DEF CInv, IInv
<1>1. /\ IsFile(file) /\ regions \in Seq(Region) /\ n \in Nat
      /\ pc = "sections" /\ seen \in Nat /\ seen < Len(file.sections)
      /\ i \in DOMAIN file.sections
  BY DEF TypeOK, IsFile, ReadSection
<1>2. /\ Holds(regions, n, SectionRanges, PresentSections(seen))
      /\ anySection <=> PresentSections(seen) # {}
  BY <1>1 DEF SectionsAreHeld
<1>3. CASE IsCode(s)
  <2> DEFINE r == SectionRanges[i]
  <2>1. i \in LoadedSections
    BY <1>1, <1>3 DEF LoadedSections, IsCode
  <2>2. /\ r.start = s.address /\ r.size = s.size /\ r.from = s.fileOffset
        /\ r.start \in Nat /\ r.size \in Nat /\ r.from \in Nat
        /\ AreRanges(SectionRanges) /\ DOMAIN SectionRanges = LoadedSections
    BY <1>1, <2>1, SectionRangesAreRanges DEF AreRanges
  <2>3. r.start + r.size < WordLimit /\ r.from + r.size < WordLimit /\ r.size > 0
    BY <1>3, <2>1, <2>2 DEF AreDisjoint, IsCode
  <2>4. DataAt(r.start) = DataFrom(r.start, r.start, r.size, r.from)
    BY <1>1, <2>1, <2>3, DataOfLinkedSection
  <2>5. IsPresentSection(i) <=> HasBytes(r, n)
    BY <1>3, <2>2, <2>3 DEF IsPresentSection, HasBytes
  <2>6. DataAt(r.start) = IF r.from >= n THEN NoData
                          ELSE [from |-> r.from, size |-> Lesser(r.size, n - r.from)]
    BY <1>1, <2>2, <2>3, <2>4, DataFromItsStart
  <2>7. CASE HasBytes(r, n)
    <3>1. DataAt(r.start) # NoData
      <4>1. Lesser(r.size, n - r.from) # 0 /\ ~ (r.from >= n)
        BY <1>1, <2>2, <2>7 DEF HasBytes, Lesser
      <4> QED
        BY <2>6, <4>1 DEF NoData
    <3>2. anySection' = TRUE /\ AddRegion(r.start, r.size, DataAt(r.start))
      BY <1>3, <2>2, <3>1 DEF ReadSection
    <3>3. regions' = Append(regions, RegionOf(r, n))
      BY <1>1, <2>2, <2>3, <2>4, <2>7, <3>2, AddedRegionIsItsRange
    <3>4. PresentSections(i) = PresentSections(seen) \cup {i} /\ i \notin PresentSections(seen)
      BY <1>1, <2>5, <2>7, PresentSectionsGrow
    <3>5. /\ PresentSections(seen) \in SUBSET DOMAIN SectionRanges
          /\ \A j \in PresentSections(seen) : HasBytes(SectionRanges[j], n)
      BY <2>2 DEF PresentSections
    <3>6. Holds(Append(regions, RegionOf(r, n)), n, SectionRanges, PresentSections(seen) \cup {i})
      <4>1. RegionOf(r, n) \in Region
        <5>1. /\ RegionOf(r, n).end \in Nat /\ RegionOf(r, n).end <= r.start + r.size
          BY <1>1, <2>2, <2>7, RegionOfIsBounded
        <5>2. RegionOf(r, n).end < WordLimit /\ r.start < WordLimit
          BY <2>2, <2>3, <5>1, WordLimitAssumption
        <5> QED
          BY <2>2, <5>1, <5>2, WordLimitAssumption DEF RegionOf, Region
      <4> HIDE DEF n, i, r
      <4> QED
        BY <1>1, <1>2, <2>1, <2>2, <2>7, <3>4, <3>5, <4>1, OneMoreIsHeld DEF r
    <3> QED
      BY <3>2, <3>3, <3>4, <3>6
  <2>8. CASE ~ HasBytes(r, n)
    <3>1. DataAt(r.start) = NoData
      BY <1>1, <2>2, <2>3, <2>6, <2>8 DEF HasBytes
    <3>2. anySection' = anySection /\ regions' = regions
      BY <2>2, <3>1 DEF ReadSection
    <3>3. PresentSections(i) = PresentSections(seen)
      BY <1>1, <2>5, <2>8, PresentSectionsGrow
    <3> QED
      BY <1>2, <3>2, <3>3
  <2> QED
    BY <2>7, <2>8
<1>4. CASE ~ IsCode(s)
  <2>1. anySection' = anySection /\ regions' = regions
    BY <1>4 DEF ReadSection
  <2>2. PresentSections(i) = PresentSections(seen)
    BY <1>1, <1>4, PresentSectionsGrow DEF IsPresentSection
  <2> QED
    BY <1>2, <2>1, <2>2
<1> QED
  BY <1>3, <1>4

\* So does one turn of the second loop, of the code segments.
LEMMA ReadSegmentHolds ==
  ASSUME CInv, ReadSegment, file.sections = <<>>, AreDisjoint(SegmentRanges)
  PROVE  Holds(regions', Len(file.bytes), SegmentRanges, PresentSegments(seen + 1))
<1> DEFINE n == Len(file.bytes)
           i == seen + 1
           s == file.segments[i]
<1> USE DEF CInv, IInv
<1>1. /\ IsFile(file) /\ regions \in Seq(Region) /\ n \in Nat
      /\ pc = "segments" /\ seen \in Nat /\ seen < Len(file.segments)
      /\ i \in DOMAIN file.segments
  BY DEF TypeOK, IsFile, ReadSegment
<1>2. Holds(regions, n, SegmentRanges, PresentSegments(seen))
  BY <1>1 DEF SegmentsAreHeld
<1>3. CASE s.type = "load" /\ s.executable /\ s.fileSize > 0
  <2> DEFINE r == SegmentRanges[i]
  <2>1. i \in LoadedSegments
    BY <1>1, <1>3 DEF LoadedSegments
  <2>2. /\ r.start = s.virtualAddress /\ r.size = s.fileSize /\ r.from = s.fileOffset
        /\ r.start \in Nat /\ r.size \in Nat /\ r.from \in Nat
        /\ AreRanges(SegmentRanges) /\ DOMAIN SegmentRanges = LoadedSegments
    BY <1>1, <2>1, SegmentRangesAreRanges DEF AreRanges
  <2>3. r.start + r.size < WordLimit /\ r.from + r.size < WordLimit /\ r.size > 0
    BY <1>3, <2>1, <2>2 DEF AreDisjoint
  <2>4. DataAt(r.start) = DataFrom(r.start, r.start, r.size, r.from)
    BY <1>1, <2>1, <2>3, DataOfLinkedSegment
  <2>5. IsPresentSegment(i) <=> HasBytes(r, n)
    BY <1>3, <2>2, <2>3 DEF IsPresentSegment, HasBytes
  <2>6. AddRegion(r.start, r.size, DataAt(r.start))
    BY <1>3, <2>2 DEF ReadSegment
  <2>7. CASE HasBytes(r, n)
    <3>1. regions' = Append(regions, RegionOf(r, n))
      BY <1>1, <2>2, <2>3, <2>4, <2>6, <2>7, AddedRegionIsItsRange
    <3>2. PresentSegments(i) = PresentSegments(seen) \cup {i} /\ i \notin PresentSegments(seen)
      BY <1>1, <2>5, <2>7, PresentSegmentsGrow
    <3>3. /\ PresentSegments(seen) \in SUBSET DOMAIN SegmentRanges
          /\ \A j \in PresentSegments(seen) : HasBytes(SegmentRanges[j], n)
      BY <2>2 DEF PresentSegments
    <3>4. Holds(Append(regions, RegionOf(r, n)), n, SegmentRanges, PresentSegments(seen) \cup {i})
      <4>1. RegionOf(r, n) \in Region
        <5>1. /\ RegionOf(r, n).end \in Nat /\ RegionOf(r, n).end <= r.start + r.size
          BY <1>1, <2>2, <2>7, RegionOfIsBounded
        <5>2. RegionOf(r, n).end < WordLimit /\ r.start < WordLimit
          BY <2>2, <2>3, <5>1, WordLimitAssumption
        <5> QED
          BY <2>2, <5>1, <5>2, WordLimitAssumption DEF RegionOf, Region
      <4> HIDE DEF n, i, r
      <4> QED
        BY <1>1, <1>2, <2>1, <2>2, <2>7, <3>2, <3>3, <4>1, OneMoreIsHeld DEF r
    <3> QED
      BY <3>1, <3>2, <3>4
  <2>8. CASE ~ HasBytes(r, n)
    <3>1. regions' = regions
      BY <1>1, <2>2, <2>3, <2>4, <2>6, <2>8, AddedRegionIsItsRange
    <3>2. PresentSegments(i) = PresentSegments(seen)
      BY <1>1, <2>5, <2>8, PresentSegmentsGrow
    <3> QED
      BY <1>2, <3>1, <3>2
  <2> QED
    BY <2>7, <2>8
<1>4. CASE ~ (s.type = "load" /\ s.executable /\ s.fileSize > 0)
  <2>1. regions' = regions
    BY <1>4 DEF ReadSegment
  <2>2. PresentSegments(i) = PresentSegments(seen)
    BY <1>1, <1>4, PresentSegmentsGrow DEF IsPresentSegment
  <2> QED
    BY <1>2, <2>1, <2>2
<1> QED
  BY <1>3, <1>4

\* One step for each action: the loops add to what is held, the steps between
\* them pass it on, and sorting keeps it.
LEMMA NextIsHeld == CInv /\ [Next]_vars => CInv'
<1> SUFFICES ASSUME CInv, [Next]_vars PROVE CInv'
  OBVIOUS
<1> DEFINE n == Len(file.bytes)
<1>1. IInv'
  BY NextIsBacked DEF CInv
<1>2. IInv /\ PhasesFollow /\ SectionsAreHeld /\ SegmentsAreHeld
  BY DEF CInv
<1>3. /\ IsFile(file) /\ regions \in Seq(Region)
      /\ Len(file.sections) \in Nat /\ Len(file.segments) \in Nat
      /\ pc \in {"sections", "segments", "sort", "done"} /\ anySection \in BOOLEAN
  BY <1>2 DEF IInv, TypeOK, IsFile
<1>4. file' = file
  BY DEF Next, ReadSection, SectionsRead, ReadSegment, SegmentsRead, Sort, vars
<1>5. /\ SectionRanges' = SectionRanges /\ SegmentRanges' = SegmentRanges
      /\ PresentSections(seen)' = PresentSections(seen')
      /\ PresentSegments(seen)' = PresentSegments(seen')
      /\ AllSections' = AllSections /\ AllSegments' = AllSegments
  BY <1>4, FileStays
<1>6. CASE ReadSection
  <2>1. pc = "sections" /\ pc' = pc /\ seen' = seen + 1 /\ seen < Len(file.sections)
    BY <1>6 DEF ReadSection
  <2>2. PhasesFollow'
    <3>1. \/ anySection' = TRUE
          \/ anySection' = anySection /\ regions' = regions
      BY <1>6 DEF ReadSection
    <3> QED
      BY <1>2, <2>1, <3>1 DEF PhasesFollow
  <2>3. SectionsAreHeld'
    BY <1>4, <1>5, <1>6, <2>1, ReadSectionHolds DEF SectionsAreHeld
  <2>4. SegmentsAreHeld'
    <3>1. file.sections # <<>>
      <4>1. seen \in Nat
        BY <1>2, <2>1 DEF IInv, TypeOK
      <4> QED
        BY <1>3, <2>1, <4>1
    <3> QED
      BY <1>4, <3>1 DEF SegmentsAreHeld
  <2> QED
    BY <1>1, <2>2, <2>3, <2>4 DEF CInv
<1>7. CASE SectionsRead
  <2>1. /\ pc = "sections" /\ seen = Len(file.sections) /\ seen' = 0
        /\ pc' = IF anySection THEN "sort" ELSE "segments"
        /\ anySection' = anySection /\ regions' = regions
    BY <1>7 DEF SectionsRead
  <2>2. PhasesFollow'
    BY <2>1 DEF PhasesFollow
  <2>3. SectionsAreHeld'
    BY <1>2, <1>4, <1>5, <2>1 DEF SectionsAreHeld, AllSections
  <2>4. SegmentsAreHeld'
    <3> SUFFICES ASSUME file.sections = <<>>
                 PROVE  /\ ~ anySection'
                        /\ AreDisjoint(SegmentRanges) => 
                             /\ pc' = "segments" /\ Holds(regions', n, SegmentRanges, PresentSegments(0))
      BY <1>4, <1>5, <2>1 DEF SegmentsAreHeld
    <3>1. ~ anySection' /\ regions' = <<>> /\ pc' = "segments"
      BY <1>2, <2>1 DEF SegmentsAreHeld, PhasesFollow
    <3>2. PresentSegments(0) = {}
      BY <1>3 DEF PresentSegments, LoadedSegments
    <3> QED
      BY <3>1, <3>2, NothingIsHeld
  <2> QED
    BY <1>1, <2>2, <2>3, <2>4 DEF CInv
<1>8. CASE ReadSegment
  <2>1. /\ pc = "segments" /\ pc' = pc /\ seen' = seen + 1 /\ seen < Len(file.segments)
        /\ anySection' = anySection
    BY <1>8 DEF ReadSegment
  <2>2. PhasesFollow'
    BY <1>2, <2>1 DEF PhasesFollow
  <2>3. SectionsAreHeld'
    BY <1>2, <1>4, <1>5, <2>1 DEF SectionsAreHeld, PhasesFollow
  <2>4. SegmentsAreHeld'
    BY <1>2, <1>4, <1>5, <1>8, <2>1, ReadSegmentHolds DEF SegmentsAreHeld
  <2> QED
    BY <1>1, <2>2, <2>3, <2>4 DEF CInv
<1>9. CASE SegmentsRead
  <2>1. /\ pc = "segments" /\ seen = Len(file.segments) /\ pc' = "sort"
        /\ seen' = seen /\ anySection' = anySection /\ regions' = regions
    BY <1>9 DEF SegmentsRead
  <2>2. PhasesFollow'
    BY <2>1 DEF PhasesFollow
  <2>3. SectionsAreHeld'
    BY <1>2, <1>4, <1>5, <2>1 DEF SectionsAreHeld
  <2>4. SegmentsAreHeld'
    BY <1>2, <1>4, <1>5, <2>1 DEF SegmentsAreHeld, AllSegments
  <2> QED
    BY <1>1, <2>2, <2>3, <2>4 DEF CInv
<1>10. CASE Sort
  <2>1. pc = "sort" /\ pc' = "done" /\ seen' = seen /\ anySection' = anySection
    BY <1>10 DEF Sort
  <2>2. PICK p \in Orders(Len(regions)) :
          /\ \A i, j \in DOMAIN regions : i < j => regions[p[i]].start <= regions[p[j]].start
          /\ regions' = [i \in DOMAIN regions |-> regions[p[i]]]
    BY <1>10 DEF Sort
  <2>3. PhasesFollow'
    BY <2>1, <2>2 DEF PhasesFollow
  <2>4. SectionsAreHeld'
    <3>1. \A I : Holds(regions, n, SectionRanges, I) => Holds(regions', n, SectionRanges, I)
      BY <1>3, <2>2, SortedIsHeld
    <3> QED
      BY <1>2, <1>4, <1>5, <2>1, <3>1 DEF SectionsAreHeld
  <2>5. SegmentsAreHeld'
    <3>1. \A I : Holds(regions, n, SegmentRanges, I) => Holds(regions', n, SegmentRanges, I)
      BY <1>3, <2>2, SortedIsHeld
    <3> QED
      BY <1>2, <1>4, <1>5, <2>1, <3>1 DEF SegmentsAreHeld
  <2> QED
    BY <1>1, <2>3, <2>4, <2>5 DEF CInv
<1>11. CASE UNCHANGED vars
  <2>1. UNCHANGED <<file, pc, seen, anySection, regions>>
    BY <1>11 DEF vars, mapVars
  <2>2. PhasesFollow'
    BY <1>2, <2>1 DEF PhasesFollow
  <2>3. SectionsAreHeld'
    BY <1>2, <1>5, <2>1 DEF SectionsAreHeld
  <2>4. SegmentsAreHeld'
    BY <1>2, <1>5, <2>1 DEF SegmentsAreHeld
  <2> QED
    BY <1>1, <2>2, <2>3, <2>4 DEF CInv
<1> QED
  BY <1>6, <1>7, <1>8, <1>9, <1>10, <1>11 DEF Next

\* The contents of the map are as the invariant says in every state.
LEMMA AlwaysHeld == Spec => []CInv
  BY InitIsHeld, NextIsHeld, PTL DEF Spec
-----------------------------------------------------------------------------
\* Regions that are held and sorted do not overlap.
LEMMA HeldInOrder ==
  ASSUME NEW n, NEW rs, NEW I, RegionsAreBacked, regions \in Seq(Region),
         Holds(regions, n, rs, I),
         \A i, j \in DOMAIN regions : i < j => regions[i].start <= regions[j].start
  PROVE  \A i, j \in DOMAIN regions : i < j => regions[i].end <= regions[j].start
<1> SUFFICES ASSUME NEW i \in DOMAIN regions, NEW j \in DOMAIN regions, i < j
             PROVE  regions[i].end <= regions[j].start
  OBVIOUS
<1>1. regions[i] \in Region /\ regions[j] \in Region
  OBVIOUS
<1>2. i # j
  OBVIOUS
<1>3. /\ regions[i].start \in Nat /\ regions[i].end \in Nat
      /\ regions[j].start \in Nat /\ regions[j].end \in Nat
  BY <1>1, WordLimitAssumption DEF Region
<1>4. regions[j].start < regions[j].end /\ regions[i].start <= regions[j].start
  BY DEF RegionsAreBacked
<1>5. regions[i].end <= regions[j].start \/ regions[j].end <= regions[i].start
  BY <1>2 DEF Holds, Apart
<1> QED
  BY <1>3, <1>4, <1>5

\* For every file: the regions are sorted and, of a file whose ranges do not
\* overlap, neither do they, as the queries of CodeMap need.
THEOREM RegionsStayInOrder == Spec => []RegionsAreInOrder
<1>1. CInv => RegionsAreInOrder
  <2> SUFFICES ASSUME CInv, pc = "done" PROVE RegionsAreInOrder
    BY DEF RegionsAreInOrder
  <2> DEFINE n == Len(file.bytes)
  <2>1. /\ RegionsAreBacked /\ regions \in Seq(Region) /\ anySection \in BOOLEAN
        /\ \A i, j \in DOMAIN regions : i < j => regions[i].start <= regions[j].start
    BY DEF CInv, IInv, TypeOK, PhasesFollow
  <2>2. ASSUME anySection, AreDisjoint(SectionRanges)
        PROVE  \A i, j \in DOMAIN regions : i < j => regions[i].end <= regions[j].start
    BY <2>1, <2>2, HeldInOrder DEF CInv, SectionsAreHeld
  <2>3. ASSUME ~ anySection, file.sections = <<>>, AreDisjoint(SegmentRanges)
        PROVE  \A i, j \in DOMAIN regions : i < j => regions[i].end <= regions[j].start
    BY <2>1, <2>3, HeldInOrder DEF CInv, SegmentsAreHeld
  <2> QED
    BY <2>1, <2>2, <2>3 DEF RegionsAreInOrder
<1> QED
  BY <1>1, AlwaysHeld, PTL

\* The bytes of a range that a file of n bytes has.
BytesOf(r, n) == {<<r.start + k, r.from + k>> : k \in {k \in 0 .. r.size - 1 : r.from + k < n}}

\* A region has the bytes of its range.
LEMMA BytesOfRegion ==
  ASSUME NEW r, r.start \in Nat, r.size \in Nat, r.from \in Nat, NEW n \in Nat,
         HasBytes(r, n), NEW q, q = RegionOf(r, n)
  PROVE  {<<q.start + k, q.from + k>> : k \in 0 .. q.end - q.start - 1} = BytesOf(r, n)
<1> DEFINE m == Lesser(r.size, n - r.from)
<1>1. q.start = r.start /\ q.from = r.from /\ q.end = r.start + m
  BY DEF RegionOf
<1>2. m \in Nat
  BY DEF HasBytes, Lesser
<1>3. q.end - q.start - 1 = m - 1
  BY <1>1, <1>2
<1>4. 0 .. m - 1 = {k \in 0 .. r.size - 1 : r.from + k < n}
  BY DEF HasBytes, Lesser
<1> QED
  BY <1>1, <1>3, <1>4 DEF BytesOf

\* A range without bytes in the file contributes none.
LEMMA BytesOfMissing ==
  ASSUME NEW r, r.size \in Nat, r.from \in Nat, NEW n \in Nat, ~ HasBytes(r, n)
  PROVE  BytesOf(r, n) = {}
  BY DEF BytesOf, HasBytes

\* The regions that are held have the bytes of their ranges.
LEMMA HeldBytes ==
  ASSUME NEW rs, AreRanges(rs), NEW I \in SUBSET DOMAIN rs, NEW J \in SUBSET I,
         Len(file.bytes) \in Nat,
         \A i \in I : i \in J <=> HasBytes(rs[i], Len(file.bytes)),
         Holds(regions, Len(file.bytes), rs, J)
  PROVE  RegionBytes = Mapped({rs[i] : i \in I})
<1> DEFINE n == Len(file.bytes)
           InRegion(r) == {<<r.start + k, r.from + k>> : k \in 0 .. r.end - r.start - 1}
<1>1. RegionBytes = UNION {InRegion(q) : q \in {RegionOf(rs[i], n) : i \in J}}
  BY DEF RegionBytes, Holds
<1>2. \A i \in J : InRegion(RegionOf(rs[i], n)) = BytesOf(rs[i], n)
  BY BytesOfRegion DEF AreRanges
<1>3. \A i \in I \ J : BytesOf(rs[i], n) = {}
  BY BytesOfMissing DEF AreRanges
<1>4. Mapped({rs[i] : i \in I}) = UNION {BytesOf(r, n) : r \in {rs[i] : i \in I}}
  BY DEF Mapped, BytesOf
<1> HIDE DEF InRegion, n
<1>5. UNION {InRegion(q) : q \in {RegionOf(rs[i], n) : i \in J}} = UNION {BytesOf(rs[i], n) : i \in J}
  BY <1>2
<1>6. UNION {BytesOf(r, n) : r \in {rs[i] : i \in I}} = UNION {BytesOf(rs[i], n) : i \in J}
  BY <1>3
<1> QED
  BY <1>1, <1>4, <1>5, <1>6

\* For every linked file: the finished map holds each byte of the code sections,
\* or without section headers of the code segments, that the file has, at the
\* address it is loaded at, and nothing else.
THEOREM RegionsStayTheCode == Spec => []RegionsAreTheCode
<1>1. CInv => RegionsAreTheCode
  <2> SUFFICES ASSUME CInv, pc = "done" PROVE RegionsAreTheCode
    BY DEF RegionsAreTheCode
  <2> DEFINE n == Len(file.bytes)
  <2>1. IsFile(file) /\ n \in Nat
    BY DEF CInv, IInv, TypeOK, IsFile
  <2>2. ASSUME AreDisjoint(SectionRanges), Mapped({SectionRange(s) : s \in CodeSections}) # {}
        PROVE  RegionBytes = Mapped({SectionRange(s) : s \in CodeSections})
    <3> DEFINE I == {i \in LoadedSections : IsCode(file.sections[i])}
    <3>1. /\ AreRanges(SectionRanges) /\ DOMAIN SectionRanges = LoadedSections
      BY <2>1, SectionRangesAreRanges
    <3>2. {SectionRange(s) : s \in CodeSections} = {SectionRanges[i] : i \in I}
      BY DEF CodeSections, SectionRanges, LoadedSections, IsCode
    <3>3. AllSections = {i \in I : HasBytes(SectionRanges[i], n)}
      BY <2>1 DEF AllSections, PresentSections, LoadedSections, IsFile
    <3>4. AllSections # {}
      <4> SUFFICES ASSUME AllSections = {} PROVE FALSE
        OBVIOUS
      <4>1. \A i \in I : BytesOf(SectionRanges[i], n) = {}
        BY <2>1, <3>1, <3>3, BytesOfMissing DEF AreRanges
      <4>2. Mapped({SectionRanges[i] : i \in I}) = {}
        <5>1. Mapped({SectionRanges[i] : i \in I})
                = UNION {BytesOf(r, n) : r \in {SectionRanges[i] : i \in I}}
          BY DEF Mapped, BytesOf
        <5> QED
          BY <4>1, <5>1
      <4> QED
        BY <2>2, <3>2, <4>2
    <3>5. Holds(regions, n, SectionRanges, AllSections)
      BY <2>2, <3>4 DEF CInv, SectionsAreHeld
    <3> HIDE DEF I
    <3>6. /\ I \in SUBSET DOMAIN SectionRanges
          /\ AllSections \in SUBSET I
          /\ \A i \in I : i \in AllSections <=> HasBytes(SectionRanges[i], n)
      BY <3>1, <3>3 DEF I
    <3>7. RegionBytes = Mapped({SectionRanges[i] : i \in I})
      BY <2>1, <3>1, <3>5, <3>6, HeldBytes
    <3> QED
      BY <3>2, <3>7
  <2>3. ASSUME AreDisjoint(SegmentRanges), file.sections = <<>>
        PROVE  RegionBytes = Mapped({SegmentRange(s) : s \in CodeSegments})
    <3> DEFINE I == {i \in LoadedSegments : file.segments[i].executable}
    <3>1. /\ AreRanges(SegmentRanges) /\ DOMAIN SegmentRanges = LoadedSegments
      BY <2>1, SegmentRangesAreRanges
    <3>2. {SegmentRange(s) : s \in CodeSegments} = {SegmentRanges[i] : i \in I}
      BY DEF CodeSegments, SegmentRanges, LoadedSegments
    <3>3. AllSegments = {i \in I : HasBytes(SegmentRanges[i], n)}
      BY <2>1 DEF AllSegments, PresentSegments, LoadedSegments, IsFile
    <3>4. Holds(regions, n, SegmentRanges, AllSegments)
      BY <2>3 DEF CInv, SegmentsAreHeld
    <3> HIDE DEF I
    <3>5. /\ I \in SUBSET DOMAIN SegmentRanges
          /\ AllSegments \in SUBSET I
          /\ \A i \in I : i \in AllSegments <=> HasBytes(SegmentRanges[i], n)
      BY <3>1, <3>3 DEF I
    <3>6. RegionBytes = Mapped({SegmentRanges[i] : i \in I})
      BY <2>1, <3>1, <3>4, <3>5, HeldBytes
    <3> QED
      BY <3>2, <3>6
  <2> QED
    BY <2>2, <2>3 DEF RegionsAreTheCode
<1> QED
  BY <1>1, AlwaysHeld, PTL
==============================================================================
