------------------------------- MODULE ElfImage -------------------------------
(***************************************************************************)
(* A parsed ELF file and the query the analyses make of it: which bytes of *)
(* the file are loaded at an address (elf/elf_image, elf/elf_section,      *)
(* elf/elf_segment).  The parser takes headers as they come: an offset, an *)
(* address or a size may be any word.                                      *)
(***************************************************************************)
EXTENDS ByteReader

CONSTANTS
  Files,           \* the files to analyse
  Names            \* what their sections can be called

VARIABLE file      \* [bytes, sections, segments], chosen at the start

Section ==
  [name : Names, allocated : BOOLEAN, executable : BOOLEAN, hasFileData : BOOLEAN,
   address : Nat, fileOffset : Nat, size : Nat]

Segment ==
  [type : {"load", "ehFrame", "other"}, executable : BOOLEAN,
   fileOffset : Nat, virtualAddress : Nat, fileSize : Nat]

IsFile(f) ==
  /\ f.bytes \in Seq(Byte)
  /\ f.sections \in Seq(Section)
  /\ \A i \in DOMAIN f.sections :
       LET s == f.sections[i] IN {s.address, s.fileOffset, s.size} \subseteq 0 .. WordLimit - 1
  /\ f.segments \in Seq(Segment)
  /\ \A i \in DOMAIN f.segments :
       LET s == f.segments[i]
       IN {s.virtualAddress, s.fileOffset, s.fileSize} \subseteq 0 .. WordLimit - 1

ASSUME FilesAssumption == \A f \in Files : IsFile(f)

FileInit == file \in Files
-----------------------------------------------------------------------------
Lesser(a, b) == IF a <= b THEN a ELSE b

FirstOf(S) == CHOOSE i \in S : \A j \in S : i <= j

IsCode(section) ==
  section.allocated /\ section.executable /\ section.hasFileData /\ section.size > 0

\* The end of a range is a 64-bit sum: a range that wraps holds nothing.
InRange(addr, start, size) == start <= addr /\ addr < (start + size) % WordLimit

NoData == [from |-> 0, size |-> 0]

\* Mutant of DataFrom: what is available is not cut at the end of the file.
UncutDataFrom(addr, start, size, fileOffset) ==
  LET at == (fileOffset + (addr - start)) % WordLimit
  IN IF at >= Len(file.bytes) THEN NoData ELSE [from |-> at, size |-> size - (addr - start)]

\* Where the byte of addr is in the file, and how many follow it.
DataFrom(addr, start, size, fileOffset) ==
  LET at == (fileOffset + (addr - start)) % WordLimit
  IN IF at >= Len(file.bytes) THEN NoData
     ELSE [from |-> at, size |-> Lesser(size - (addr - start), Len(file.bytes) - at)]

\* The sections and the segments whose bytes are loaded at addr.
SectionsOver(addr) ==
  {i \in DOMAIN file.sections :
     LET s == file.sections[i]
     IN s.allocated /\ s.hasFileData /\ InRange(addr, s.address, s.size)}

LoadedOver(addr) ==
  {i \in DOMAIN file.segments :
     LET s == file.segments[i]
     IN s.type = "load" /\ InRange(addr, s.virtualAddress, s.fileSize)}

DataOfSection(addr) ==
  LET s == file.sections[FirstOf(SectionsOver(addr))]
  IN DataFrom(addr, s.address, s.size, s.fileOffset)

DataOfSegment(addr) ==
  LET s == file.segments[FirstOf(LoadedOver(addr))]
  IN DataFrom(addr, s.virtualAddress, s.fileSize, s.fileOffset)

\* Mutant of DataAt: the segments are asked first.
SegmentDataAt(addr) ==
  IF LoadedOver(addr) # {} THEN DataOfSegment(addr)
  ELSE IF SectionsOver(addr) # {} THEN DataOfSection(addr) ELSE NoData

\* dataAt: the first section that holds addr decides, then the first segment.
DataAt(addr) ==
  IF SectionsOver(addr) # {} THEN DataOfSection(addr)
  ELSE IF LoadedOver(addr) # {} THEN DataOfSegment(addr) ELSE NoData

SectionsNamed(name) == {i \in DOMAIN file.sections : file.sections[i].name = name}
==============================================================================
