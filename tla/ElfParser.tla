------------------------------- MODULE ElfParser -------------------------------
(***************************************************************************)
(* ElfParser::parseBytes: reads the headers of a file, then its symbols.   *)
(* The symbols come from the symbol sections or, when the section headers  *)
(* are gone, from the tables that PT_DYNAMIC points to; those do not say   *)
(* how long they are, and the hash tables are asked instead.  Every table  *)
(* is read an entry at a time, as far as the file goes.                    *)
(*                                                                         *)
(* The offsets and the sizes of structures that the code writes as numbers *)
(* are those of the structures here when a u16, a u32 and a u64 have 2, 4  *)
(* and 8 bytes.                                                            *)
(***************************************************************************)
EXTENDS ByteReader

CONSTANTS
  Files,           \* the files to parse
  kMaxSections,    \* 1'000'000 in the code
  kMaxSymbols      \* 5'000'000 in the code

ASSUME FilesAssumption == \A f \in Files : f.bytes \in Seq(Byte)

ASSUME LimitsAssumption == kMaxSections \in Nat /\ kMaxSymbols \in Nat

VARIABLES
  file,            \* its bytes, and what its writer put into its symbol tables
  pc,              \* "header", "segments", "sections", "sectionHeaders", "symbols",
                   \* "sectionSymbols", "dynamic", "tags", "tables", "hash", "nchain",
                   \* "buckets", "chain", "dynamicSymbols", "done" or "failed"
  header,
  segments, sections, symbols,
  sectionCount, sectionNameIndex,
  next,            \* of the table being read, the entry to read
  current,         \* the last section looked at for symbols
  table,           \* the symbol table being read
  tags,            \* what PT_DYNAMIC says
  data             \* where the hash table being read is, and how long

known == <<file, header, sectionCount, sectionNameIndex>>
tables == <<segments, sections, symbols>>
reading == <<current, table, tags, data>>
vars == <<pc, next, known, tables, reading>>

bytes == file.bytes
-----------------------------------------------------------------------------
\* A structure of the given fields: where each is, and how it is stored.
Struct(fields) ==
  LET end[i \in 0 .. Len(fields)] == IF i = 0 THEN 0 ELSE end[i - 1] + Width(fields[i][2])
      Place(name) == CHOOSE i \in DOMAIN fields : fields[i][1] = name
  IN [size |-> end[Len(fields)],
      fields |-> [name \in {fields[i][1] : i \in DOMAIN fields} |->
                    [offset |-> end[Place(name) - 1], kind |-> fields[Place(name)][2]]]]

Ehdr == Struct(
  << <<"mag0", "u8">>, <<"mag1", "u8">>, <<"mag2", "u8">>, <<"mag3", "u8">>, <<"class", "u8">>,
     <<"data", "u8">>, <<"ident6", "u8">>, <<"ident7", "u8">>, <<"ident8", "u8">>,
     <<"ident9", "u8">>, <<"ident10", "u8">>, <<"ident11", "u8">>, <<"ident12", "u8">>,
     <<"ident13", "u8">>, <<"ident14", "u8">>, <<"ident15", "u8">>, <<"type", "u16">>,
     <<"machine", "u16">>, <<"version", "u32">>, <<"entry", "u64">>,
     <<"phoff", "u64">>, <<"shoff", "u64">>, <<"flags", "u32">>, <<"ehsize", "u16">>,
     <<"phentsize", "u16">>, <<"phnum", "u16">>, <<"shentsize", "u16">>, <<"shnum", "u16">>,
     <<"shstrndx", "u16">> >>)

Phdr == Struct(
  << <<"type", "u32">>, <<"flags", "u32">>, <<"fileOffset", "u64">>, <<"virtualAddress", "u64">>,
     <<"paddr", "u64">>, <<"fileSize", "u64">>, <<"memorySize", "u64">>, <<"align", "u64">> >>)

Shdr == Struct(
  << <<"nameOffset", "u32">>, <<"type", "u32">>, <<"flags", "u64">>, <<"address", "u64">>,
     <<"fileOffset", "u64">>, <<"size", "u64">>, <<"link", "u32">>, <<"info", "u32">>,
     <<"addralign", "u64">>, <<"entrySize", "u64">> >>)

Sym == Struct(
  << <<"nameOffset", "u32">>, <<"info", "u8">>, <<"other", "u8">>, <<"sectionIndex", "u16">>,
     <<"value", "u64">>, <<"size", "u64">> >>)

Dyn == Struct(<< <<"tag", "u64">>, <<"val", "u64">> >>)

\* The structure at p.
Read(p, struct) ==
  [name \in DOMAIN struct.fields |->
     Value(bytes, p + struct.fields[name].offset, struct.fields[name].kind)]

\* strideOf: an entry size that is too small is not believed.
StrideOf(declared, struct) == Max({declared, struct.size})

\* Where entry k of a table is: a 64-bit sum, which may wrap.
EntryAt(offset, k, stride) == (offset + k * stride) % WordLimit

Fits(p, struct) == InBounds(bytes, p, struct.size)
-----------------------------------------------------------------------------
kElfMag == <<127, 69, 76, 70>>
kElfClass64 == 2
kElfData2Lsb == 1
kEmAArch64 == 183
kShnXIndex == 256 ^ Widths["u16"] - 1
kShtNull == 0
kShtSymtab == 2
kShtNobits == 8
kShtDynsym == 11
kPtLoad == 1
kPtDynamic == 2
kPtGnuEhFrame == \h6474e550 % WordLimit
kDtNull == 0

\* The tags that matter, from DT_HASH to DT_GNU_HASH.
TagNames ==
  4 :> "hash" @@ 5 :> "strtab" @@ 6 :> "symtab" @@ 10 :> "strSize" @@ 11 :> "symEntSize"
    @@ (\h6ffffef5 % WordLimit) :> "gnuHash"

\* write, alloc and execinstr are the bits 1, 2 and 4 of a section's flags,
\* exec the bit 1 of a segment's.
HasFlag(flags, bit) == (flags \div bit) % 2 = 1

ElfSection(s) ==
  [name |-> s.name, allocated |-> HasFlag(s.flags, 2), executable |-> HasFlag(s.flags, 4),
   hasFileData |-> s.type \notin {kShtNobits, kShtNull},
   address |-> s.address, fileOffset |-> s.fileOffset, size |-> s.size]

ElfSegment(s) ==
  [type |-> CASE s.type = kPtLoad -> "load" [] s.type = kPtGnuEhFrame -> "ehFrame"
              [] OTHER -> "other",
   executable |-> HasFlag(s.flags, 1), fileOffset |-> s.fileOffset,
   virtualAddress |-> s.virtualAddress, fileSize |-> s.fileSize]

\* The image as it is known so far, and the queries it answers.
image ==
  [bytes |-> bytes, sections |-> [i \in DOMAIN sections |-> ElfSection(sections[i])],
   segments |-> [i \in DOMAIN segments |-> ElfSegment(segments[i])]]

Image == INSTANCE ElfImage WITH file <- image, Files <- {}, Names <- Seq(Byte)
-----------------------------------------------------------------------------
NoTable == [range |-> [from |-> 0, size |-> 0], offset |-> 0, stride |-> 1, count |-> 0,
            strings |-> [from |-> 0, size |-> 0], stringsOffset |-> 0, origin |-> "dynsym"]

NoTags == [symtab |-> 0, strtab |-> 0, hash |-> 0, gnuHash |-> 0, strSize |-> 0,
           symEntSize |-> Sym.size]

Init ==
  /\ file \in Files
  /\ pc = "header" /\ header = Read(0, Struct(<<>>))
  /\ segments = <<>> /\ sections = <<>> /\ symbols = <<>>
  /\ sectionCount = 0 /\ sectionNameIndex = 0
  /\ next = 0 /\ current = 0 /\ table = NoTable /\ tags = NoTags
  /\ data = Image!NoData

Go(label) == pc' = label /\ next' = 0

\* A step that only goes on to the next part.
Jump(label) == Go(label) /\ UNCHANGED <<known, tables, reading>>

HeaderIsGood(h) ==
  /\ <<h.mag0, h.mag1, h.mag2, h.mag3>> = kElfMag
  /\ h.class = kElfClass64 /\ h.data = kElfData2Lsb /\ h.machine = kEmAArch64

\* Which of the errors is thrown does not matter here.
ValidateHeader ==
  /\ pc = "header"
  /\ Fits(0, Ehdr) /\ HeaderIsGood(Read(0, Ehdr))
  /\ header' = Read(0, Ehdr)
  /\ Go("segments")
  /\ UNCHANGED <<tables, reading, file, sectionCount, sectionNameIndex>>

RejectHeader ==
  /\ pc = "header"
  /\ Fits(0, Ehdr) => ~HeaderIsGood(Read(0, Ehdr))
  /\ Jump("failed")
-----------------------------------------------------------------------------
SegmentAt(k) == EntryAt(header.phoff, k, StrideOf(header.phentsize, Phdr))

HasSegment ==
  /\ header.phoff # 0 /\ next < header.phnum
  /\ Fits(SegmentAt(next), Phdr)

ReadSegment ==
  /\ pc = "segments" /\ HasSegment
  /\ segments' = Append(segments, Read(SegmentAt(next), Phdr))
  /\ next' = next + 1
  /\ UNCHANGED <<known, reading, sections, symbols, pc>>

EndOfSegments ==
  /\ pc = "segments" /\ ~HasSegment
  /\ Jump("sections")

\* Numbers that do not fit into the header are kept in the first section header.
SectionHeader == Read(header.shoff, Shdr)

Escapes == (header.shnum = 0 \/ header.shstrndx = kShnXIndex) /\ Fits(header.shoff, Shdr)

SectionCount ==
  IF header.shnum = 0 /\ Escapes THEN SectionHeader.size ELSE header.shnum

SectionNameIndex ==
  IF header.shstrndx = kShnXIndex /\ Escapes THEN SectionHeader.link ELSE header.shstrndx

BeginSections ==
  /\ pc = "sections"
  /\ LET count == IF header.shoff = 0 THEN 0 ELSE SectionCount IN
       /\ Go(CASE count = 0 -> "symbols"
               [] count > kMaxSections -> "failed"
               [] OTHER -> "sectionHeaders")
       /\ sectionCount' = count
  /\ sectionNameIndex' = IF header.shoff = 0 THEN 0 ELSE SectionNameIndex
  /\ UNCHANGED <<tables, reading, file, header>>

SectionAt(k) == EntryAt(header.shoff, k, StrideOf(header.shentsize, Shdr))

HasSectionHeader == next < sectionCount /\ Fits(SectionAt(next), Shdr)

\* The name is found later.
UnnamedSection(p) ==
  LET entry == Read(p, Shdr)
  IN [field \in DOMAIN entry \cup {"name"} |-> IF field = "name" THEN <<>> ELSE entry[field]]

ReadSection ==
  /\ pc = "sectionHeaders" /\ HasSectionHeader
  /\ sections' = Append(sections, UnnamedSection(SectionAt(next)))
  /\ next' = next + 1
  /\ UNCHANGED <<known, reading, segments, symbols, pc>>

StringOf(p) == IF p < Len(bytes) THEN StringAt(bytes, p) ELSE <<>>

\* resolveSectionNames, which parseSections calls at its end.
ResolveSectionNames ==
  /\ pc = "sectionHeaders" /\ ~HasSectionHeader
  /\ sections' =
       IF sectionNameIndex >= Len(sections) THEN sections
       ELSE LET strtab == sections[sectionNameIndex + 1]
            IN [i \in DOMAIN sections |->
                  [sections[i] EXCEPT !.name =
                     StringOf((strtab.fileOffset + sections[i].nameOffset) % WordLimit)]]
  /\ Go("symbols")
  /\ UNCHANGED <<known, reading, segments, symbols>>
-----------------------------------------------------------------------------
\* The symbol of the table's entry k.  Both loops read it alike, one from the
\* file and one from the part of the file that is loaded at the table.
TableEntryAt(k) == EntryAt(table.offset, k, table.stride)

HasSymbol ==
  next < table.count /\ TableEntryAt(next) + Sym.size <= table.range.size

NameAt(offset) ==
  LET p == (table.stringsOffset + offset) % WordLimit
      strings == SubSeq(bytes, table.strings.from + 1, table.strings.from + table.strings.size)
  IN IF offset # 0 /\ p < table.strings.size THEN StringAt(strings, p) ELSE <<>>

SymbolAt(p) ==
  LET entry == Read(p, Sym)
  IN [name |-> NameAt(entry.nameOffset), info |-> entry.info, sectionIndex |-> entry.sectionIndex,
      value |-> entry.value, size |-> entry.size, origin |-> table.origin]

ReadSymbol ==
  /\ pc \in {"sectionSymbols", "dynamicSymbols"} /\ HasSymbol
  /\ symbols' = Append(symbols, SymbolAt(table.range.from + TableEntryAt(next)))
  /\ next' = next + 1
  /\ UNCHANGED <<known, reading, segments, sections, pc>>

EndOfTable ==
  /\ pc \in {"sectionSymbols", "dynamicSymbols"} /\ ~HasSymbol
  /\ Jump(IF pc = "sectionSymbols" THEN "symbols" ELSE "done")

WholeFile == [from |-> 0, size |-> Len(bytes)]

IsSymbolTable(section) == section.type \in {kShtSymtab, kShtDynsym}

\* The sections with symbols after the i-th.
SymbolSections(i) == {k \in i + 1 .. Len(sections) : IsSymbolTable(sections[k])}

SectionTable(section) ==
  LET stride == StrideOf(section.entrySize, Sym)
  IN [range |-> WholeFile, offset |-> section.fileOffset, stride |-> stride,
      count |-> section.size \div stride,
      strings |-> WholeFile, stringsOffset |-> sections[section.link + 1].fileOffset,
      origin |-> IF section.type = kShtSymtab THEN "symtab" ELSE "dynsym"]

\* Mutant of BeginSectionTable: the table that is skipped comes again.
StuckSectionTable ==
  /\ pc = "symbols" /\ SymbolSections(current) # {}
  /\ LET k == Image!FirstOf(SymbolSections(current)) IN
       IF sections[k].link < Len(sections)
       THEN current' = k /\ table' = SectionTable(sections[k]) /\ Go("sectionSymbols")
       ELSE UNCHANGED <<pc, next, current, table>>
  /\ UNCHANGED <<known, tables, tags, data>>

\* A table whose strings are not found is skipped.
BeginSectionTable ==
  /\ pc = "symbols" /\ SymbolSections(current) # {}
  /\ LET k == Image!FirstOf(SymbolSections(current)) IN
       /\ current' = k
       /\ IF sections[k].link < Len(sections)
          THEN table' = SectionTable(sections[k]) /\ Go("sectionSymbols")
          ELSE UNCHANGED <<pc, next, table>>
  /\ UNCHANGED <<known, tables, tags, data>>

\* PT_DYNAMIC is for files without any symbol section.
EndOfSectionTables ==
  /\ pc = "symbols" /\ SymbolSections(current) = {}
  /\ Jump(IF SymbolSections(0) = {} THEN "dynamic" ELSE "done")
-----------------------------------------------------------------------------
\* findSegment
SegmentsOf(type) == {i \in DOMAIN segments : segments[i].type = type}

Dynamic == segments[Image!FirstOf(SegmentsOf(kPtDynamic))]

LocateDynamic ==
  /\ pc = "dynamic"
  /\ Jump(IF SegmentsOf(kPtDynamic) = {} THEN "done"
          ELSE IF InBounds(bytes, Dynamic.fileOffset, Dynamic.fileSize) THEN "tags" ELSE "done")

TagAt(k) == Read(EntryAt(Dynamic.fileOffset, k, Dyn.size), Dyn)

HasTag == next < Dynamic.fileSize \div Dyn.size /\ TagAt(next).tag # kDtNull

\* The last of equal tags counts, and an entry size of nothing does not.
WithTag(dyn) ==
  IF dyn.tag \in DOMAIN TagNames /\ (TagNames[dyn.tag] = "symEntSize" => dyn.val # 0)
  THEN [tags EXCEPT ![TagNames[dyn.tag]] = dyn.val] ELSE tags

ReadTag ==
  /\ pc = "tags" /\ HasTag
  /\ tags' = WithTag(TagAt(next))
  /\ next' = next + 1
  /\ UNCHANGED <<known, tables, current, table, data, pc>>

EndOfTags ==
  /\ pc = "tags" /\ ~HasTag
  /\ Jump("tables")
-----------------------------------------------------------------------------
HasDynamicTable ==
  /\ tags.symtab # 0 /\ tags.strtab # 0
  /\ Image!DataAt(tags.symtab) # Image!NoData /\ Image!DataAt(tags.strtab) # Image!NoData

CutTo(range, size) ==
  IF size = 0 THEN range ELSE [range EXCEPT !.size = Image!Lesser(range.size, size)]

LocateTables ==
  /\ pc = "tables" /\ HasDynamicTable
  /\ table' = [range |-> Image!DataAt(tags.symtab), offset |-> 0,
               stride |-> StrideOf(tags.symEntSize, Sym), count |-> 0,
               strings |-> CutTo(Image!DataAt(tags.strtab), tags.strSize), stringsOffset |-> 0,
               origin |-> "dynsym"]
  /\ Go("hash")
  /\ UNCHANGED <<known, tables, current, tags, data>>

NoDynamicTable ==
  /\ pc = "tables" /\ ~HasDynamicTable
  /\ Jump("done")

\* Mutant of Counted: what is loaded there does not bound the table from above but
\* from below.
CountedUp(count) ==
  LET most == table.range.size \div table.stride
  IN table' = [table EXCEPT !.count = Max({count, most})] /\ Go("dynamicSymbols")

\* A table is no longer than what is loaded there; it may be that long if nothing
\* says how long it is.
Counted(count) ==
  LET most == table.range.size \div table.stride
  IN /\ table' = [table EXCEPT !.count =
                                  Min({IF count = 0 THEN most ELSE count, most, kMaxSymbols})]
     /\ Go("dynamicSymbols")

\* The strings are taken to follow the symbols.
EstimatedCount ==
  IF tags.strtab > tags.symtab THEN (tags.strtab - tags.symtab) \div table.stride ELSE 0

\* Mutant of LoadHash: what is loaded there is not asked for its size.
LoadAnyHash(addr, n) ==
  data' = IF addr = 0 THEN Image!NoData ELSE Image!DataAt(addr)

\* A hash table: what is loaded at its address, if that holds the first n u32.
LoadHash(addr, n) ==
  data' = IF addr = 0 THEN Image!NoData
          ELSE LET loaded == Image!DataAt(addr)
               IN IF loaded.size < n * Widths["u32"] THEN Image!NoData ELSE loaded

\* The u32 at an offset in the hash table.
Word(offset) == Value(bytes, data.from + offset, "u32")
WordOf(k) == Word(k * Widths["u32"])

\* What is loaded there holds a u32 at that offset, and the file has it.
HoldsWord(offset) ==
  /\ offset + Widths["u32"] <= data.size
  /\ InBounds(bytes, data.from + offset, Widths["u32"])

LoadDtHash ==
  /\ pc = "hash"
  /\ LoadHash(tags.hash, 2)
  /\ Go("nchain")
  /\ UNCHANGED <<known, tables, current, table, tags>>

\* DT_HASH has a chain for each symbol.
HasChains == data # Image!NoData /\ WordOf(1) > 0

CountChains ==
  /\ pc = "nchain" /\ HasChains
  /\ Counted(WordOf(1))
  /\ UNCHANGED <<known, tables, current, tags, data>>

LoadGnuHash ==
  /\ pc = "nchain" /\ ~HasChains
  /\ LoadHash(tags.gnuHash, 4)
  /\ Go("buckets")
  /\ UNCHANGED <<known, tables, current, table, tags>>

\* DT_GNU_HASH: four numbers, a filter, the first symbol of each bucket, and the
\* hashes of the symbols from the first hashed one on; the last hash of a chain
\* is odd.
BucketsOff == 4 * Widths["u32"] + WordOf(2) * Widths["u64"]
ChainOff == BucketsOff + WordOf(0) * Widths["u32"]
SymOffset == WordOf(1)
LastSym == Max({Word(BucketsOff + b * Widths["u32"]) : b \in 0 .. WordOf(0) - 1})

HasBuckets ==
  /\ data # Image!NoData
  /\ WordOf(0) > 0 /\ WordOf(2) > 0
  /\ ChainOff <= data.size

NoBuckets ==
  /\ pc = "buckets" /\ ~HasBuckets
  /\ Counted(EstimatedCount)
  /\ UNCHANGED <<known, tables, current, tags, data>>

NothingHashed ==
  /\ pc = "buckets" /\ HasBuckets /\ LastSym < SymOffset
  /\ Counted(SymOffset)
  /\ UNCHANGED <<known, tables, current, tags, data>>

BeginChain ==
  /\ pc = "buckets" /\ HasBuckets /\ LastSym >= SymOffset
  /\ next' = LastSym - SymOffset
  /\ pc' = "chain"
  /\ UNCHANGED <<known, tables, reading>>

HashAt(k) == ChainOff + k * Widths["u32"]

HasHash == HashAt(next) + Widths["u32"] <= data.size

SkipHash ==
  /\ pc = "chain" /\ HasHash /\ Word(HashAt(next)) % 2 = 0
  /\ next' = next + 1
  /\ UNCHANGED <<known, tables, reading, pc>>

EndOfChain ==
  /\ pc = "chain" /\ HasHash /\ Word(HashAt(next)) % 2 = 1
  /\ Counted(SymOffset + next + 1)
  /\ UNCHANGED <<known, tables, current, tags, data>>

\* Mutant of CutChain: the chain is taken to end with the data.
BelievedCutChain ==
  /\ pc = "chain" /\ ~HasHash
  /\ Counted(SymOffset + next)
  /\ UNCHANGED <<known, tables, current, tags, data>>

CutChain ==
  /\ pc = "chain" /\ ~HasHash
  /\ Counted(EstimatedCount)
  /\ UNCHANGED <<known, tables, current, tags, data>>
-----------------------------------------------------------------------------
Next ==
  \/ ValidateHeader \/ RejectHeader
  \/ ReadSegment \/ EndOfSegments
  \/ BeginSections \/ ReadSection \/ ResolveSectionNames
  \/ BeginSectionTable \/ EndOfSectionTables
  \/ LocateDynamic \/ ReadTag \/ EndOfTags \/ LocateTables \/ NoDynamicTable
  \/ LoadDtHash \/ CountChains \/ LoadGnuHash
  \/ NoBuckets \/ NothingHashed \/ BeginChain \/ SkipHash \/ EndOfChain \/ CutChain
  \/ ReadSymbol \/ EndOfTable

Spec == Init /\ [][Next]_vars

\* Every step changes one of these.
progress == <<pc, next, current>>

FairSpec == Spec /\ WF_progress(Next)
-----------------------------------------------------------------------------
\* A symbol without what a cut file may lose of its name.
Nameless(symbol) == [symbol EXCEPT !.name = <<>>]

\* However the file says where its symbols are and how many there are, every
\* symbol that can be found is found, in the order of its table.
FindsEverySymbol ==
  pc = "done" /\ ~file.damaged => IsPrefix(SubSeq(file.written, 1, file.owed), symbols)

\* A file cut anywhere, in a header, a table, a hash chain or a name, costs what
\* was cut and no more than that: no symbol is made up of the bytes that follow a
\* table, and none is mistaken for another.
CutFilesLoseOnlyTheEnd ==
  ~file.damaged =>
    /\ Len(symbols) <= Len(file.written)
    /\ \A i \in DOMAIN symbols :
         /\ Nameless(symbols[i]) = Nameless(file.written[i])
         /\ IsPrefix(symbols[i].name, file.written[i].name)

\* The tags, the hash tables and the symbols are read at places worked out from
\* numbers of the file that no step checks again.  None of these reads overruns:
\* the exception would leave parseBytes, and one damaged table would cost the
\* image of the whole file.
ReadsStayInBounds ==
  /\ pc = "tags" /\ next < Dynamic.fileSize \div Dyn.size =>
       Fits(EntryAt(Dynamic.fileOffset, next, Dyn.size), Dyn)
  /\ pc = "nchain" /\ data # Image!NoData => HoldsWord(Widths["u32"])
  /\ pc = "buckets" /\ data # Image!NoData =>
       /\ HoldsWord(2 * Widths["u32"])
       /\ HasBuckets =>
            \A b \in 0 .. WordOf(0) - 1 : HoldsWord(BucketsOff + b * Widths["u32"])
  /\ pc \in {"sectionSymbols", "dynamicSymbols"} /\ HasSymbol =>
       Fits(table.range.from + TableEntryAt(next), Sym)

\* Every parse ends, with an image or with an error, whatever the numbers in the
\* headers.
ParseReturns == <>(pc \in {"done", "failed"})
=============================================================================
