---------------------------- MODULE EhFrameParser ----------------------------
(***************************************************************************)
(* EhFrameParser::parse: finds the unwind table of a file and walks over   *)
(* its entries.  A CIE says how the FDEs that refer to it encode their     *)
(* addresses; an FDE gives the range of one function.  An FDE is read in   *)
(* one step, a CIE field by field and its augmentation letter by letter.   *)
(* A read that runs out of the table throws, which ends the walk and keeps *)
(* the functions found so far.                                             *)
(***************************************************************************)
EXTENDS ElfImage

VARIABLES
  pc,            \* "idle", "locate", "entry", "cie", "fields", "augmentation",
                 \* "fde" or "done"
  ehFrameHdr,    \* the header: a Blob, its address and its bytes
  ehFrame,       \* and the table it may point to
  pos,           \* the position of the reader
  entryStart, idFieldPos, entryEnd,
  id,            \* the CIE pointer of the entry
  cieEncoding,   \* CIE start -> encoding of the FDEs that refer to it
  fdeEncoding,   \* that of the CIE being read
  fields,        \* of its fields before the augmentation data, those still to skip
  letters,       \* of its augmentation, those still to read
  augEnd,
  functions

entryVars == <<entryStart, idFieldPos, entryEnd, id>>
cieVars == <<fdeEncoding, fields, letters, augEnd>>
blobs == <<ehFrameHdr, ehFrame>>
parserVars == <<pc, blobs, pos, entryVars, cieEncoding, cieVars, functions>>
vars == <<file, parserVars>>
-----------------------------------------------------------------------------
kPeOmit == 255
kPeAbsptr == 0

\* How a pointer of each format is stored; the other formats are not known.
PointerField ==
  [f \in {0, 1, 2, 3, 4, 9, 10, 11, 12} |->
     CASE f \in {0, 4, 12} -> "u64" [] f = 1 -> "uleb" [] f = 2 -> "u16" [] f = 3 -> "u32"
       [] f = 9 -> "sleb" [] f = 10 -> "s16" [] f = 11 -> "s32"]

Format(encoding) == encoding % 16
Application(encoding) == ((encoding \div 16) % 8) * 16
IsIndirect(encoding) == encoding >= 128

IsKnown(encoding) == encoding # kPeOmit /\ Format(encoding) \in DOMAIN PointerField
Kind(encoding) == PointerField[Format(encoding)]

\* The position after a pointer: decodePointer reads none of an unknown format.
PointerEnd(b, p, encoding) ==
  IF IsKnown(encoding) THEN FieldEnd(b, p, Kind(encoding)) ELSE p

\* decodePointer answers, if the read does not throw.
Decodes(encoding) == IsKnown(encoding) /\ ~IsIndirect(encoding)

\* What a pointer at p is relative to: its own address, the table's, or nothing.
Base(encoding, vaddr, p) ==
  CASE Application(encoding) = 16 -> vaddr + p
    [] Application(encoding) = 48 -> vaddr
    [] OTHER -> 0

Pointer(b, p, encoding, vaddr) ==
  (Base(encoding, vaddr, p) + Value(b, p, Kind(encoding))) % WordLimit
-----------------------------------------------------------------------------
NoBlob == [vaddr |-> 0, bytes |-> <<>>]

\* The size bytes at address addr, as far as the file has them.
BlobAt(addr, size) ==
  LET data == DataAt(addr)
  IN [vaddr |-> addr,
      bytes |-> SubSeq(file.bytes, data.from + 1, data.from + Lesser(size, data.size))]

IsMapped(addr) == DataAt(addr) # NoData

SectionNamed(name) == file.sections[FirstOf(SectionsNamed(name))]

\* The first section of that name has bytes in the file.
HasSection(name) ==
  /\ SectionsNamed(name) # {}
  /\ SectionNamed(name).hasFileData
  /\ IsMapped(SectionNamed(name).address)

BlobOfSection(name) == BlobAt(SectionNamed(name).address, SectionNamed(name).size)

UnwindSegments ==
  {i \in DOMAIN file.segments :
     file.segments[i].type = "ehFrame" /\ IsMapped(file.segments[i].virtualAddress)}

LocateEhFrameHdr ==
  IF HasSection(".eh_frame_hdr") THEN BlobOfSection(".eh_frame_hdr")
  ELSE IF UnwindSegments # {}
  THEN LET s == file.segments[FirstOf(UnwindSegments)]
       IN BlobAt(s.virtualAddress, s.fileSize)
  ELSE NoBlob

kEhFrameHdrPrologue == 4

\* The header has a pointer to the table, in the encoding of its second byte.
HeaderPoints(b) ==
  /\ Len(b) >= kEhFrameHdrPrologue
  /\ Decodes(b[2])
  /\ ~Overruns(b, kEhFrameHdrPrologue, Kind(b[2]))

\* Found by the header, the table has no size of its own: it ends with the
\* section or the segment it is in.
LocateEhFrame ==
  LET b == ehFrameHdr.bytes
      at == Pointer(b, kEhFrameHdrPrologue, b[2], ehFrameHdr.vaddr)
  IN IF HasSection(".eh_frame") THEN BlobOfSection(".eh_frame")
     ELSE IF HeaderPoints(b) /\ IsMapped(at) THEN BlobAt(at, WordLimit)
     ELSE NoBlob
-----------------------------------------------------------------------------
Table == ehFrame.bytes

ParserInit ==
  /\ pc = "idle"
  /\ ehFrameHdr = NoBlob /\ ehFrame = NoBlob
  /\ pos = 0
  /\ entryStart = 0 /\ idFieldPos = 0 /\ entryEnd = 0 /\ id = 0
  /\ cieEncoding = [p \in {} |-> kPeAbsptr]
  /\ fdeEncoding = kPeAbsptr /\ fields = <<>> /\ letters = <<>> /\ augEnd = 0
  /\ functions = <<>>

LocateHeader ==
  /\ pc = "idle"
  /\ ehFrameHdr' = LocateEhFrameHdr
  /\ pc' = "locate"
  /\ UNCHANGED <<file, ehFrame, pos, entryVars, cieEncoding, cieVars, functions>>

\* A table without bytes is none.
LocateTable ==
  /\ pc = "locate"
  /\ ehFrame' = LocateEhFrame
  /\ pc' = IF Table' = <<>> THEN "done" ELSE "entry"
  /\ UNCHANGED <<file, ehFrameHdr, pos, entryVars, cieEncoding, cieVars, functions>>

\* The end of the walk: no more entries, or a damaged one.
Stop ==
  /\ pc' = "done"
  /\ UNCHANGED <<file, blobs, pos, entryVars, cieEncoding, cieVars, functions>>
-----------------------------------------------------------------------------
(***************************************************************************)
(* An entry starts with its length, in 4 bytes or, after a marker, in 8,   *)
(* and an id, which is 0 in a CIE and the distance to the CIE in an FDE.   *)
(***************************************************************************)
IsDwarf64 == Value(Table, pos, "u32") = MaxU32
LengthAt == IF IsDwarf64 THEN pos + Widths["u32"] ELSE pos
IdKind == IF IsDwarf64 THEN "u64" ELSE "u32"
LengthEnd == FieldEnd(Table, LengthAt, IdKind)
Length == Value(Table, LengthAt, IdKind)

HasEntry == pc = "entry" /\ InBounds(Table, pos, Widths["u32"])

\* The length is there, is not that of the terminator and stays in the table.
\* The code's third test, that the end does not wrap, follows from the second.
IsWhole ==
  /\ LengthEnd <= Len(Table)
  /\ Length > 0
  /\ LengthEnd + Length <= Len(Table)
  /\ ~Overruns(Table, LengthEnd, IdKind)

ReadHeader ==
  /\ HasEntry /\ IsWhole
  /\ entryStart' = pos
  /\ idFieldPos' = LengthEnd
  /\ entryEnd' = LengthEnd + Length
  /\ id' = Value(Table, LengthEnd, IdKind)
  /\ pos' = FieldEnd(Table, LengthEnd, IdKind)
  /\ pc' = IF id' = 0 THEN "cie" ELSE "fde"
  /\ UNCHANGED <<file, blobs, cieEncoding, cieVars, functions>>

EndOfTable == pc = "entry" /\ (HasEntry => ~IsWhole) /\ Stop

\* seek(entryEnd), whatever was read of the entry.
SkipToNext ==
  /\ pos' = entryEnd
  /\ pc' = "entry"
  /\ UNCHANGED <<file, blobs, entryVars>>
-----------------------------------------------------------------------------
kLetterR == 82
kLetterP == 80
kLetterL == 76
kLetterS == 83
kLetterZ == 122

Version == Table[pos + 1]

\* The fields between the augmentation and its data.
CieFields(version) ==
  (IF version >= 4 THEN <<"u8", "u8">> ELSE <<>>)
  \o <<"uleb", "sleb", IF version = 1 THEN "u8" ELSE "uleb">>

\* The version and the augmentation of a CIE.
BeginCie ==
  /\ pc = "cie"
  /\ ~Overruns(Table, pos, "u8")
  /\ letters' = StringAt(Table, pos + 1)
  /\ fields' = CieFields(Version)
  /\ fdeEncoding' = kPeAbsptr
  /\ pos' = FieldEnd(Table, pos + 1, "string")
  /\ pc' = "fields"
  /\ UNCHANGED <<file, blobs, entryVars, cieEncoding, augEnd, functions>>

SkipField ==
  /\ pc = "fields" /\ fields # <<>>
  /\ ~Overruns(Table, pos, Head(fields))
  /\ pos' = FieldEnd(Table, pos, Head(fields))
  /\ fields' = Tail(fields)
  /\ UNCHANGED <<file, pc, blobs, entryVars, cieEncoding, fdeEncoding, letters, augEnd,
                 functions>>

FieldsRead == pc = "fields" /\ fields = <<>>

HasAugmentationData == letters # <<>> /\ Head(letters) = kLetterZ

RememberEncoding(encoding) ==
  cieEncoding' = [p \in DOMAIN cieEncoding \cup {entryStart} |->
                    IF p = entryStart THEN encoding ELSE cieEncoding[p]]

EndPlainCie ==
  /\ FieldsRead
  /\ ~HasAugmentationData
  /\ RememberEncoding(fdeEncoding)
  /\ SkipToNext
  /\ UNCHANGED <<cieVars, functions>>

\* The end of the data is a 64-bit sum, which may wrap.
BeginAugmentation ==
  /\ FieldsRead
  /\ HasAugmentationData
  /\ ~Overruns(Table, pos, "uleb")
  /\ pos' = FieldEnd(Table, pos, "uleb")
  /\ augEnd' = (pos' + Value(Table, pos, "uleb")) % WordLimit
  /\ letters' = Tail(letters)
  /\ pc' = "augmentation"
  /\ UNCHANGED <<file, blobs, entryVars, cieEncoding, fdeEncoding, fields, functions>>

DamagedCie ==
  /\ \/ pc = "cie" /\ Overruns(Table, pos, "u8")
     \/ pc = "fields" /\ fields # <<>> /\ Overruns(Table, pos, Head(fields))
     \/ FieldsRead /\ HasAugmentationData /\ Overruns(Table, pos, "uleb")
  /\ Stop

IsLetter(letter) == pc = "augmentation" /\ letters # <<>> /\ Head(letters) = letter

NextLetter ==
  /\ letters' = Tail(letters)
  /\ UNCHANGED <<file, pc, blobs, entryVars, cieEncoding, fields, augEnd, functions>>

ReadR ==
  /\ IsLetter(kLetterR)
  /\ ~Overruns(Table, pos, "u8")
  /\ fdeEncoding' = Table[pos + 1]
  /\ pos' = pos + 1
  /\ NextLetter

\* The end of a personality: its encoding, and a pointer nobody needs.
PersonalityEnd ==
  IF Overruns(Table, pos, "u8") THEN Past(Table)
  ELSE PointerEnd(Table, pos + 1, Table[pos + 1])

ReadP ==
  /\ IsLetter(kLetterP)
  /\ PersonalityEnd <= Len(Table)
  /\ pos' = PersonalityEnd
  /\ NextLetter
  /\ UNCHANGED fdeEncoding

ReadL ==
  /\ IsLetter(kLetterL)
  /\ ~Overruns(Table, pos, "u8")
  /\ pos' = pos + 1
  /\ NextLetter
  /\ UNCHANGED fdeEncoding

ReadS == IsLetter(kLetterS) /\ NextLetter /\ UNCHANGED <<pos, fdeEncoding>>

DamagedLetter ==
  /\ \/ (IsLetter(kLetterR) \/ IsLetter(kLetterL)) /\ Overruns(Table, pos, "u8")
     \/ IsLetter(kLetterP) /\ PersonalityEnd > Len(Table)
  /\ Stop

\* All letters are read, or one is not known.
LettersRead ==
  /\ pc = "augmentation"
  /\ letters # <<>> => Head(letters) \notin {kLetterR, kLetterP, kLetterL, kLetterS}

\* Mutant of EndCie: the walk goes on after the augmentation.
EndCieAtAugmentation ==
  /\ LettersRead /\ augEnd <= Len(Table)
  /\ RememberEncoding(fdeEncoding)
  /\ pos' = augEnd
  /\ pc' = "entry"
  /\ UNCHANGED <<file, blobs, entryVars, cieVars, functions>>

\* The seek to augEnd, which throws past the table, is undone by the next one.
EndCie ==
  /\ LettersRead /\ augEnd <= Len(Table)
  /\ RememberEncoding(fdeEncoding)
  /\ SkipToNext
  /\ UNCHANGED <<cieVars, functions>>

DamagedAugmentation == LettersRead /\ augEnd > Len(Table) /\ Stop
-----------------------------------------------------------------------------
\* Mutant of CieStart: the distance is counted from the start of the entry.
CieFromEntryStart == (entryStart - id) % WordLimit

CieStart == (idFieldPos - id) % WordLimit

Encoding == IF CieStart \in DOMAIN cieEncoding THEN cieEncoding[CieStart] ELSE kPeAbsptr

BeginEnd == PointerEnd(Table, pos, Encoding)

\* Without an encoding that it knows, the parser passes over the FDE.
SkipFde ==
  /\ pc = "fde"
  /\ ~Decodes(Encoding)
  /\ BeginEnd <= Len(Table)
  /\ SkipToNext
  /\ UNCHANGED <<cieEncoding, cieVars, functions>>

RangeEnd == PointerEnd(Table, BeginEnd, Encoding)

\* Mutant of ReadFde: a function may be empty.
ReadAnyFde ==
  /\ pc = "fde"
  /\ Decodes(Encoding)
  /\ RangeEnd <= Len(Table)
  /\ LET start == Pointer(Table, pos, Encoding, ehFrame.vaddr)
         size == Value(Table, BeginEnd, Kind(Encoding))
     IN functions' = Append(functions, [start |-> start, size |-> size])
  /\ SkipToNext
  /\ UNCHANGED <<cieEncoding, cieVars>>

\* The size has the format of the start but is relative to nothing.
ReadFde ==
  /\ pc = "fde"
  /\ Decodes(Encoding)
  /\ RangeEnd <= Len(Table)
  /\ LET start == Pointer(Table, pos, Encoding, ehFrame.vaddr)
         size == Value(Table, BeginEnd, Kind(Encoding))
     IN functions' = IF size > 0 THEN Append(functions, [start |-> start, size |-> size])
                                 ELSE functions
  /\ SkipToNext
  /\ UNCHANGED <<cieEncoding, cieVars>>

DamagedFde ==
  /\ pc = "fde"
  /\ BeginEnd > Len(Table) \/ (Decodes(Encoding) /\ RangeEnd > Len(Table))
  /\ Stop
-----------------------------------------------------------------------------
Init == FileInit /\ ParserInit

ReadCieStep ==
  \/ BeginCie \/ SkipField \/ EndPlainCie \/ BeginAugmentation \/ DamagedCie
  \/ ReadR \/ ReadP \/ ReadL \/ ReadS \/ DamagedLetter
  \/ EndCie \/ DamagedAugmentation

Next ==
  \/ LocateHeader \/ LocateTable
  \/ ReadHeader \/ EndOfTable
  \/ ReadCieStep
  \/ SkipFde \/ ReadFde \/ DamagedFde

Spec == Init /\ [][Next]_vars

\* parse is one sequential call.
FairSpec == Spec /\ WF_vars(Next)
-----------------------------------------------------------------------------
EhFrameFunction == [start : 0 .. WordLimit - 1, size : 1 .. WordLimit - 1]

\* The reader stays in the table, and every range is one the pipeline can use:
\* FunctionAnalyzer takes the sizes for sizes of functions without a look.
TypeOK ==
  /\ pc \in {"idle", "locate", "entry", "cie", "fields", "augmentation", "fde",
            "done"}
  /\ \A bl \in {ehFrameHdr, ehFrame} : bl.vaddr \in 0 .. WordLimit - 1 /\ bl.bytes \in Seq(Byte)
  /\ pos \in 0 .. Len(Table)
  /\ {entryStart, idFieldPos, entryEnd} \subseteq 0 .. Len(Table)
  /\ {id, augEnd} \subseteq 0 .. WordLimit - 1
  /\ DOMAIN cieEncoding \subseteq 0 .. Len(Table)
  /\ {fdeEncoding} \cup {cieEncoding[p] : p \in DOMAIN cieEncoding} \subseteq Byte
  /\ letters \in Seq(Byte)
  /\ functions \in Seq(EhFrameFunction)

\* The writer of file put the ranges file.ranges into its table; file.whole says
\* that nothing after them is damaged.  Whatever encodings and augmentations it
\* chose, parse finds just these, in order; when the table is cut short or
\* damaged, it still finds those before.
FindsEveryRange ==
  pc = "done" =>
    /\ IsPrefix(file.ranges, functions)
    /\ file.whole => functions = file.ranges

\* The walk ends on every table: an entry is never read twice, even when the
\* end of an augmentation wraps around to an earlier position.
ParseReturns == <>(pc = "done")
==============================================================================
